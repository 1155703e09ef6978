---------------------------- MODULE RecordProofs ----------------------------
(***************************************************************************)
(* Theorems about what becomes of the messages: the XML file, for any      *)
(* header, any types of messages and any number of rows, failed writes and *)
(* dropped calls; the packets of a Bilibili frame, for any commands and    *)
(* any number of packets.                                                  *)
(***************************************************************************)
EXTENDS Writer, BilibiliFeed, FiniteSetTheorems, SequenceTheorems, WellFoundedInduction, TLAPS

-----------------------------------------------------------------------------
(* What the file has been given: what reached it and what is under way.    *)

Running == inflight # NoWrite /\ inflight.state = "running"

Failed == inflight # NoWrite /\ inflight.state = "failed"

Given == IF Running THEN Append(disk, inflight.element) ELSE disk

Before == Len(Header)

WriterTypes ==
  /\ disk \in Seq(Elements)
  /\ inflight \in Writes \union {NoWrite}
  /\ file \in {"absent", "open", "none"}
  /\ rows \in Nat
  /\ call \in Calls \union {NoCall}
  /\ faults \in [failed : Nat, reported : Nat, dropped : Nat]

(* What a call has left to write.                                          *)
CallInv ==
  call # NoCall =>
    /\ file = "open"
    /\ \/ /\ call.name = "new" /\ rows = 0 /\ ~call.flush
          /\ Len(call.writes) \in 1..Before
          /\ \A i \in 1..Len(call.writes) : call.writes[i] = Header[Before - Len(call.writes) + i]
       \/ /\ call.name = "write"
          /\ \/ call.writes = <<>>
             \/ /\ Len(call.writes) = 1
                /\ IsRow(Head(call.writes)) /\ Head(call.writes).number = rows + 1
       \/ call.name = "finalize" /\ call.flush /\ call.writes \in {<<>>, <<End>>}

FileInv ==
  /\ file = "absent" => disk = <<>> /\ inflight = NoWrite /\ rows = 0
  /\ (file # "open" \/ rows = 0) /\ inflight # NoWrite => ~IsRow(inflight.element)

(* Every row that was counted was given to the file, in turn, or its loss   *)
(* was heard of or can be.                                                 *)
RowInv ==
  /\ rows - Cardinality(RowsOf(Given)) <= faults.reported + IF Failed /\ file = "open" THEN 1 ELSE 0
  /\ \A i \in RowsOf(Given) : Given[i].number <= rows
  /\ \A i, j \in RowsOf(Given) : i < j => Given[i].number < Given[j].number

Ending ==
  \/ call # NoCall /\ call.name = "finalize" /\ call.writes = <<>>
  \/ file = "none" /\ inflight = NoWrite

EndInv ==
  faults.dropped = 0 =>
    \A i \in DOMAIN Given : Given[i] = End => i = Len(Given) /\ Ending /\ ~Failed

(* How far the file has come when nothing failed and nothing was dropped.   *)
Length ==
  IF file = "absent" THEN 0
  ELSE IF call # NoCall /\ call.name = "new" THEN Before - Len(call.writes)
  ELSE IF Ending THEN Before + rows + 1 ELSE Before + rows

WholeInv ==
  faults.dropped = 0 /\ faults.reported = 0 =>
    /\ file = "none" => inflight = NoWrite
    /\ ~Failed =>
         /\ Len(Given) = Length
         /\ \A i \in 1..Length :
              /\ i <= Before => Given[i] = Header[i]
              /\ Before < i /\ i <= Before + rows => IsRow(Given[i])
              /\ Before + rows < i => Given[i] = End

WriterInv == WriterTypes /\ CallInv /\ FileInv /\ RowInv /\ EndInv /\ WholeInv

-----------------------------------------------------------------------------
(* The header and the closing tag are elements and no rows.                *)
LEMMA Tags ==
  /\ End \in Elements /\ ~IsRow(End)
  /\ Element("torn", 0) \in Elements /\ ~IsRow(Element("torn", 0)) /\ Element("torn", 0) # End
  /\ Header \in Seq(Elements) /\ Before \in Nat /\ Before >= 2
  /\ \A i \in 1..Before : Header[i] \in Elements /\ ~IsRow(Header[i]) /\ Header[i] # End
<1> DEFINE first == <<Element("xml", 0)>>
           comments == [i \in DOMAIN Comments |-> Element("comment", i)]
           last == <<Element("open", 0)>>
<1>1. /\ End \in Elements /\ ~IsRow(End)
      /\ Element("torn", 0) \in Elements /\ ~IsRow(Element("torn", 0)) /\ Element("torn", 0) # End
  <2>1. End \in Elements /\ Element("torn", 0) \in Elements
    BY DEF End, Element, Elements, Names
  <2>2. End.name = "end" /\ Element("torn", 0).name = "torn"
    BY DEF End, Element
  <2> QED BY <2>1, <2>2 DEF IsRow
<1>2. comments \in Seq(Elements) /\ Len(comments) = Len(Comments) /\ Len(Comments) \in Nat
  <2>1. Comments \in Seq(STRING) /\ Len(Comments) \in Nat /\ DOMAIN Comments = 1..Len(Comments)
    BY WriterAssumption DEF WriterAssumption
  <2>2. \A i \in DOMAIN Comments : Element("comment", i) \in Elements
    BY <2>1 DEF Element, Elements, Names
  <2>3. comments \in [1..Len(Comments) -> Elements]
    BY <2>1, <2>2
  <2> HIDE DEF comments
  <2> QED BY <2>1, <2>3
<1>3. first \in Seq(Elements) /\ last \in Seq(Elements) /\ Len(first) = 1 /\ Len(last) = 1
  <2>1. Element("xml", 0) \in Elements /\ Element("open", 0) \in Elements
    BY DEF Element, Elements, Names
  <2> QED BY <2>1
<1>4. Header = (first \o comments) \o last
  BY DEF Header
<1> HIDE DEF first, comments, last
<1>5. /\ first \o comments \in Seq(Elements) /\ Len(first \o comments) = 1 + Len(Comments)
      /\ \A i \in 1..(1 + Len(Comments)) : (first \o comments)[i] =
           IF i <= 1 THEN first[i] ELSE comments[i - 1]
  <2>1. /\ first \o comments \in Seq(Elements) /\ Len(first \o comments) = Len(first) + Len(comments)
        /\ \A i \in 1..(Len(first) + Len(comments)) : (first \o comments)[i] =
             IF i <= Len(first) THEN first[i] ELSE comments[i - Len(first)]
    BY <1>2, <1>3, ConcatProperties
  <2> QED BY <2>1, <1>2, <1>3
<1>6. /\ Header \in Seq(Elements) /\ Before = 2 + Len(Comments)
      /\ \A i \in 1..Before : Header[i] =
           IF i <= 1 + Len(Comments) THEN (first \o comments)[i] ELSE last[i - (1 + Len(Comments))]
  BY <1>2, <1>3, <1>4, <1>5 DEF Before
<1>7. \A i \in 1..Before : Header[i].name \in {"xml", "comment", "open"}
  <2> SUFFICES ASSUME NEW i \in 1..Before PROVE Header[i].name \in {"xml", "comment", "open"}
    OBVIOUS
  <2>1. CASE i = 1
    BY <2>1, <1>2, <1>5, <1>6 DEF first, Element
  <2>2. CASE i \in 2..(1 + Len(Comments))
    <3>1. Len(Comments) \in Nat /\ DOMAIN Comments = 1..Len(Comments)
      BY WriterAssumption
    <3>2. i - 1 \in DOMAIN Comments /\ i \in 1..(1 + Len(Comments)) /\ ~(i <= 1)
      BY <2>2, <3>1
    <3>3. Header[i] = (first \o comments)[i]
      <4>1. Header[i] = IF i <= 1 + Len(Comments) THEN (first \o comments)[i]
                        ELSE last[i - (1 + Len(Comments))]
        BY <1>6, Zenon
      <4>2. i <= 1 + Len(Comments)
        BY <3>1, <3>2
      <4> QED BY <4>1, <4>2, Zenon
    <3>4. (first \o comments)[i] = comments[i - 1]
      <4>1. (first \o comments)[i] = IF i <= 1 THEN first[i] ELSE comments[i - 1]
        BY <3>2, <1>5, Zenon
      <4> QED BY <3>2, <4>1, Zenon
    <3>5. comments[i - 1].name = "comment"
      BY <3>2 DEF comments, Element
    <3> QED BY <3>3, <3>4, <3>5
  <2>3. CASE i = 2 + Len(Comments)
    BY <2>3, <1>2, <1>6 DEF last, Element
  <2> QED BY <2>1, <2>2, <2>3, <1>2, <1>6
<1>8. \A i \in 1..Before : Header[i] \in Elements /\ ~IsRow(Header[i]) /\ Header[i] # End
  BY <1>6, <1>7 DEF IsRow, End, Element, Before
<1> QED BY <1>1, <1>2, <1>6, <1>8

(* An element adds its row, if it is one, behind those there.              *)
LEMMA RowsAppended ==
  ASSUME NEW s \in Seq(Elements), NEW e \in Elements
  PROVE  /\ IsFiniteSet(RowsOf(s)) /\ Cardinality(RowsOf(s)) \in Nat
         /\ RowsOf(Append(s, e)) = RowsOf(s) \union IF IsRow(e) THEN {Len(s) + 1} ELSE {}
         /\ Cardinality(RowsOf(Append(s, e))) = Cardinality(RowsOf(s)) + IF IsRow(e) THEN 1 ELSE 0
<1>1. RowsOf(s) \in SUBSET (1..Len(s)) /\ IsFiniteSet(1..Len(s)) /\ Len(s) \in Nat
  BY FS_Interval DEF RowsOf
<1>2. IsFiniteSet(RowsOf(s)) /\ Cardinality(RowsOf(s)) \in Nat
  BY <1>1, FS_Subset, FS_CardinalityType
<1>3. RowsOf(Append(s, e)) = RowsOf(s) \union IF IsRow(e) THEN {Len(s) + 1} ELSE {}
  <2>1. DOMAIN Append(s, e) = 1..(Len(s) + 1) /\ DOMAIN s = 1..Len(s)
    OBVIOUS
  <2>2. Append(s, e)[Len(s) + 1] = e /\ \A i \in 1..Len(s) : Append(s, e)[i] = s[i]
    OBVIOUS
  <2> QED BY <2>1, <2>2, <1>1 DEF RowsOf
<1>4. Len(s) + 1 \notin RowsOf(s)
  BY <1>1
<1>5. Cardinality(RowsOf(s) \union {Len(s) + 1}) = Cardinality(RowsOf(s)) + 1
  BY <1>2, <1>4, FS_AddElement
<1>6. CASE IsRow(e)
  BY <1>2, <1>3, <1>5, <1>6
<1>7. CASE ~IsRow(e)
  <2>1. RowsOf(Append(s, e)) = RowsOf(s)
    BY <1>3, <1>7
  <2> QED BY <1>2, <1>3, <1>7, <2>1
<1> QED BY <1>6, <1>7

-----------------------------------------------------------------------------
LEMMA WriterStarts == WriterInit => WriterInv
<1> SUFFICES ASSUME WriterInit PROVE WriterInv
  OBVIOUS
<1>1. WriterTypes /\ CallInv /\ FileInv
  BY DEF WriterInit, WriterTypes, CallInv, FileInv
<1>2. Given = <<>> /\ ~Failed /\ Length = 0
  BY DEF WriterInit, Given, Running, Failed, Length
<1>3. RowsOf(Given) = {} /\ Cardinality(RowsOf(Given)) = 0
  BY <1>2, FS_EmptySet DEF RowsOf
<1>4. RowInv
  BY <1>2, <1>3 DEF RowInv, WriterInit
<1>5. EndInv
  BY <1>2 DEF EndInv
<1>6. WholeInv
  BY <1>2 DEF WholeInv, WriterInit
<1> QED BY <1>1, <1>4, <1>5, <1>6 DEF WriterInv

-----------------------------------------------------------------------------
LEMMA MessagesAreRows ==
  ASSUME NEW type, NEW number \in Nat
  PROVE  /\ Element(ElementOf(type), number) \in Elements
         /\ IsRow(Element(ElementOf(type), number))
         /\ Element(ElementOf(type), number).number = number
<1>1. BilibiliType(type) \in {"top", "bottom", "scroll"}
  <2> DEFINE top == type \in {"SuperChat", "Subscription"}
             bottom == type = "System"
  <2>1. BilibiliType(type) = CASE top -> "top" [] bottom -> "bottom" [] OTHER -> "scroll"
    BY DEF BilibiliType
  <2>2. ~(top /\ bottom)
    OBVIOUS
  <2> HIDE DEF top, bottom
  <2> QED BY <2>1, <2>2, Zenon
<1>2. ElementOf(type) \in {"gift", "sc", "top", "bottom", "scroll"}
  <2> DEFINE gift == type = "Gift"
             sc == type = "SuperChat"
             other == BilibiliType(type)
  <2>1. ElementOf(type) = CASE gift -> "gift" [] sc -> "sc" [] OTHER -> other
    BY DEF ElementOf
  <2>2. ~(gift /\ sc)
    OBVIOUS
  <2>3. other \in {"top", "bottom", "scroll"}
    BY <1>1
  <2> HIDE DEF gift, sc, other
  <2> QED BY <2>1, <2>2, <2>3, Zenon
<1> QED BY <1>2 DEF Element, Elements, Names, IsRow

LEMMA TypesKept ==
  ASSUME WriterTypes, CallInv, WriterNext
  PROVE  WriterTypes'
<1> USE DEF WriterTypes
<1>1. CASE NewWriter
  <2>1. call' \in Calls
    BY <1>1, Tags DEF NewWriter, Calling, Calls
  <2> QED BY <1>1, <2>1 DEF NewWriter
<1>2. CASE FinalizeFile
  <2>1. <<End>> \in Seq(Elements)
    BY Tags
  <2>2. call' \in Calls
    BY <1>2, <2>1 DEF FinalizeFile, Calling, Calls
  <2> QED BY <1>2, <2>2 DEF FinalizeFile
<1>3. ASSUME NEW type \in MessageTypes, WriteMessage(type) PROVE WriterTypes'
  <2>1. <<Element(ElementOf(type), rows + 1)>> \in Seq(Elements)
    BY MessagesAreRows
  <2>2. call' \in Calls
    BY <1>3, <2>1 DEF WriteMessage, Calling, Calls
  <2> QED BY <1>3, <2>2 DEF WriteMessage
<1>4. CASE Land
  <2>1. inflight.element \in Elements
    BY <1>4 DEF Land, Writes
  <2> QED BY <1>4, <2>1 DEF Land
<1>5. CASE Fail
  <2>1. inflight' \in Writes
    BY <1>5 DEF Fail, Writes
  <2>2. disk' \in Seq(Elements)
    <3>1. CASE disk' = disk
      BY <3>1
    <3>2. CASE disk' = Append(disk, Element("torn", 0))
      BY <3>2, Tags
    <3> QED BY <1>5, <3>1, <3>2 DEF Fail
  <2>3. faults' \in [failed : Nat, reported : Nat, dropped : Nat]
    BY <1>5 DEF Fail
  <2> QED BY <1>5, <2>1, <2>2, <2>3 DEF Fail
<1>6. ASSUME NEW outcome, Finished(outcome)
      PROVE  /\ call' = NoCall /\ file' \in {file, "none"}
             /\ faults' \in [failed : Nat, reported : Nat, dropped : Nat]
  BY <1>6 DEF Finished
<1>7. CASE HearOfFailure
  BY <1>7, <1>6 DEF HearOfFailure
<1>8. CASE PutNext
  <2>1. call \in Calls /\ call.writes \in Seq(Elements) /\ call.writes # <<>>
    BY <1>8 DEF PutNext, Calls
  <2>2. Head(call.writes) \in Elements /\ Tail(call.writes) \in Seq(Elements)
    BY <2>1
  <2>3. inflight' \in Writes /\ rows' \in Nat
    BY <1>8, <2>2 DEF PutNext, Writes
  <2>4. CASE Finished("ok")
    BY <1>8, <1>6, <2>3, <2>4 DEF PutNext
  <2>5. CASE call' = [call EXCEPT !.writes = Tail(@)] /\ UNCHANGED <<file, faults>>
    <3>1. call' \in Calls
      BY <2>1, <2>2, <2>5 DEF Calls
    <3> QED BY <1>8, <2>3, <2>5, <3>1 DEF PutNext
  <2> QED BY <1>8, <2>4, <2>5 DEF PutNext
<1>9. CASE Flushed
  BY <1>9, <1>6 DEF Flushed
<1>10. CASE DropCall
  BY <1>10 DEF DropCall
<1> QED BY <1>1, <1>2, <1>3, <1>4, <1>5, <1>7, <1>8, <1>9, <1>10 DEF WriterNext

(* Only two steps change what the file has been given: a call's next        *)
(* element is added, and one that fails is taken back.                     *)
LEMMA GivenStep ==
  ASSUME WriterTypes, WriterNext
  PROVE  /\ PutNext => /\ ~Running /\ ~Failed /\ ~Failed' /\ Head(call.writes) \in Elements
                       /\ Given' = Append(Given, Head(call.writes))
         /\ Fail => /\ Running /\ ~Failed /\ Failed' /\ inflight.element \in Elements
                    /\ Given = Append(disk, inflight.element)
                    /\ Given' \in {disk, Append(disk, Element("torn", 0))}
         /\ ~PutNext /\ ~Fail => /\ Given' = Given /\ rows' = rows
                                 /\ Failed' <=> Failed /\ ~HearOfFailure
<1> USE DEF Given, Running, Failed
<1>1. CASE NewWriter \/ FinalizeFile \/ (\E type \in MessageTypes : WriteMessage(type)) \/ Flushed \/ DropCall
  <2>1. UNCHANGED <<disk, inflight, rows>>
    BY <1>1 DEF NewWriter, FinalizeFile, WriteMessage, Flushed, DropCall
  <2>2. ~HearOfFailure /\ ~PutNext /\ ~Fail
    <3>1. inflight # NoWrite /\ inflight.state = "running" => ~Fail
      <4>1. inflight # NoWrite => inflight \in Writes
        BY DEF WriterTypes
      <4>2. Fail => inflight'.state = "failed"
        BY <4>1 DEF Fail, Writes
      <4> QED BY <2>1, <4>2
    <3>2. ~PutNext
      <4>1. PutNext => inflight' \in Writes
        BY DEF PutNext, Writes, WriterTypes, Calls
      <4> QED BY <2>1, <4>1, WriterAssumption DEF WriterAssumption, PutNext
    <3>3. ~HearOfFailure
      BY <2>1 DEF HearOfFailure
    <3> QED BY <3>1, <3>2, <3>3 DEF Fail
  <2> QED BY <2>1, <2>2
<1>2. CASE Land
  <2>1. ~HearOfFailure /\ ~PutNext
    BY <1>2 DEF Land, HearOfFailure, PutNext
  <2>2. ~Fail
    <3>1. inflight \in Writes
      BY <1>2 DEF Land, WriterTypes
    <3>2. Fail => inflight' \in Writes
      BY <3>1 DEF Fail, Writes
    <3> QED BY <1>2, <3>2, WriterAssumption DEF WriterAssumption, Land
  <2> QED BY <1>2, <2>1, <2>2 DEF Land
<1>3. CASE HearOfFailure
  <2>1. ~PutNext /\ ~Fail /\ ~Running /\ ~Running'
    BY <1>3 DEF HearOfFailure, PutNext, Fail
  <2> QED BY <1>3, <2>1 DEF HearOfFailure
<1>4. CASE PutNext
  <2>1. Head(call.writes) \in Elements
    BY <1>4 DEF PutNext, WriterTypes, Calls
  <2>2. inflight' \in Writes
    BY <1>4, <2>1 DEF PutNext, Writes
  <2>3. inflight' # NoWrite
    BY <2>2, WriterAssumption DEF WriterAssumption
  <2>4. ~Fail
    BY <1>4 DEF PutNext, Fail
  <2> QED BY <1>4, <2>1, <2>3, <2>4 DEF PutNext
<1>5. CASE Fail
  <2>1. inflight \in Writes
    BY <1>5 DEF Fail, WriterTypes
  <2>2. inflight' \in Writes /\ inflight'.state = "failed" /\ inflight.element \in Elements
    BY <1>5, <2>1 DEF Fail, Writes
  <2>3. inflight' # NoWrite
    BY <2>2, WriterAssumption DEF WriterAssumption
  <2>4. ~PutNext
    BY <1>5 DEF PutNext, Fail
  <2> QED BY <1>5, <2>2, <2>3, <2>4 DEF Fail
<1> QED BY <1>1, <1>2, <1>3, <1>4, <1>5 DEF WriterNext

(* The element a call writes next is its kind of element.                  *)
LEMMA NextElement ==
  ASSUME WriterTypes, CallInv, PutNext
  PROVE  /\ file = "open" /\ file' = "open" /\ faults' = faults
         /\ call \in Calls /\ call.writes # <<>> /\ call.writes \in Seq(Elements)
         /\ \/ /\ call.name = "new" /\ rows = 0 /\ rows' = 0
               /\ Head(call.writes) = Header[Before - Len(call.writes) + 1]
               /\ Len(call.writes) \in 1..Before
               /\ ~IsRow(Head(call.writes)) /\ Head(call.writes) # End
            \/ /\ call.name = "write" /\ Len(call.writes) = 1 /\ rows' = rows + 1
               /\ IsRow(Head(call.writes)) /\ Head(call.writes).number = rows + 1
               /\ Head(call.writes) # End
            \/ /\ call.name = "finalize" /\ call.writes = <<End>> /\ call.flush /\ rows' = rows
               /\ Head(call.writes) = End /\ ~IsRow(Head(call.writes))
         /\ \/ Len(call.writes) = 1 /\ ~call.flush /\ call' = NoCall
            \/ /\ Len(call.writes) # 1 \/ call.flush
               /\ call' \in Calls /\ call' # NoCall
               /\ call'.name = call.name /\ call'.flush = call.flush /\ call'.writes = Tail(call.writes)
<1>1. call \in Calls /\ call.writes # <<>> /\ call.writes \in Seq(Elements) /\ file = "open"
  BY DEF PutNext, WriterTypes, Calls, CallInv
<1>2. Head(call.writes) = call.writes[1] /\ Len(call.writes) \in Nat /\ Len(call.writes) >= 1
  BY <1>1
<1>3. file' = "open" /\ faults' = faults
  <2>1. CASE Len(call.writes) = 1 /\ ~call.flush
    <3>1. call.name # "finalize"
      BY <1>1, <2>1 DEF CallInv, PutNext
    <3>2. Finished("ok")
      BY <2>1 DEF PutNext
    <3>3. faults'.reported = faults.reported
      BY <3>2 DEF Finished, WriterTypes
    <3> QED BY <1>1, <3>1, <3>2 DEF Finished, WriterTypes
  <2>2. CASE ~(Len(call.writes) = 1 /\ ~call.flush)
    BY <1>1, <2>2 DEF PutNext
  <2> QED BY <2>1, <2>2
<1>4. \/ Len(call.writes) = 1 /\ ~call.flush /\ call' = NoCall
      \/ /\ Len(call.writes) # 1 \/ call.flush
         /\ call' \in Calls /\ call' # NoCall
         /\ call'.name = call.name /\ call'.flush = call.flush /\ call'.writes = Tail(call.writes)
  <2>1. CASE Len(call.writes) = 1 /\ ~call.flush
    BY <2>1 DEF PutNext, Finished
  <2>2. CASE ~(Len(call.writes) = 1 /\ ~call.flush)
    <3>1. call' = [call EXCEPT !.writes = Tail(@)]
      BY <2>2 DEF PutNext
    <3>2. Tail(call.writes) \in Seq(Elements)
      BY <1>1
    <3>3. call' \in Calls
      BY <1>1, <3>1, <3>2 DEF Calls
    <3>4. call'.name = call.name /\ call'.flush = call.flush /\ call'.writes = Tail(call.writes)
      BY <1>1, <3>1 DEF Calls
    <3> QED BY <2>2, <3>3, <3>4, WriterAssumption DEF WriterAssumption
  <2> QED BY <2>1, <2>2
<1>5. CASE call.name = "new"
  <2>1. Len(call.writes) \in 1..Before /\ call.writes[1] = Header[Before - Len(call.writes) + 1]
    BY <1>2, <1>5 DEF CallInv, PutNext
  <2>2. Before - Len(call.writes) + 1 \in 1..Before
    BY <1>2, <2>1, Tags
  <2>3. rows = 0 /\ rows' = 0
    BY <1>5 DEF CallInv, PutNext
  <2> QED BY <1>1, <1>2, <1>3, <1>4, <1>5, <2>1, <2>2, <2>3, Tags
<1>6. CASE call.name = "write"
  <2>1. Len(call.writes) = 1 /\ IsRow(Head(call.writes)) /\ Head(call.writes).number = rows + 1
    BY <1>1, <1>6 DEF CallInv, PutNext
  <2>2. rows' = rows + 1
    BY <1>6 DEF PutNext
  <2> QED BY <1>1, <1>3, <1>4, <1>6, <2>1, <2>2, Tags
<1>7. CASE call.name = "finalize"
  <2>1. call.writes = <<End>> /\ call.flush
    BY <1>1, <1>7 DEF CallInv, PutNext
  <2>2. rows' = rows
    BY <1>7 DEF PutNext, WriterTypes
  <2>3. Head(call.writes) = End /\ ~IsRow(Head(call.writes))
    BY <2>1, Tags
  <2> QED BY <1>1, <1>3, <1>4, <1>7, <2>1, <2>2, <2>3, Zenon
<1> QED BY <1>1, <1>5, <1>6, <1>7 DEF Calls

LEMMA CallKept ==
  ASSUME WriterTypes, CallInv, FileInv, WriterNext
  PROVE  CallInv'
<1> SUFFICES ASSUME call' # NoCall
             PROVE  CallInv'
  BY DEF CallInv
<1>1. CASE NewWriter
  <2>1. rows' = 0 /\ file' = "open" /\ call'.name = "new" /\ call'.writes = Header /\ ~call'.flush
    BY <1>1 DEF NewWriter, Calling, FileInv
  <2> QED BY <2>1, Tags DEF CallInv, Before
<1>2. CASE FinalizeFile
  BY <1>2 DEF FinalizeFile, Calling, CallInv
<1>3. ASSUME NEW type \in MessageTypes, WriteMessage(type) PROVE CallInv'
  <2> DEFINE e == Element(ElementOf(type), rows + 1)
  <2>1. IsRow(e) /\ e.number = rows + 1
    BY MessagesAreRows DEF WriterTypes
  <2>2. call'.name = "write" /\ call'.writes = <<e>> /\ rows' = rows /\ file' = "open"
    BY <1>3 DEF WriteMessage, Calling
  <2> HIDE DEF e
  <2> QED BY <2>1, <2>2 DEF CallInv, IsRow
<1>4. CASE Land \/ Fail
  BY <1>4 DEF Land, Fail, CallInv, IsRow
<1>5. CASE HearOfFailure \/ Flushed \/ DropCall
  BY <1>5 DEF HearOfFailure, Flushed, DropCall, Finished
<1>6. CASE PutNext
  <2> DEFINE left == Len(call.writes)
  <2>1. call'.name = call.name /\ call'.flush = call.flush /\ call'.writes = Tail(call.writes)
        /\ (left # 1 \/ call.flush)
    BY <1>6, NextElement DEF Calls
  <2>2. /\ left \in Nat /\ left >= 1 /\ Len(call'.writes) = left - 1
        /\ \A i \in 1..(left - 1) : call'.writes[i] = call.writes[i + 1]
    BY <1>6, <2>1, NextElement
  <2>3. CASE call.name = "new"
    <3>1. left \in 1..Before /\ ~call.flush /\ rows' = 0 /\ file' = "open"
      BY <1>6, <2>3, NextElement DEF CallInv, PutNext
    <3>2. \A i \in 1..left : call.writes[i] = Header[Before - left + i]
      BY <1>6, <2>3 DEF CallInv, PutNext
    <3>3. left - 1 \in 1..Before
      <4>1. left # 1
        BY <2>1, <3>1, Zenon
      <4>2. Before \in Nat
        BY Tags
      <4> HIDE DEF left
      <4> QED BY <2>2, <3>1, <4>1, <4>2
    <3>4. \A i \in 1..(left - 1) : call'.writes[i] = Header[Before - (left - 1) + i]
      <4> SUFFICES ASSUME NEW i \in 1..(left - 1)
                   PROVE  call'.writes[i] = Header[Before - (left - 1) + i]
        OBVIOUS
      <4>1. i + 1 \in 1..left /\ Before - left + (i + 1) = Before - (left - 1) + i
        BY <2>2, Tags
      <4> QED BY <2>2, <3>2, <4>1
    <3> QED BY <2>1, <2>2, <2>3, <3>1, <3>3, <3>4 DEF CallInv
  <2>4. CASE call.name = "write"
    <3>1. left = 1 /\ file' = "open"
      BY <1>6, <2>4, NextElement
    <3>2. Tail(call.writes) = <<>>
      <4>1. Tail(call.writes) \in Seq(Elements) /\ Len(Tail(call.writes)) = 0
        BY <2>1, <2>2, <3>1, <1>6, NextElement
      <4> QED BY <4>1, EmptySeq
    <3> QED BY <2>1, <2>4, <3>1, <3>2 DEF CallInv
  <2>5. CASE call.name = "finalize"
    <3>1. call.writes = <<End>> /\ call.flush /\ file' = "open"
      BY <1>6, <2>5, NextElement
    <3>2. Tail(call.writes) = <<>>
      BY <3>1
    <3> QED BY <2>1, <2>5, <3>1, <3>2 DEF CallInv
  <2> QED BY <1>6, <2>3, <2>4, <2>5, NextElement DEF Calls
<1> QED BY <1>1, <1>2, <1>3, <1>4, <1>5, <1>6 DEF WriterNext

LEMMA FileKept ==
  ASSUME WriterTypes, CallInv, FileInv, WriterNext
  PROVE  FileInv'
<1> USE DEF FileInv
<1>1. CASE NewWriter \/ FinalizeFile \/ \E type \in MessageTypes : WriteMessage(type)
  BY <1>1 DEF NewWriter, FinalizeFile, WriteMessage
<1>2. CASE Land
  BY <1>2 DEF Land
<1>3. CASE Fail
  <2>1. inflight \in Writes
    BY <1>3 DEF Fail, WriterTypes
  <2>2. inflight'.element = inflight.element
    BY <1>3, <2>1 DEF Fail, Writes
  <2> QED BY <1>3, <2>2 DEF Fail
<1>4. CASE HearOfFailure
  <2>1. file' \in {"open", "none"} /\ inflight' = NoWrite
    BY <1>4 DEF HearOfFailure, Finished, CallInv
  <2> QED BY <2>1
<1>5. CASE Flushed
  <2>1. file' \in {"open", "none"} /\ inflight' = NoWrite
    BY <1>5 DEF Flushed, Finished, CallInv
  <2> QED BY <2>1
<1>6. CASE DropCall
  <2>1. file = "open" /\ file' \in {"open", "none"} /\ UNCHANGED <<rows, inflight>>
    BY <1>6 DEF DropCall, CallInv
  <2>2. file' = "none" => rows = 0
    BY <1>6, <2>1 DEF DropCall, CallInv
  <2> QED BY <2>1, <2>2
<1>7. CASE PutNext
  <2>1. file' = "open" /\ (IsRow(Head(call.writes)) => rows' = rows + 1)
    BY <1>7, NextElement
  <2>2. inflight'.element = Head(call.writes)
    BY <1>7 DEF PutNext
  <2> QED BY <2>1, <2>2 DEF WriterTypes
<1> QED BY <1>1, <1>2, <1>3, <1>4, <1>5, <1>6, <1>7 DEF WriterNext

LEMMA RowKept ==
  ASSUME WriterTypes, CallInv, FileInv, RowInv, WriterNext
  PROVE  RowInv'
<1> DEFINE count == Cardinality(RowsOf(Given))
           unheard == IF Failed /\ file = "open" THEN 1 ELSE 0
<1>1. Given \in Seq(Elements)
  BY DEF WriterTypes, Given, Running, Writes
<1>2. /\ count \in Nat /\ rows \in Nat /\ rows - count <= faults.reported + unheard
      /\ \A i \in RowsOf(Given) : Given[i].number <= rows
      /\ \A i, j \in RowsOf(Given) : i < j => Given[i].number < Given[j].number
  <2>1. count \in Nat
    BY <1>1, RowsAppended, Tags
  <2> QED BY <2>1 DEF RowInv, WriterTypes
<1>3. faults.reported \in Nat /\ faults.dropped \in Nat
  BY DEF WriterTypes
<1>4. CASE PutNext
  <2> DEFINE e == Head(call.writes)
  <2>1. /\ Given' = Append(Given, e) /\ e \in Elements /\ ~Failed /\ ~Failed'
        /\ faults' = faults
    BY <1>4, GivenStep, NextElement
  <2>2. rows' = rows + (IF IsRow(e) THEN 1 ELSE 0) /\ (IsRow(e) => e.number = rows + 1)
    BY <1>4, <1>2, NextElement
  <2> HIDE DEF e
  <2>3. /\ RowsOf(Given') = RowsOf(Given) \union IF IsRow(e) THEN {Len(Given) + 1} ELSE {}
        /\ Cardinality(RowsOf(Given')) = count + IF IsRow(e) THEN 1 ELSE 0
    BY <1>1, <2>1, RowsAppended
  <2>4. count' = Cardinality(RowsOf(Given')) /\ unheard = 0 /\ unheard' = 0
    BY <2>1
  <2>5. rows' - count' <= faults'.reported + unheard'
    <3>1. CASE IsRow(e)
      BY <1>2, <1>3, <2>1, <2>2, <2>3, <2>4, <3>1
    <3>2. CASE ~IsRow(e)
      BY <1>2, <1>3, <2>1, <2>2, <2>3, <2>4, <3>2
    <3> QED BY <3>1, <3>2
  <2>6. /\ Len(Given) \in Nat /\ Given'[Len(Given) + 1] = e
        /\ \A i \in RowsOf(Given) : i \in 1..Len(Given) /\ Given'[i] = Given[i] /\ Given[i].number \in Nat
    <3>1. \A i \in 1..Len(Given) : Given[i] \in Elements /\ Given[i].number \in Nat
      <4>1. \A i \in 1..Len(Given) : Given[i] \in Elements
        BY <1>1
      <4> QED BY <4>1 DEF Elements
    <3>2. RowsOf(Given) \subseteq 1..Len(Given)
      BY <1>1 DEF RowsOf
    <3>3. Len(Given) \in Nat /\ Given'[Len(Given) + 1] = e /\ \A i \in 1..Len(Given) : Given'[i] = Given[i]
      BY <1>1, <2>1
    <3> QED BY <3>1, <3>2, <3>3
  <2>7. CASE IsRow(e)
    <3>1. \A i \in RowsOf(Given)' : i \in RowsOf(Given) \/ i = Len(Given) + 1
      BY <2>3, <2>7
    <3>2. rows' = rows + 1 /\ e.number = rows + 1
      BY <2>2, <2>7
    <3>3. \A i \in RowsOf(Given)' : Given'[i].number <= rows'
      BY <1>2, <2>6, <3>1, <3>2
    <3>4. ASSUME NEW i \in RowsOf(Given)', NEW j \in RowsOf(Given)', i < j
          PROVE  Given'[i].number < Given'[j].number
      <4>1. i \in RowsOf(Given)
        BY <2>6, <3>1, <3>4
      <4>2. CASE j \in RowsOf(Given)
        BY <1>2, <2>6, <3>4, <4>1, <4>2
      <4>3. CASE j = Len(Given) + 1
        <5>1. Given'[j].number = rows + 1
          BY <2>6, <3>2, <4>3
        <5>2. Given'[i].number <= rows /\ Given'[i].number \in Nat
          BY <1>2, <2>6, <4>1
        <5> QED BY <1>2, <5>1, <5>2
      <4> QED BY <3>1, <4>2, <4>3
    <3> QED BY <2>5, <3>3, <3>4 DEF RowInv
  <2>8. CASE ~IsRow(e)
    <3>1. RowsOf(Given)' = RowsOf(Given) /\ rows' = rows
      BY <1>2, <2>2, <2>3, <2>8
    <3>2. \A i \in RowsOf(Given)' : Given'[i].number <= rows'
      BY <1>2, <2>6, <3>1
    <3>3. \A i, j \in RowsOf(Given)' : i < j => Given'[i].number < Given'[j].number
      BY <1>2, <2>6, <3>1
    <3> QED BY <2>5, <3>2, <3>3 DEF RowInv
  <2> QED BY <2>7, <2>8
<1>5. CASE Fail
  <2> DEFINE e == inflight.element
             torn == Element("torn", 0)
  <2>1. /\ ~Failed /\ Failed' /\ e \in Elements /\ Given = Append(disk, e) /\ disk \in Seq(Elements)
        /\ Given' \in {disk, Append(disk, torn)} /\ (IsRow(e) => file = "open")
    BY <1>5, GivenStep DEF FileInv, WriterTypes, Running
  <2>2. rows' = rows /\ faults'.reported = faults.reported /\ file' = file
    BY <1>5 DEF Fail, WriterTypes
  <2>3. torn \in Elements /\ ~IsRow(torn)
    BY Tags
  <2> HIDE DEF e, torn
  <2>4. /\ RowsOf(Given) = RowsOf(disk) \union (IF IsRow(e) THEN {Len(disk) + 1} ELSE {})
        /\ count = Cardinality(RowsOf(disk)) + (IF IsRow(e) THEN 1 ELSE 0)
        /\ Cardinality(RowsOf(disk)) \in Nat
    BY <2>1, RowsAppended
  <2>5. RowsOf(Append(disk, torn)) = RowsOf(disk)
    BY <2>1, <2>3, RowsAppended
  <2>6. RowsOf(Given)' = RowsOf(disk) /\ count' = Cardinality(RowsOf(disk))
    BY <2>1, <2>5
  <2>7. \A i \in RowsOf(disk) : i \in RowsOf(Given) /\ Given'[i] = Given[i]
    <3> SUFFICES ASSUME NEW i \in RowsOf(disk) PROVE i \in RowsOf(Given) /\ Given'[i] = Given[i]
      OBVIOUS
    <3>1. i \in 1..Len(disk) /\ Len(disk) \in Nat
      BY <2>1 DEF RowsOf
    <3>2. Append(disk, e)[i] = disk[i] /\ Append(disk, torn)[i] = disk[i]
      BY <2>1, <2>3, <3>1
    <3> QED BY <2>1, <2>4, <3>2
  <2>8. rows' - count' <= faults'.reported + unheard'
    <3>1. unheard = 0 /\ unheard' = IF file = "open" THEN 1 ELSE 0
      BY <2>1, <2>2
    <3>2. CASE IsRow(e)
      BY <1>2, <1>3, <2>1, <2>2, <2>4, <2>6, <3>1, <3>2
    <3>3. CASE ~IsRow(e)
      BY <1>2, <1>3, <2>1, <2>2, <2>4, <2>6, <3>1, <3>3
    <3> QED BY <3>2, <3>3
  <2>9. \A i \in RowsOf(Given)' : Given'[i].number <= rows'
    BY <1>2, <2>2, <2>6, <2>7
  <2>10. \A i, j \in RowsOf(Given)' : i < j => Given'[i].number < Given'[j].number
    BY <1>2, <2>6, <2>7
  <2> QED BY <2>8, <2>9, <2>10 DEF RowInv
<1>6. CASE ~PutNext /\ ~Fail
  <2>1. Given' = Given /\ rows' = rows /\ (Failed' <=> Failed /\ ~HearOfFailure)
    BY <1>6, GivenStep
  <2>2. count' = count
    BY <2>1
  <2>3. rows' - count' <= faults'.reported + unheard'
    <3>1. CASE NewWriter \/ FinalizeFile \/ Land \/ \E type \in MessageTypes : WriteMessage(type)
      <4>1. faults' = faults /\ (file' = file \/ (file = "absent" /\ rows = 0))
        <5>1. CASE NewWriter
          BY <5>1 DEF NewWriter, FileInv
        <5>2. CASE FinalizeFile \/ Land \/ \E type \in MessageTypes : WriteMessage(type)
          BY <5>2 DEF FinalizeFile, Land, WriteMessage
        <5> QED BY <3>1, <5>1, <5>2
      <4>2. ~HearOfFailure
        BY <3>1 DEF NewWriter, FinalizeFile, WriteMessage, Land, HearOfFailure
      <4> QED BY <1>2, <1>3, <2>1, <2>2, <4>1, <4>2
    <3>2. CASE HearOfFailure
      <4>1. faults'.reported = faults.reported + 1
        BY <3>2 DEF HearOfFailure, Finished, WriterTypes
      <4> QED BY <1>2, <1>3, <2>1, <2>2, <4>1
    <3>3. CASE Flushed
      <4>1. faults'.reported = faults.reported /\ ~Failed
        BY <3>3 DEF Flushed, Finished, WriterTypes, Failed
      <4> QED BY <1>2, <1>3, <2>1, <2>2, <4>1
    <3>4. CASE DropCall
      <4>1. faults'.reported = faults.reported /\ (file' = file \/ rows = 0)
        BY <3>4 DEF DropCall, WriterTypes, CallInv
      <4>2. ~HearOfFailure
        BY <3>4, <1>3 DEF DropCall, HearOfFailure, WriterTypes
      <4> QED BY <1>2, <1>3, <2>1, <2>2, <4>1, <4>2
    <3> QED BY <1>6, <3>1, <3>2, <3>3, <3>4 DEF WriterNext
  <2>4. \A i \in RowsOf(Given)' : Given'[i].number <= rows'
    BY <1>2, <2>1
  <2>5. \A i, j \in RowsOf(Given)' : i < j => Given'[i].number < Given'[j].number
    BY <1>2, <2>1
  <2> QED BY <2>3, <2>4, <2>5 DEF RowInv
<1> QED BY <1>4, <1>5, <1>6

LEMMA EndKept ==
  ASSUME WriterTypes, CallInv, FileInv, EndInv, WriterNext
  PROVE  EndInv'
<1>1. Given \in Seq(Elements)
  BY DEF WriterTypes, Given, Running, Writes
<1>2. SUFFICES ASSUME faults'.dropped = 0, NEW i \in DOMAIN Given', Given'[i] = End
               PROVE  i = Len(Given') /\ Ending' /\ ~Failed'
  BY DEF EndInv
<1>3. faults.dropped = 0 /\ ~DropCall
  <2>1. faults.dropped \in Nat /\ (DropCall => faults'.dropped = faults.dropped + 1)
    BY DEF WriterTypes, DropCall
  <2>2. faults'.dropped \in {faults.dropped, faults.dropped + 1}
    BY DEF WriterNext, WriterTypes, NewWriter, FinalizeFile, WriteMessage, Land, Fail, HearOfFailure, PutNext,
           Flushed, DropCall, Finished
  <2> QED BY <1>2, <2>1, <2>2
<1>4. \A k \in DOMAIN Given : Given[k] = End => k = Len(Given) /\ Ending /\ ~Failed
  BY <1>3 DEF EndInv
<1>5. CASE PutNext
  <2> DEFINE e == Head(call.writes)
  <2>1. Given' = Append(Given, e) /\ e \in Elements /\ ~Failed'
    BY <1>5, GivenStep
  <2>2. ~Ending
    BY <1>5, NextElement DEF Ending, PutNext
  <2>3. Len(Given') = Len(Given) + 1 /\ Len(Given) \in Nat /\ Given'[Len(Given) + 1] = e
        /\ DOMAIN Given' = 1..(Len(Given) + 1)
        /\ \A k \in 1..Len(Given) : k \in DOMAIN Given /\ Given'[k] = Given[k]
    BY <1>1, <2>1
  <2>4. i = Len(Given')
    BY <1>2, <1>4, <2>2, <2>3
  <2>5. e = End
    BY <1>2, <2>3, <2>4
  <2>6. call.name = "finalize" /\ call.writes = <<End>> /\ call.flush
    BY <1>5, <2>5, NextElement
  <2>7. call' # NoCall /\ call'.name = "finalize" /\ call'.writes = Tail(call.writes)
    BY <1>5, <2>6, NextElement
  <2>8. Tail(call.writes) = <<>>
    BY <2>6
  <2>9. Ending'
    BY <2>7, <2>8 DEF Ending
  <2> QED BY <2>1, <2>4, <2>9
<1>6. CASE Fail
  <2> DEFINE torn == Element("torn", 0)
             e == inflight.element
  <2>1. Given = Append(disk, e) /\ e \in Elements /\ Given' \in {disk, Append(disk, torn)}
    BY <1>6, GivenStep
  <2>2. torn \in Elements /\ torn # End /\ disk \in Seq(Elements)
    BY Tags DEF WriterTypes
  <2> HIDE DEF torn, e
  <2>3. /\ Len(disk) \in Nat /\ Len(Given) = Len(disk) + 1 /\ DOMAIN Given = 1..(Len(disk) + 1)
        /\ DOMAIN disk = 1..Len(disk)
        /\ \A k \in 1..Len(disk) : Given[k] = disk[k] /\ Append(disk, torn)[k] = disk[k]
    BY <2>1, <2>2
  <2>4. DOMAIN Append(disk, torn) = 1..(Len(disk) + 1) /\ Append(disk, torn)[Len(disk) + 1] = torn
    BY <2>2
  <2>5. i \in 1..Len(disk) /\ disk[i] = End
    BY <1>2, <2>1, <2>2, <2>3, <2>4
  <2> QED BY <1>4, <2>3, <2>5
<1>7. CASE ~PutNext /\ ~Fail
  <2>1. Given' = Given /\ (Failed' <=> Failed /\ ~HearOfFailure)
    BY <1>7, GivenStep
  <2>2. i = Len(Given') /\ Ending /\ ~Failed /\ ~Failed'
    BY <1>2, <1>4, <2>1
  <2>3. CASE call # NoCall /\ call.name = "finalize" /\ call.writes = <<>>
    <3>1. ~NewWriter /\ ~FinalizeFile /\ (\A type \in MessageTypes : ~WriteMessage(type)) /\ ~HearOfFailure
      BY <2>2, <2>3 DEF NewWriter, FinalizeFile, WriteMessage, HearOfFailure, Failed
    <3>2. CASE Land
      BY <2>2, <2>3, <3>2 DEF Land, Ending
    <3>3. CASE Flushed
      BY <2>2, <2>3, <3>3 DEF Flushed, Finished, Ending
    <3> QED BY <1>3, <1>7, <2>2, <3>1, <3>2, <3>3 DEF WriterNext
  <2>4. CASE file = "none" /\ inflight = NoWrite
    <3>1. call = NoCall
      BY <2>4 DEF CallInv
    <3> QED BY <1>3, <1>7, <2>4, <3>1 DEF WriterNext, NewWriter, FinalizeFile, WriteMessage, Land,
            HearOfFailure, Flushed
  <2> QED BY <2>2, <2>3, <2>4 DEF Ending
<1> QED BY <1>5, <1>6, <1>7

LEMMA WholeKept ==
  ASSUME WriterTypes, CallInv, FileInv, WholeInv, WriterNext
  PROVE  WholeInv'
<1>1. Given \in Seq(Elements) /\ rows \in Nat /\ Before \in Nat /\ Before >= 2
  BY Tags DEF WriterTypes, Given, Running, Writes
<1>2. SUFFICES ASSUME faults'.dropped = 0, faults'.reported = 0
               PROVE  /\ file' = "none" => inflight' = NoWrite
                      /\ ~Failed' =>
                           /\ Len(Given') = Length'
                           /\ \A i \in 1..Length' :
                                /\ i <= Before => Given'[i] = Header[i]
                                /\ Before < i /\ i <= Before + rows' => IsRow(Given'[i])
                                /\ Before + rows' < i => Given'[i] = End
  BY DEF WholeInv, Before, Header
<1>3. faults.dropped = 0 /\ faults.reported = 0 /\ ~DropCall /\ ~HearOfFailure
  <2>1. /\ faults.dropped \in Nat /\ faults.reported \in Nat
        /\ DropCall => faults'.dropped = faults.dropped + 1
        /\ HearOfFailure => faults'.reported = faults.reported + 1
    BY DEF WriterTypes, DropCall, HearOfFailure, Finished
  <2>2. /\ faults'.dropped \in {faults.dropped, faults.dropped + 1}
        /\ faults'.reported \in {faults.reported, faults.reported + 1}
    <3>1. CASE HearOfFailure
      BY <2>1, <3>1 DEF HearOfFailure, Finished, WriterTypes
    <3>2. CASE Flushed
      BY <2>1, <3>2 DEF Flushed, Finished, WriterTypes
    <3>3. CASE PutNext
      BY <3>3, NextElement
    <3>4. CASE DropCall \/ Fail
      BY <2>1, <3>4 DEF DropCall, Fail, WriterTypes
    <3> QED BY <3>1, <3>2, <3>3, <3>4 DEF WriterNext, NewWriter, FinalizeFile, WriteMessage, Land
  <2> QED BY <1>2, <2>1, <2>2
<1>4. file = "none" => inflight = NoWrite
  BY <1>3 DEF WholeInv
<1>5. ~Failed => /\ Len(Given) = Length
                 /\ \A i \in 1..Length :
                      /\ i <= Before => Given[i] = Header[i]
                      /\ Before < i /\ i <= Before + rows => IsRow(Given[i])
                      /\ Before + rows < i => Given[i] = End
  BY <1>3 DEF WholeInv
<1>6. CASE PutNext
  <2> DEFINE e == Head(call.writes)
             left == Len(call.writes)
  <2>1. /\ Given' = Append(Given, e) /\ e \in Elements /\ ~Failed
        /\ file = "open" /\ file' = "open" /\ call # NoCall
    BY <1>6, GivenStep, NextElement DEF PutNext
  <2>2. /\ Len(Given') = Len(Given) + 1 /\ Len(Given) \in Nat /\ Given'[Len(Given) + 1] = e
        /\ \A k \in 1..Len(Given) : Given'[k] = Given[k]
    BY <1>1, <2>1
  <2>3. call' # NoCall =>
          call' \in Calls /\ call'.name = call.name /\ call'.writes = Tail(call.writes)
          /\ Len(call'.writes) = left - 1
    BY <1>6, NextElement DEF Calls
  <2>4. left \in Nat /\ left >= 1
    BY <1>6, NextElement
  <2>5. CASE call.name = "new"
    <3>1. /\ rows = 0 /\ rows' = 0 /\ left \in 1..Before /\ e = Header[Before - left + 1]
          /\ ~call.flush
      BY <1>6, <2>1, <2>5, NextElement DEF CallInv
    <3>2. Length = Before - left
      BY <2>1, <2>5 DEF Length
    <3>3. Length' = Before - left + 1
      <4>1. CASE call' = NoCall
        <5>1. left = 1
          BY <1>6, <4>1, NextElement
        <5>2. Length' = Before + rows'
          BY <2>1, <4>1 DEF Length, Ending, Before, Header
        <5> QED BY <1>1, <3>1, <5>1, <5>2
      <4>2. CASE call' # NoCall
        <5>1. Length' = Before - Len(call'.writes)
          BY <2>1, <2>3, <2>5, <4>2 DEF Length, Before, Header
        <5>2. Len(call'.writes) = left - 1
          BY <2>3, <4>2
        <5> HIDE DEF left
        <5> QED BY <1>1, <2>4, <5>1, <5>2
      <4> QED BY <4>1, <4>2
    <3> HIDE DEF e, left
    <3>4. Len(Given) = Before - left /\ Length' = Len(Given) + 1 /\ Len(Given) < Before
      BY <1>1, <1>5, <2>1, <2>4, <3>1, <3>2, <3>3
    <3>5. \A i \in 1..Length' : i <= Before /\ Given'[i] = Header[i]
      <4> SUFFICES ASSUME NEW i \in 1..Length' PROVE i <= Before /\ Given'[i] = Header[i]
        OBVIOUS
      <4>1. CASE i = Len(Given) + 1
        BY <1>1, <2>2, <3>1, <3>4, <4>1
      <4>2. CASE i \in 1..Len(Given)
        BY <1>1, <1>5, <2>1, <2>2, <3>2, <3>4, <4>2
      <4> QED BY <2>2, <3>4, <4>1, <4>2
    <3> QED BY <1>1, <2>1, <2>2, <3>1, <3>4, <3>5
  <2>6. CASE call.name = "write"
    <3>1. rows' = rows + 1 /\ left = 1 /\ IsRow(e)
      BY <1>6, <2>6, NextElement
    <3>2. Length = Before + rows
      BY <2>1, <2>6 DEF Length, Ending
    <3>3. Length' = Before + rows'
      BY <2>1, <2>3, <2>6 DEF Length, Ending, Before, Header
    <3> HIDE DEF e, left
    <3>4. Len(Given) = Before + rows /\ Length' = Len(Given) + 1
      BY <1>1, <1>5, <2>1, <3>1, <3>2, <3>3
    <3>5. ASSUME NEW i \in 1..Length'
          PROVE  /\ i <= Before => Given'[i] = Header[i]
                 /\ Before < i /\ i <= Before + rows' => IsRow(Given'[i])
                 /\ Before + rows' < i => Given'[i] = End
      <4>1. CASE i = Len(Given) + 1
        BY <1>1, <2>2, <3>1, <3>4, <4>1
      <4>2. CASE i \in 1..Len(Given)
        BY <1>1, <1>5, <2>1, <2>2, <3>1, <3>2, <3>4, <4>2
      <4> QED BY <2>2, <3>4, <4>1, <4>2
    <3> QED BY <2>1, <2>2, <3>4, <3>5
  <2>7. CASE call.name = "finalize"
    <3>1. rows' = rows /\ left = 1 /\ e = End /\ call.flush /\ call.writes = <<End>>
      BY <1>6, <2>7, NextElement
    <3>2. Length = Before + rows
      BY <2>1, <2>7, <3>1 DEF Length, Ending
    <3>3. call' # NoCall /\ call'.writes = <<>>
      <4>1. call' # NoCall /\ call'.writes = Tail(call.writes)
        BY <1>6, <3>1, NextElement
      <4>2. Tail(call.writes) = <<>>
        BY <3>1
      <4> QED BY <4>1, <4>2
    <3>4. Length' = Before + rows' + 1
      BY <2>1, <2>3, <2>7, <3>3 DEF Length, Ending, Before, Header
    <3> HIDE DEF e, left
    <3>5. Len(Given) = Before + rows /\ Length' = Len(Given) + 1
      BY <1>1, <1>5, <2>1, <3>1, <3>2, <3>4
    <3>6. ASSUME NEW i \in 1..Length'
          PROVE  /\ i <= Before => Given'[i] = Header[i]
                 /\ Before < i /\ i <= Before + rows' => IsRow(Given'[i])
                 /\ Before + rows' < i => Given'[i] = End
      <4>1. CASE i = Len(Given) + 1
        BY <1>1, <2>2, <3>1, <3>5, <4>1
      <4>2. CASE i \in 1..Len(Given)
        BY <1>1, <1>5, <2>1, <2>2, <3>1, <3>2, <3>5, <4>2
      <4> QED BY <2>2, <3>5, <4>1, <4>2
    <3> QED BY <2>1, <2>2, <3>5, <3>6
  <2> QED BY <1>6, <2>5, <2>6, <2>7, NextElement
<1>7. CASE Fail
  <2>1. Failed' /\ Running
    BY <1>7, GivenStep
  <2>2. file' # "none"
    BY <1>4, <1>7, <2>1 DEF Fail, Running
  <2> QED BY <2>1, <2>2
<1>8. CASE ~PutNext /\ ~Fail
  <2>1. Given' = Given /\ rows' = rows /\ (Failed' <=> Failed)
    BY <1>3, <1>8, GivenStep
  <2>2. (file' = "none" => inflight' = NoWrite) /\ Length' = Length
    <3> USE DEF Length, Ending
    <3>0. Before' = Before
      BY DEF Before, Header
    <3>1. CASE NewWriter
      <4>1. call' \in Calls
        BY <1>8, <3>1, TypesKept, Tags DEF NewWriter, Calling, Calls
      <4>2. /\ file = "absent" /\ file' = "open" /\ call' # NoCall /\ call'.name = "new"
            /\ call'.writes = Header
        BY <3>1, <4>1, WriterAssumption DEF NewWriter, Calling, WriterAssumption
      <4>3. Length' = Before - Len(Header)
        BY <3>0, <4>2
      <4> QED BY <1>1, <4>2, <4>3 DEF Before
    <3>2. CASE FinalizeFile \/ \E type \in MessageTypes : WriteMessage(type)
      <4>1. /\ file = "open" /\ file' = "open" /\ call = NoCall /\ call'.name \in {"write", "finalize"}
            /\ call'.writes # <<>>
        BY <3>2 DEF FinalizeFile, WriteMessage, Calling
      <4> QED BY <2>1, <3>0, <4>1
    <3>3. CASE Land
      BY <1>4, <2>1, <3>0, <3>3 DEF Land
    <3>4. CASE Flushed
      <4>1. /\ file = "open" /\ call # NoCall /\ call' = NoCall /\ call.name # "new"
            /\ inflight' = NoWrite /\ call.writes = <<>>
            /\ file' = IF call.name = "finalize" THEN "none" ELSE "open"
        BY <3>4 DEF Flushed, Finished, CallInv
      <4> QED BY <2>1, <3>0, <4>1
    <3> QED BY <1>3, <1>8, <3>1, <3>2, <3>3, <3>4 DEF WriterNext
  <2> QED BY <1>5, <2>1, <2>2
<1> QED BY <1>6, <1>7, <1>8

LEMMA RecordFollows == WriterInv => RecordWellFormed
<1> SUFFICES ASSUME WriterInv PROVE RecordWellFormed
  OBVIOUS
<1> DEFINE onItsWay == IF Running /\ IsRow(inflight.element) THEN 1 ELSE 0
           unheard == IF Failed /\ file = "open" THEN 1 ELSE 0
<1>1. disk \in Seq(Elements) /\ Given \in Seq(Elements) /\ rows \in Nat /\ Before \in Nat /\ Before >= 2
      /\ Len(disk) \in Nat /\ DOMAIN disk = 1..Len(disk)
  BY Tags DEF WriterInv, WriterTypes, Given, Running, Writes
<1>2. /\ Cardinality(RowsOf(disk)) \in Nat
      /\ Cardinality(RowsOf(Given)) = Cardinality(RowsOf(disk)) + onItsWay
      /\ RowsOf(disk) \subseteq RowsOf(Given)
      /\ \A i \in DOMAIN disk : i \in DOMAIN Given /\ Given[i] = disk[i]
      /\ Running => Len(Given) = Len(disk) + 1
  <2>0. Cardinality(RowsOf(disk)) \in Nat
    BY <1>1, RowsAppended, Tags
  <2>1. CASE Running
    <3>1. inflight.element \in Elements /\ Given = Append(disk, inflight.element)
      BY <2>1 DEF Given, Running, WriterInv, WriterTypes, Writes
    <3>2. /\ RowsOf(Given) = RowsOf(disk) \union IF IsRow(inflight.element) THEN {Len(disk) + 1} ELSE {}
          /\ Cardinality(RowsOf(Given)) =
               Cardinality(RowsOf(disk)) + IF IsRow(inflight.element) THEN 1 ELSE 0
      BY <1>1, <3>1, RowsAppended
    <3>3. /\ \A i \in DOMAIN disk : i \in DOMAIN Given /\ Given[i] = disk[i]
          /\ Len(Given) = Len(disk) + 1
      BY <1>1, <3>1
    <3> QED BY <2>0, <2>1, <3>2, <3>3
  <2>2. CASE ~Running
    BY <2>0, <2>2 DEF Given
  <2> QED BY <2>1, <2>2
<1>3. rows - Cardinality(RowsOf(disk)) - onItsWay <= faults.reported + unheard
  <2>1. rows - Cardinality(RowsOf(Given)) <= faults.reported + unheard
    BY DEF WriterInv, RowInv
  <2> HIDE DEF onItsWay, unheard
  <2>2. onItsWay \in Nat
    BY DEF onItsWay
  <2> QED BY <1>1, <1>2, <2>1, <2>2
<1>4. \A i, j \in RowsOf(disk) : i < j => disk[i].number < disk[j].number
  <2>1. \A i, j \in RowsOf(Given) : i < j => Given[i].number < Given[j].number
    BY DEF WriterInv, RowInv
  <2>2. RowsOf(disk) \subseteq DOMAIN disk
    BY DEF RowsOf
  <2> QED BY <1>2, <2>1, <2>2
<1>5. faults.dropped = 0 => \A i \in DOMAIN disk : disk[i] = End => i = Len(disk)
  <2> SUFFICES ASSUME faults.dropped = 0, NEW i \in DOMAIN disk, disk[i] = End
               PROVE  i = Len(disk)
    OBVIOUS
  <2>1. i \in DOMAIN Given /\ Given[i] = End
    BY <1>2
  <2>2. i = Len(Given)
    BY <2>1 DEF WriterInv, EndInv
  <2>3. ~Running
    BY <1>1, <1>2, <2>2
  <2> QED BY <2>2, <2>3 DEF Given
<1>6. ASSUME file = "none", faults.dropped = 0, faults.reported = 0
      PROVE  /\ Len(disk) = Before + rows + 1 /\ SubSeq(disk, 1, Before) = Header
             /\ RowsOf(disk) = (Before + 1)..(Before + rows)
             /\ disk[Before + rows + 1] = End
  <2>1. inflight = NoWrite
    BY <1>6 DEF WriterInv, WholeInv
  <2>2. Given = disk /\ ~Failed
    BY <2>1 DEF Given, Running, Failed
  <2>3. Length = Before + rows + 1
    <3>1. call = NoCall
      BY <1>6 DEF WriterInv, CallInv
    <3> QED BY <1>6, <2>1, <3>1 DEF Length, Ending
  <2>4. /\ Len(disk) = Before + rows + 1
        /\ \A i \in 1..(Before + rows + 1) :
             /\ i <= Before => disk[i] = Header[i]
             /\ Before < i /\ i <= Before + rows => IsRow(disk[i])
             /\ Before + rows < i => disk[i] = End
    BY <1>6, <2>2, <2>3 DEF WriterInv, WholeInv
  <2>5. SubSeq(disk, 1, Before) = Header
    <3>1. Header \in Seq(Elements) /\ Len(Header) = Before
      BY Tags DEF Before
    <3>2. /\ SubSeq(disk, 1, Before) \in Seq(Elements) /\ Len(SubSeq(disk, 1, Before)) = Before
          /\ \A i \in 1..Before : SubSeq(disk, 1, Before)[i] = disk[i]
      BY <1>1, <2>4
    <3>3. \A i \in 1..Before : SubSeq(disk, 1, Before)[i] = Header[i]
      BY <1>1, <2>4, <3>2
    <3> QED BY <3>1, <3>2, <3>3, SeqEqual
  <2>6. RowsOf(disk) = (Before + 1)..(Before + rows)
    <3>1. ASSUME NEW i \in 1..Len(disk)
          PROVE  IsRow(disk[i]) <=> i \in (Before + 1)..(Before + rows)
      <4>1. CASE i <= Before
        BY <1>1, <2>4, <4>1, Tags
      <4>2. CASE i \in (Before + 1)..(Before + rows)
        BY <1>1, <2>4, <4>2
      <4>3. CASE i > Before + rows
        BY <1>1, <2>4, <4>3, Tags
      <4> QED BY <1>1, <4>1, <4>2, <4>3
    <3>2. (Before + 1)..(Before + rows) \subseteq 1..Len(disk)
      BY <1>1, <2>4
    <3> QED BY <1>1, <3>1, <3>2 DEF RowsOf
  <2>7. disk[Before + rows + 1] = End
    BY <1>1, <2>4
  <2> QED BY <2>4, <2>5, <2>6, <2>7
<1> QED BY <1>3, <1>4, <1>5, <1>6 DEF RecordWellFormed, Running, Failed, Before

(* For any header, any kinds of messages, any interval between flushes and *)
(* any number of rows, failed writes and dropped calls, a row once counted *)
(* is in the file or its loss is reported, rows keep their order, and a     *)
(* file finalized without a fault is whole (writer.rs:124-215).            *)
THEOREM RecordIsWellFormed == WriterSpec => []RecordWellFormed
<1>1. WriterInit => WriterInv
  BY WriterStarts
<1>2. WriterInv /\ [WriterNext]_writerVars => WriterInv'
  <2> SUFFICES ASSUME WriterInv, [WriterNext]_writerVars PROVE WriterInv'
    OBVIOUS
  <2>1. CASE WriterNext
    BY <2>1, TypesKept, CallKept, FileKept, RowKept, EndKept, WholeKept DEF WriterInv
  <2>2. CASE UNCHANGED writerVars
    <3>1. UNCHANGED <<disk, inflight, file, rows, call, faults>>
      BY <2>2 DEF writerVars
    <3>2. UNCHANGED <<Running, Failed, Given, Before, Ending, Length>>
      BY <3>1 DEF Running, Failed, Given, Before, Ending, Length, Header
    <3>3. WriterTypes' /\ CallInv' /\ FileInv'
      BY <3>1, <3>2 DEF WriterInv, WriterTypes, CallInv, FileInv
    <3>4. RowInv'
      BY <3>1, <3>2 DEF WriterInv, RowInv
    <3>5. EndInv'
      BY <3>1, <3>2 DEF WriterInv, EndInv
    <3>6. WholeInv'
      BY <3>1, <3>2 DEF WriterInv, WholeInv
    <3> QED BY <3>3, <3>4, <3>5, <3>6 DEF WriterInv
  <2> QED BY <2>1, <2>2
<1>3. WriterInv => RecordWellFormed
  BY RecordFollows
<1> QED BY <1>1, <1>2, <1>3, PTL DEF WriterSpec

-----------------------------------------------------------------------------
(* A Bilibili frame: what FlattenSeq makes of a sequence one longer.       *)

(* A set of numbers that is not empty has a least one.                     *)
LEMMA LeastOf ==
  ASSUME NEW T \in SUBSET Nat, T # {}
  PROVE  \E n \in T : \A m \in T : n <= m
<1>1. PICK n \in T : \A m \in T : ~(<<m, n>> \in OpToRel(<, Nat))
  BY NatLessThanWellFounded, WFMin
<1>2. \A m \in T : ~(m < n)
  BY <1>1 DEF OpToRel
<1> QED BY <1>2

(* The recursion of FlattenSeq.                                            *)
Flattens(f, seqs, m) ==
  \A i \in 1..m : f[i] = IF i = 1 THEN seqs[i] ELSE f[i - 1] \o seqs[i]

LEMMA FlattensOnce ==
  ASSUME NEW seqs, NEW f, NEW g, NEW m \in Nat, Flattens(f, seqs, m), Flattens(g, seqs, m)
  PROVE  \A i \in 1..m : f[i] = g[i]
<1> DEFINE T == {i \in 1..m : f[i] # g[i]}
<1> SUFFICES ASSUME T # {} PROVE FALSE
  OBVIOUS
<1>0. T \in SUBSET Nat
  OBVIOUS
<1>1. PICK n \in T : \A k \in T : n <= k
  <2> HIDE DEF T
  <2> QED BY <1>0, LeastOf
<1>2. n \in 1..m /\ f[n] # g[n]
  OBVIOUS
<1>3. n # 1
  BY <1>2 DEF Flattens
<1>4. n - 1 \in 1..m /\ ~(n <= n - 1)
  BY <1>0, <1>2, <1>3
<1>5. f[n - 1] = g[n - 1]
  BY <1>1, <1>4
<1> QED BY <1>2, <1>3, <1>5 DEF Flattens

LEMMA FlattensSome ==
  ASSUME NEW S, NEW seqs \in Seq(Seq(S))
  PROVE  \E f \in [1..Len(seqs) -> Seq(S)] : Flattens(f, seqs, Len(seqs))
<1> USE DEF Flattens
<1> DEFINE L == Len(seqs)
           Upto(f, n) == Flattens(f, seqs, n)
           T == {n \in 0..L : ~\E f \in [1..n -> Seq(S)] : Upto(f, n)}
<1>1. L \in Nat /\ \A i \in 1..L : seqs[i] \in Seq(S)
  OBVIOUS
<1>2. T = {}
  <2> SUFFICES ASSUME T # {} PROVE FALSE
    OBVIOUS
  <2>0. T \in SUBSET Nat
    BY <1>1
  <2>1. PICK n \in T : \A k \in T : n <= k
    <3> HIDE DEF T
    <3> QED BY <2>0, LeastOf
  <2>2. n \in 0..L /\ ~\E f \in [1..n -> Seq(S)] : Upto(f, n)
    OBVIOUS
  <2>3. n # 0
    <3>1. n = 0 => [i \in 1..0 |-> <<>>] \in [1..n -> Seq(S)] /\ Upto([i \in 1..0 |-> <<>>], n)
      OBVIOUS
    <3> QED BY <2>2, <3>1
  <2>4. n \in 1..L /\ n - 1 \in 0..L /\ ~(n <= n - 1)
    BY <1>1, <2>2, <2>3
  <2>5. PICK f \in [1..(n - 1) -> Seq(S)] : Upto(f, n - 1)
    BY <2>1, <2>4
  <2> DEFINE e == IF n = 1 THEN seqs[n] ELSE f[n - 1] \o seqs[n]
             g == [i \in 1..n |-> IF i = n THEN e ELSE f[i]]
  <2>6. e \in Seq(S)
    <3>1. seqs[n] \in Seq(S)
      BY <1>1, <2>4
    <3>2. CASE n # 1
      <4>1. n - 1 \in 1..(n - 1)
        BY <2>4, <3>2
      <4>2. f[n - 1] \in Seq(S)
        BY <4>1
      <4> QED BY <3>1, <3>2, <4>2, ConcatProperties
    <3> QED BY <3>1, <3>2
  <2> HIDE DEF e
  <2>7. g \in [1..n -> Seq(S)]
    BY <2>4, <2>6
  <2>8. Upto(g, n)
    <3> SUFFICES ASSUME NEW i \in 1..n PROVE g[i] = IF i = 1 THEN seqs[i] ELSE g[i - 1] \o seqs[i]
      OBVIOUS
    <3>1. CASE i = n
      <4>1. g[i] = e /\ (i # 1 => g[i - 1] = f[i - 1])
        BY <2>4, <3>1
      <4> HIDE DEF g
      <4> QED BY <3>1, <4>1 DEF e
    <3>2. CASE i # n
      <4>1. i \in 1..(n - 1) /\ g[i] = f[i] /\ (i # 1 => g[i - 1] = f[i - 1])
        BY <2>4, <3>2
      <4> HIDE DEF g
      <4> QED BY <2>5, <4>1
    <3> QED BY <3>1, <3>2
  <2> QED BY <2>2, <2>7, <2>8
<1>3. L \in 0..L
  BY <1>1
<1> QED BY <1>2, <1>3 DEF Flattens

LEMMA FlattenIs ==
  ASSUME NEW S, NEW seqs \in Seq(Seq(S)), Len(seqs) # 0
  PROVE  \E f \in [1..Len(seqs) -> Seq(S)] : Flattens(f, seqs, Len(seqs)) /\ FlattenSeq(seqs) = f[Len(seqs)]
<1> DEFINE Step(f) == [i \in 1..Len(seqs) |-> IF i = 1 THEN seqs[i] ELSE f[i - 1] \o seqs[i]]
           flatten == CHOOSE f : f = Step(f)
<1>1. FlattenSeq(seqs) = flatten[Len(seqs)]
  BY Zenon DEF FlattenSeq
<1>2. PICK f \in [1..Len(seqs) -> Seq(S)] : Flattens(f, seqs, Len(seqs))
  BY FlattensSome
<1>3. f = Step(f)
  BY <1>2 DEF Flattens
<1>4. flatten = Step(flatten)
  BY <1>3
<1> HIDE DEF flatten
<1>5. Flattens(flatten, seqs, Len(seqs))
  BY <1>4 DEF Flattens
<1>6. \A i \in 1..Len(seqs) : flatten[i] = f[i]
  <2>1. Len(seqs) \in Nat
    OBVIOUS
  <2> QED BY <1>2, <1>5, <2>1, FlattensOnce
<1>7. Len(seqs) \in 1..Len(seqs)
  OBVIOUS
<1> QED BY <1>1, <1>2, <1>6, <1>7

LEMMA FlattenAppend ==
  ASSUME NEW S, NEW seqs \in Seq(Seq(S)), NEW last \in Seq(S)
  PROVE  /\ FlattenSeq(seqs) \in Seq(S)
         /\ FlattenSeq(Append(seqs, last)) = FlattenSeq(seqs) \o last
<1> DEFINE L == Len(seqs)
           more == Append(seqs, last)
<1>1. /\ L \in Nat /\ more \in Seq(Seq(S)) /\ Len(more) = L + 1 /\ more[L + 1] = last
      /\ \A i \in 1..L : more[i] = seqs[i]
  OBVIOUS
<1>2. PICK g \in [1..(L + 1) -> Seq(S)] : Flattens(g, more, L + 1) /\ FlattenSeq(more) = g[L + 1]
  <2> HIDE DEF more, L
  <2>1. more \in Seq(Seq(S)) /\ Len(more) # 0 /\ Len(more) = L + 1
    BY <1>1
  <2>2. \E g \in [1..Len(more) -> Seq(S)] : Flattens(g, more, Len(more)) /\ FlattenSeq(more) = g[Len(more)]
    BY <2>1, FlattenIs
  <2> QED BY <2>1, <2>2
<1>3. CASE L = 0
  <2>1. seqs = <<>> /\ FlattenSeq(seqs) = <<>>
    <3>1. seqs = <<>>
      BY <1>3
    <3> QED BY <1>3, <3>1, Zenon DEF FlattenSeq
  <2>2. g[1] = last
    <3> HIDE DEF more, L
    <3> QED BY <1>1, <1>2, <1>3 DEF Flattens
  <2>3. <<>> \o last = last /\ <<>> \in Seq(S) /\ L + 1 = 1
    BY <1>3, ConcatEmptySeq, EmptySeq
  <2> HIDE DEF L, more
  <2>4. FlattenSeq(more) = last
    BY <1>2, <2>2, <2>3
  <2> QED BY <2>1, <2>3, <2>4 DEF more
<1>4. CASE L # 0
  <2>1. PICK f \in [1..L -> Seq(S)] : Flattens(f, seqs, Len(seqs)) /\ FlattenSeq(seqs) = f[L]
    BY <1>4, FlattenIs
  <2> HIDE DEF more
  <2>2. Flattens(g, seqs, L)
    <3> SUFFICES ASSUME NEW i \in 1..L PROVE g[i] = IF i = 1 THEN seqs[i] ELSE g[i - 1] \o seqs[i]
      BY DEF Flattens
    <3> HIDE DEF L
    <3>1. i \in 1..(L + 1) /\ more[i] = seqs[i]
      BY <1>1
    <3>2. g[i] = IF i = 1 THEN more[i] ELSE g[i - 1] \o more[i]
      BY <1>2, <3>1 DEF Flattens
    <3> QED BY <3>1, <3>2
  <2>3. \A i \in 1..L : f[i] = g[i]
    <3>1. L \in Nat /\ Flattens(f, seqs, L)
      BY <1>1, <2>1
    <3> HIDE DEF L
    <3>2. L \in Nat /\ Flattens(f, seqs, L) /\ Flattens(g, seqs, L)
      BY <2>2, <3>1
    <3>3. \A m \in Nat : Flattens(f, seqs, m) /\ Flattens(g, seqs, m) => \A i \in 1..m : f[i] = g[i]
      <4>1. ASSUME NEW a, NEW b, NEW c, NEW m \in Nat, Flattens(a, c, m), Flattens(b, c, m)
            PROVE  \A i \in 1..m : a[i] = b[i]
        BY <4>1, FlattensOnce
      <4> QED BY <4>1, ZenonT(30)
    <3> QED BY <3>2, <3>3
  <2>4. g[L + 1] = g[L] \o last
    <3> HIDE DEF L
    <3>1. L + 1 \in 1..(L + 1) /\ L + 1 # 1 /\ (L + 1) - 1 = L
      BY <1>1, <1>4
    <3>2. g[L + 1] = g[(L + 1) - 1] \o more[L + 1]
      BY <1>2, <3>1 DEF Flattens
    <3> QED BY <1>1, <3>1, <3>2
  <2>5. L \in 1..L
    BY <1>1, <1>4
  <2> HIDE DEF L
  <2> QED BY <1>2, <2>1, <2>3, <2>4, <2>5 DEF more
<1> QED BY <1>3, <1>4

-----------------------------------------------------------------------------
(* The packets a server puts into a frame, and what each becomes.          *)
Notifications(n, cmds) == Packets([i \in 1..n |-> Packet(5, 0, Json(cmds[i]))])

Replies == {Packet(op, 1, Garbage) : op \in {2, 3, 8}}

Raws == {Packet(5, 0, Json(cmd)) : cmd \in Commands}

CompressedPackets ==
  {Packet(5, ver, Compressed(ver, Notifications(Len(cmds), cmds))) :
     ver \in {2, 3}, cmds \in [1..1 -> Commands] \union [1..2 -> Commands]}

Put == Replies \union Raws \union CompressedPackets

Outputs(packet) == IF packet.op = 5 THEN ParseNotification(packet.body, packet.ver) ELSE <<>>

AllOutputs == FlattenSeq([i \in 1..Len(frame) |-> Outputs(frame[i])])

Arrivals(cmds) == FlattenSeq([i \in 1..Len(cmds) |-> NotificationItems(Json(cmds[i]))])

AllCompressed == \A i \in 1..Len(frame) : frame[i].op = 5 => frame[i].ver # 0

FrameInv ==
  /\ frame \in Seq(Put) /\ sent \in Seq(Commands)
  /\ AllCompressed => AllOutputs = Arrivals(sent)

Items == {"Message", "Control"}

LEMMA ItemsOfNotification == ASSUME NEW cmd PROVE NotificationItems(Json(cmd)) \in Seq(Items)
<1> DEFINE message == cmd \in {"DANMU_MSG", "SEND_GIFT", "SUPER_CHAT_MESSAGE"}
           control == cmd = "ROOM_CHANGE"
<1>1. NotificationItems(Json(cmd)) =
        CASE message -> <<"Message">> [] control -> <<"Control">> [] OTHER -> <<>>
  BY DEF NotificationItems, Json
<1>2. ~(message /\ control)
  OBVIOUS
<1>3. <<"Message">> \in Seq(Items) /\ <<"Control">> \in Seq(Items) /\ <<>> \in Seq(Items)
  BY DEF Items
<1> HIDE DEF message, control
<1> QED BY <1>1, <1>2, <1>3, Zenon

LEMMA AppendArrival ==
  ASSUME NEW cmds \in Seq(Commands), NEW cmd \in Commands
  PROVE  /\ Arrivals(cmds) \in Seq(Items)
         /\ Arrivals(Append(cmds, cmd)) = Arrivals(cmds) \o NotificationItems(Json(cmd))
<1> DEFINE n == Len(cmds)
           seqs == [i \in 1..n |-> NotificationItems(Json(cmds[i]))]
           more == [i \in 1..Len(Append(cmds, cmd)) |-> NotificationItems(Json(Append(cmds, cmd)[i]))]
<1>1. n \in Nat /\ seqs \in Seq(Seq(Items)) /\ Len(seqs) = n
  BY ItemsOfNotification
<1>2. more = Append(seqs, NotificationItems(Json(cmd)))
  <2>1. /\ Len(Append(cmds, cmd)) = n + 1 /\ Append(cmds, cmd)[n + 1] = cmd
        /\ \A i \in 1..n : Append(cmds, cmd)[i] = cmds[i]
    OBVIOUS
  <2>2. more \in Seq(Seq(Items)) /\ Len(more) = n + 1
    BY <1>1, <2>1, ItemsOfNotification
  <2>3. Append(seqs, NotificationItems(Json(cmd))) \in Seq(Seq(Items))
        /\ Len(Append(seqs, NotificationItems(Json(cmd)))) = n + 1
    BY <1>1, ItemsOfNotification
  <2>4. ASSUME NEW i \in 1..(n + 1)
        PROVE  more[i] = Append(seqs, NotificationItems(Json(cmd)))[i]
    <3>1. CASE i = n + 1
      BY <1>1, <2>1, <3>1
    <3>2. CASE i \in 1..n
      BY <1>1, <2>1, <3>2
    <3> QED BY <1>1, <3>1, <3>2
  <2> HIDE DEF more, seqs
  <2> QED BY <2>2, <2>3, <2>4, SeqEqual
<1> HIDE DEF more, seqs
<1> QED BY <1>1, <1>2, ItemsOfNotification, FlattenAppend DEF Arrivals, more, seqs

LEMMA ArrivalsAreItems == ASSUME NEW cmds \in Seq(Commands) PROVE Arrivals(cmds) \in Seq(Items)
<1> DEFINE seqs == [i \in 1..Len(cmds) |-> NotificationItems(Json(cmds[i]))]
<1>1. seqs \in Seq(Seq(Items))
  BY ItemsOfNotification
<1>2. Arrivals(cmds) = FlattenSeq(seqs)
  BY DEF Arrivals
<1> HIDE DEF seqs
<1> QED BY <1>1, <1>2, FlattenAppend, EmptySeq

(* What a packet of notifications becomes.                                 *)
LEMMA NotificationsParsed ==
  ASSUME NEW n \in 1..2, NEW cmds \in [1..n -> Commands]
  PROVE  /\ ParseRaw(Notifications(n, cmds)) \in Seq(Items)
         /\ \A before \in Seq(Commands) :
              Arrivals(before \o cmds) = Arrivals(before) \o ParseRaw(Notifications(n, cmds))
<1> DEFINE ps == [i \in 1..n |-> Packet(5, 0, Json(cmds[i]))]
           items == [i \in 1..n |-> NotificationItems(Json(cmds[i]))]
<1>0. cmds \in Seq(Commands) /\ Len(cmds) = n /\ \A i \in 1..n : cmds[i] \in Commands
  <2>1. n \in Nat
    OBVIOUS
  <2> QED BY <2>1
<1>1. Len(ps) = n /\ \A i \in 1..n : ps[i].op = 5 /\ ps[i].body = Json(cmds[i]) /\ ps[i].sane
  <2>1. Len(ps) = n
    OBVIOUS
  <2>2. \A i \in 1..n : ps[i].op = 5 /\ ps[i].body = Json(cmds[i]) /\ ps[i].sane = TRUE
    <3> SUFFICES ASSUME NEW i \in 1..n
                 PROVE  ps[i].op = 5 /\ ps[i].body = Json(cmds[i]) /\ ps[i].sane = TRUE
      OBVIOUS
    <3>1. ps[i] = Packet(5, 0, Json(cmds[i]))
      OBVIOUS
    <3> HIDE DEF ps
    <3> QED BY <3>1 DEF Packet
  <2> HIDE DEF ps
  <2> QED BY <2>1, <2>2
<1>2. Notifications(n, cmds).form = "packets" /\ Notifications(n, cmds).packets = ps
  BY DEF Notifications, Packets
<1> HIDE DEF ps
<1>3. DecodePackets(Notifications(n, cmds)) = ps
  <2>1. {i \in 1..Len(Notifications(n, cmds).packets) : ~Notifications(n, cmds).packets[i].sane} = {}
    BY <1>1, <1>2
  <2> QED BY <1>2, <2>1, Zenon DEF DecodePackets
<1>4. ParseRaw(Notifications(n, cmds)) = FlattenSeq(items)
  <2>1. [i \in 1..Len(ps) |-> IF ps[i].op = 5 THEN NotificationItems(ps[i].body) ELSE <<>>] = items
    BY <1>1
  <2> QED BY <1>3, <2>1, Zenon DEF ParseRaw
<1>5. \A i \in 1..n : cmds[i] \in Commands /\ items[i] = NotificationItems(Json(cmds[i])) /\ items[i] \in Seq(Items)
  BY ItemsOfNotification
<1>6. /\ <<>> \in Seq(Seq(Items)) /\ FlattenSeq(<<>>) = <<>>
      /\ \A s \in Seq(Items) : <<>> \o s = s
  <2>1. FlattenSeq(<<>>) = <<>>
    BY EmptySeq, Zenon DEF FlattenSeq
  <2> QED BY <2>1, ConcatEmptySeq
<1>7. CASE n = 1
  <2>1. items = Append(<<>>, items[1]) /\ items[1] \in Seq(Items)
    BY <1>5, <1>7
  <2>2. ParseRaw(Notifications(n, cmds)) = items[1]
    <3> HIDE DEF items
    <3>1. FlattenSeq(Append(<<>>, items[1])) = FlattenSeq(<<>>) \o items[1]
      BY <1>6, <2>1, FlattenAppend
    <3> QED BY <1>4, <1>6, <2>1, <3>1
  <2>3. ASSUME NEW before \in Seq(Commands)
        PROVE  before \o cmds = Append(before, cmds[1])
    <3>1. cmds \in Seq(Commands) /\ Len(cmds) = 1 /\ cmds[1] \in Commands
      BY <1>0, <1>7
    <3>2. /\ before \o cmds \in Seq(Commands) /\ Len(before \o cmds) = Len(before) + 1 /\ Len(before) \in Nat
          /\ \A i \in 1..(Len(before) + 1) : (before \o cmds)[i] =
               IF i <= Len(before) THEN before[i] ELSE cmds[i - Len(before)]
      <4>1. /\ before \o cmds \in Seq(Commands) /\ Len(before \o cmds) = Len(before) + Len(cmds)
            /\ \A i \in 1..(Len(before) + Len(cmds)) : (before \o cmds)[i] =
                 IF i <= Len(before) THEN before[i] ELSE cmds[i - Len(before)]
        BY <3>1, ConcatProperties
      <4>2. Len(before) \in Nat
        OBVIOUS
      <4> QED BY <3>1, <4>1, <4>2
    <3>3. \A i \in 1..(Len(before) + 1) : (before \o cmds)[i] = Append(before, cmds[1])[i]
      BY <3>1, <3>2
    <3>4. Append(before, cmds[1]) \in Seq(Commands) /\ Len(Append(before, cmds[1])) = Len(before) + 1
      BY <3>1
    <3> QED BY <3>2, <3>3, <3>4, SeqEqual
  <2>4. cmds[1] \in Commands /\ items[1] = NotificationItems(Json(cmds[1]))
    BY <1>5, <1>7
  <2> HIDE DEF items
  <2> QED BY <2>1, <2>2, <2>3, <2>4, AppendArrival
<1>8. CASE n = 2
  <2>1. items = Append(<<items[1]>>, items[2]) /\ <<items[1]>> = Append(<<>>, items[1])
        /\ items[1] \in Seq(Items) /\ items[2] \in Seq(Items) /\ <<items[1]>> \in Seq(Seq(Items))
    BY <1>5, <1>8
  <2>2. ParseRaw(Notifications(n, cmds)) = items[1] \o items[2]
    <3> HIDE DEF items
    <3>1. FlattenSeq(Append(<<>>, items[1])) = FlattenSeq(<<>>) \o items[1]
      BY <1>6, <2>1, FlattenAppend
    <3>2. FlattenSeq(Append(<<items[1]>>, items[2])) = FlattenSeq(<<items[1]>>) \o items[2]
      BY <2>1, FlattenAppend
    <3> QED BY <1>4, <1>6, <2>1, <3>1, <3>2
  <2>3. ASSUME NEW before \in Seq(Commands)
        PROVE  before \o cmds = Append(Append(before, cmds[1]), cmds[2])
    <3> DEFINE both == Append(Append(before, cmds[1]), cmds[2])
    <3>1. cmds \in Seq(Commands) /\ Len(cmds) = 2 /\ cmds[1] \in Commands /\ cmds[2] \in Commands
      BY <1>0, <1>8
    <3>2. /\ before \o cmds \in Seq(Commands) /\ Len(before \o cmds) = Len(before) + 2 /\ Len(before) \in Nat
          /\ \A i \in 1..(Len(before) + 2) : (before \o cmds)[i] =
               IF i <= Len(before) THEN before[i] ELSE cmds[i - Len(before)]
      <4>1. /\ before \o cmds \in Seq(Commands) /\ Len(before \o cmds) = Len(before) + Len(cmds)
            /\ \A i \in 1..(Len(before) + Len(cmds)) : (before \o cmds)[i] =
                 IF i <= Len(before) THEN before[i] ELSE cmds[i - Len(before)]
        BY <3>1, ConcatProperties
      <4>2. Len(before) \in Nat
        OBVIOUS
      <4> QED BY <3>1, <4>1, <4>2
    <3>3. /\ both \in Seq(Commands) /\ Len(both) = Len(before) + 2
          /\ \A i \in 1..Len(before) : both[i] = before[i]
          /\ both[Len(before) + 1] = cmds[1] /\ both[Len(before) + 2] = cmds[2]
      BY <3>1
    <3> HIDE DEF both
    <3>4. \A i \in 1..(Len(before) + 2) : (before \o cmds)[i] = both[i]
      BY <3>1, <3>2, <3>3
    <3>5. before \o cmds = both
      BY <3>2, <3>3, <3>4, SeqEqual
    <3> QED BY <3>5 DEF both
  <2>4. /\ cmds[1] \in Commands /\ items[1] = NotificationItems(Json(cmds[1]))
        /\ cmds[2] \in Commands /\ items[2] = NotificationItems(Json(cmds[2]))
    BY <1>5, <1>8
  <2> HIDE DEF items
  <2>5. ASSUME NEW before \in Seq(Commands)
        PROVE  Arrivals(before \o cmds) = Arrivals(before) \o (items[1] \o items[2])
    <3>1. Arrivals(before) \in Seq(Items) /\ Arrivals(Append(before, cmds[1])) = Arrivals(before) \o items[1]
      BY <2>4, AppendArrival
    <3>2. Append(before, cmds[1]) \in Seq(Commands)
      BY <2>4
    <3>3. Arrivals(Append(Append(before, cmds[1]), cmds[2])) = Arrivals(Append(before, cmds[1])) \o items[2]
      BY <2>4, <3>2, AppendArrival
    <3>4. (Arrivals(before) \o items[1]) \o items[2] = Arrivals(before) \o (items[1] \o items[2])
      <4>1. ASSUME NEW a \in Seq(Items), NEW b \in Seq(Items), NEW c \in Seq(Items)
            PROVE  (a \o b) \o c = a \o (b \o c)
        BY ConcatAssociative
      <4> QED BY <2>1, <3>1, <4>1, Zenon
    <3> QED BY <2>3, <3>1, <3>3, <3>4
  <2>6. items[1] \o items[2] \in Seq(Items)
    BY <2>1, ConcatProperties
  <2> QED BY <2>2, <2>5, <2>6
<1> QED BY <1>7, <1>8

LEMMA CompressedParsed ==
  ASSUME NEW ver \in {2, 3}, NEW data
  PROVE  Outputs(Packet(5, ver, Compressed(ver, data))) = ParseRaw(data)
<1> DEFINE packet == Packet(5, ver, Compressed(ver, data))
           raw == packet.ver \in {0, 1}
           zlib == packet.ver = 2 /\ packet.body.form = "zlib"
           brotli == packet.ver = 3 /\ packet.body.form = "brotli"
<1>1. packet.op = 5 /\ packet.ver = ver /\ packet.body = Compressed(ver, data)
  <2> DEFINE body == Compressed(ver, data)
  <2> HIDE DEF body
  <2>1. Packet(5, ver, body).op = 5 /\ Packet(5, ver, body).ver = ver /\ Packet(5, ver, body).body = body
    BY DEF Packet
  <2> QED BY <2>1 DEF body
<1>2. /\ Compressed(ver, data).of = data
      /\ ver = 2 => Compressed(ver, data).form = "zlib"
      /\ ver = 3 => Compressed(ver, data).form = "brotli"
  BY DEF Compressed, Zlib, Brotli
<1>3. Outputs(packet) = CASE raw -> ParseRaw(packet.body)
                          [] zlib -> ParseRaw(packet.body.of)
                          [] brotli -> ParseRaw(packet.body.of)
                          [] OTHER -> <<>>
  <2> HIDE DEF packet
  <2> QED BY <1>1, Zenon DEF Outputs, ParseNotification
<1>4. ~raw /\ (zlib \/ brotli)
  <2> HIDE DEF packet
  <2> QED BY <1>1, <1>2
<1>5. packet.body.of = data
  <2> HIDE DEF packet
  <2> QED BY <1>1, <1>2
<1> HIDE DEF packet, raw, zlib, brotli
<1>6. Outputs(packet) = ParseRaw(data)
  BY <1>3, <1>4, <1>5, Zenon
<1> QED BY <1>6 DEF packet

LEMMA OutputsOfPut == ASSUME NEW packet \in Put PROVE Outputs(packet) \in Seq(Items) /\ packet.sane
<1>1. CASE packet \in Replies
  <2>1. PICK op \in {2, 3, 8} : packet = Packet(op, 1, Garbage)
    BY <1>1 DEF Replies
  <2>2. packet.op # 5 /\ packet.sane
    BY <2>1 DEF Packet
  <2>3. Outputs(packet) = <<>>
    BY <2>2, Zenon DEF Outputs
  <2> QED BY <2>2, <2>3, EmptySeq
<1>2. CASE packet \in Raws
  <2>1. PICK cmd \in Commands : packet = Packet(5, 0, Json(cmd))
    BY <1>2 DEF Raws
  <2>2. packet.op = 5 /\ packet.ver = 0 /\ packet.body = Json(cmd) /\ packet.sane
    BY <2>1 DEF Packet
  <2>3. Json(cmd).form # "packets"
    BY DEF Json
  <2> DEFINE raw == packet.ver \in {0, 1}
             zlib == packet.ver = 2 /\ packet.body.form = "zlib"
             brotli == packet.ver = 3 /\ packet.body.form = "brotli"
  <2>4. Outputs(packet) = CASE raw -> ParseRaw(packet.body)
                            [] zlib -> ParseRaw(packet.body.of)
                            [] brotli -> ParseRaw(packet.body.of)
                            [] OTHER -> <<>>
    BY <2>2, Zenon DEF Outputs, ParseNotification
  <2>5. raw /\ ~zlib /\ ~brotli
    BY <2>2
  <2> HIDE DEF raw, zlib, brotli
  <2>6. Outputs(packet) = ParseRaw(Json(cmd))
    BY <2>2, <2>4, <2>5, Zenon
  <2>7. DecodePackets(Json(cmd)) = <<>>
    BY <2>3, Zenon DEF DecodePackets
  <2>8. ParseRaw(Json(cmd)) = <<>>
    <3> DEFINE seqs == [i \in 1..Len(<<>>) |->
                          IF <<>>[i].op = 5 THEN NotificationItems(<<>>[i].body) ELSE <<>>]
    <3>1. ParseRaw(Json(cmd)) = FlattenSeq(seqs)
      BY <2>7, Zenon DEF ParseRaw
    <3>2. seqs = <<>>
      OBVIOUS
    <3> HIDE DEF seqs
    <3>3. FlattenSeq(<<>>) = <<>>
      BY EmptySeq, Zenon DEF FlattenSeq
    <3> QED BY <3>1, <3>2, <3>3
  <2> QED BY <2>2, <2>6, <2>8, EmptySeq
<1>3. CASE packet \in CompressedPackets
  <2>0. PICK ver \in {2, 3}, cmds \in [1..1 -> Commands] \union [1..2 -> Commands] :
          packet = Packet(5, ver, Compressed(ver, Notifications(Len(cmds), cmds)))
    BY <1>3 DEF CompressedPackets
  <2>1. PICK n \in 1..2 : cmds \in [1..n -> Commands] /\ Len(cmds) = n
    <3>1. \A n \in 1..2 : cmds \in [1..n -> Commands] => Len(cmds) = n
      OBVIOUS
    <3> QED BY <2>0, <3>1
  <2>2. packet.sane
    BY <2>0 DEF Packet
  <2>3. Outputs(packet) = ParseRaw(Notifications(n, cmds))
    BY <2>0, <2>1, CompressedParsed
  <2> QED BY <2>1, <2>2, <2>3, NotificationsParsed
<1> QED BY <1>1, <1>2, <1>3 DEF Put

LEMMA AppendOutputs ==
  ASSUME NEW ps \in Seq(Put), NEW packet \in Put
  PROVE  /\ FlattenSeq([i \in 1..Len(ps) |-> Outputs(ps[i])]) \in Seq(Items)
         /\ FlattenSeq([i \in 1..Len(Append(ps, packet)) |-> Outputs(Append(ps, packet)[i])])
              = FlattenSeq([i \in 1..Len(ps) |-> Outputs(ps[i])]) \o Outputs(packet)
<1> DEFINE n == Len(ps)
           seqs == [i \in 1..n |-> Outputs(ps[i])]
           more == [i \in 1..Len(Append(ps, packet)) |-> Outputs(Append(ps, packet)[i])]
<1>1. n \in Nat /\ seqs \in Seq(Seq(Items)) /\ Len(seqs) = n
  BY OutputsOfPut
<1>2. more = Append(seqs, Outputs(packet))
  <2>1. /\ Len(Append(ps, packet)) = n + 1 /\ Append(ps, packet)[n + 1] = packet
        /\ \A i \in 1..n : Append(ps, packet)[i] = ps[i] /\ ps[i] \in Put
    OBVIOUS
  <2>2. more \in Seq(Seq(Items)) /\ Len(more) = n + 1
    BY <1>1, <2>1, OutputsOfPut
  <2>3. Append(seqs, Outputs(packet)) \in Seq(Seq(Items)) /\ Len(Append(seqs, Outputs(packet))) = n + 1
    BY <1>1, OutputsOfPut
  <2>4. ASSUME NEW i \in 1..(n + 1)
        PROVE  more[i] = Append(seqs, Outputs(packet))[i]
    <3>1. CASE i = n + 1
      BY <1>1, <2>1, <3>1
    <3>2. CASE i \in 1..n
      BY <1>1, <2>1, <3>2
    <3> QED BY <1>1, <3>1, <3>2
  <2> HIDE DEF more, seqs
  <2> QED BY <2>2, <2>3, <2>4, SeqEqual
<1> HIDE DEF more, seqs
<1>3. Outputs(packet) \in Seq(Items)
  BY OutputsOfPut
<1>4. FlattenSeq(seqs) \in Seq(Items) /\ FlattenSeq(Append(seqs, Outputs(packet))) = FlattenSeq(seqs) \o Outputs(packet)
  BY <1>1, <1>3, FlattenAppend
<1>5. FlattenSeq(more) = FlattenSeq(seqs) \o Outputs(packet)
  BY <1>2, <1>4
<1> QED BY <1>4, <1>5 DEF more, seqs

(* What is put into a frame of compressed notifications is heard of it.    *)
LEMMA FrameStep == FrameInv /\ Next => FrameInv'
<1> SUFFICES ASSUME FrameInv, Next PROVE FrameInv'
  OBVIOUS
<1>1. frame \in Seq(Put) /\ sent \in Seq(Commands)
  BY DEF FrameInv
<1>2. ASSUME NEW packet \in Put, frame' = Append(frame, packet), NEW more \in Seq(Commands), sent' = sent \o more,
             AllCompressed' => Arrivals(sent \o more) = Arrivals(sent) \o Outputs(packet)
      PROVE  FrameInv'
  <2>1. frame' \in Seq(Put) /\ sent' \in Seq(Commands)
    BY <1>1, <1>2, ConcatProperties
  <2>2. AllCompressed' => AllCompressed
    <3>1. Len(frame') = Len(frame) + 1 /\ Len(frame) \in Nat /\ \A i \in 1..Len(frame) : frame'[i] = frame[i]
      BY <1>1, <1>2
    <3>2. \A i \in 1..Len(frame) : i \in 1..Len(frame')
      BY <3>1
    <3> QED BY <3>1, <3>2 DEF AllCompressed
  <2>3. AllOutputs' = AllOutputs \o Outputs(packet)
    <3>1. AllOutputs' = FlattenSeq([i \in 1..Len(Append(frame, packet)) |-> Outputs(Append(frame, packet)[i])])
      BY <1>2 DEF AllOutputs, Outputs
    <3> QED BY <1>1, <3>1, AppendOutputs DEF AllOutputs
  <2>4. AllCompressed' => AllOutputs' = Arrivals(sent')
    BY <1>2, <2>2, <2>3 DEF FrameInv
  <2>5. Arrivals(sent)' = Arrivals(sent') /\ Put' = Put
    BY DEF Arrivals
  <2> QED BY <2>1, <2>4, <2>5 DEF FrameInv
<1>3. CASE PutReply
  <2>1. PICK op \in {2, 3, 8} : frame' = Append(frame, Packet(op, 1, Garbage)) /\ sent' = sent
    BY <1>3 DEF PutReply
  <2> DEFINE packet == Packet(op, 1, Garbage)
  <2>2. packet \in Put /\ packet.op # 5
    <3>1. packet.op = op
      BY DEF Packet
    <3>2. packet \in Replies
      BY DEF Replies
    <3> QED BY <3>1, <3>2 DEF Put
  <2> HIDE DEF packet
  <2>3. Outputs(packet) = <<>>
    BY <2>2, Zenon DEF Outputs
  <2>4. sent \o <<>> = sent /\ <<>> \in Seq(Commands)
    BY <1>1, ConcatEmptySeq, EmptySeq
  <2>5. Arrivals(sent) \o <<>> = Arrivals(sent)
    <3>1. Arrivals(sent) \in Seq(Items)
      BY <1>1, ArrivalsAreItems
    <3> QED BY <3>1, ConcatEmptySeq
  <2>6. frame' = Append(frame, packet)
    BY <2>1 DEF packet
  <2> QED BY <1>2, <2>1, <2>2, <2>3, <2>4, <2>5, <2>6
<1>4. CASE PutRaw
  <2>1. PICK cmd \in Commands : frame' = Append(frame, Packet(5, 0, Json(cmd))) /\ sent' = Append(sent, cmd)
    BY <1>4 DEF PutRaw
  <2> DEFINE packet == Packet(5, 0, Json(cmd))
  <2>2. packet \in Put /\ packet.op = 5 /\ packet.ver = 0
    BY DEF Put, Raws, Packet
  <2> HIDE DEF packet
  <2>3. frame' = Append(frame, packet)
    BY <2>1 DEF packet
  <2>4. ~AllCompressed'
    <3>1. Len(frame) + 1 \in 1..Len(frame') /\ frame'[Len(frame) + 1] = packet
      BY <1>1, <2>2, <2>3
    <3> QED BY <2>2, <3>1 DEF AllCompressed
  <2>5. sent' = sent \o <<cmd>> /\ <<cmd>> \in Seq(Commands)
    BY <1>1, <2>1, AppendIsConcat
  <2> QED BY <1>2, <2>2, <2>3, <2>4, <2>5
<1>5. CASE PutCompressed
  <2>1. PICK ver \in {2, 3}, n \in 1..2 : \E cmds \in [1..n -> Commands] :
          /\ frame' = Append(frame, Packet(5, ver, Compressed(ver, Notifications(n, cmds))))
          /\ sent' = sent \o cmds
    BY <1>5 DEF PutCompressed, Notifications
  <2>2. PICK cmds \in [1..n -> Commands] :
          /\ frame' = Append(frame, Packet(5, ver, Compressed(ver, Notifications(n, cmds))))
          /\ sent' = sent \o cmds
    BY <2>1
  <2> DEFINE packet == Packet(5, ver, Compressed(ver, Notifications(n, cmds)))
  <2>6. cmds \in Seq(Commands) /\ Len(cmds) = n
    <3>1. n \in Nat
      OBVIOUS
    <3> QED BY <3>1
  <2>3. packet \in Put
    <3>1. Len(cmds) = n
      BY <2>6
    <3>2. cmds \in [1..1 -> Commands] \union [1..2 -> Commands]
      <4>1. n = 1 \/ n = 2
        OBVIOUS
      <4> QED BY <4>1
    <3>3. Packet(5, ver, Compressed(ver, Notifications(Len(cmds), cmds))) \in CompressedPackets
      <4> DEFINE made == Packet(5, ver, Compressed(ver, Notifications(Len(cmds), cmds)))
      <4>1. \E v \in {2, 3}, some \in [1..1 -> Commands] \union [1..2 -> Commands] :
              made = Packet(5, v, Compressed(v, Notifications(Len(some), some)))
        BY <3>2
      <4> HIDE DEF made
      <4>2. made \in CompressedPackets
        BY <4>1 DEF CompressedPackets
      <4> QED BY <4>2 DEF made
    <3> QED BY <3>1, <3>3 DEF Put
  <2>4. Outputs(packet) = ParseRaw(Notifications(n, cmds))
    BY CompressedParsed
  <2>5. frame' = Append(frame, packet)
    BY <2>2
  <2>7. Arrivals(sent \o cmds) = Arrivals(sent) \o Outputs(packet)
    <3> HIDE DEF packet
    <3> QED BY <1>1, <2>4, NotificationsParsed
  <2> HIDE DEF packet
  <2> QED BY <1>2, <2>2, <2>3, <2>5, <2>6, <2>7
<1> QED BY <1>3, <1>4, <1>5 DEF Next

(* However many packets a frame has, of whatever kinds, and whatever       *)
(* commands are sent in it, compressed notifications all become their      *)
(* items, in the order sent (bilibili/danmaku.rs).                         *)
THEOREM NotificationsCompressedArrive == Spec => []CompressedArrive
<1>1. Init => FrameInv
  <2> SUFFICES ASSUME Init PROVE FrameInv
    OBVIOUS
  <2>1. frame = <<>> /\ sent = <<>>
    BY DEF Init
  <2>2. [i \in 1..Len(frame) |-> Outputs(frame[i])] = <<>>
        /\ [i \in 1..Len(sent) |-> NotificationItems(Json(sent[i]))] = <<>>
    BY <2>1
  <2>3. AllOutputs = Arrivals(sent)
    BY <2>2 DEF AllOutputs, Arrivals
  <2> QED BY <2>1, <2>3, EmptySeq DEF FrameInv
<1>2. FrameInv /\ [Next]_vars => FrameInv'
  <2> SUFFICES ASSUME FrameInv, UNCHANGED vars PROVE FrameInv'
    BY FrameStep
  <2>1. frame' = frame /\ sent' = sent
    BY DEF vars
  <2> QED BY <2>1 DEF FrameInv, AllCompressed, AllOutputs, Arrivals, Outputs, Put, Replies, Raws, CompressedPackets
<1>3. FrameInv => CompressedArrive
  <2> SUFFICES ASSUME FrameInv, AllCompressed PROVE NotificationsArrive
    BY DEF CompressedArrive, AllCompressed
  <2>1. DecodePackets(Packets(frame)) = frame
    <3>1. Packets(frame).form = "packets" /\ Packets(frame).packets = frame
      BY DEF Packets
    <3>2. {i \in 1..Len(Packets(frame).packets) : ~Packets(frame).packets[i].sane} = {}
      <4>1. \A i \in 1..Len(frame) : frame[i] \in Put
        BY DEF FrameInv
      <4>2. \A i \in 1..Len(frame) : frame[i].sane
        BY <4>1, OutputsOfPut
      <4> QED BY <3>1, <4>2, Zenon
    <3> QED BY <3>1, <3>2, Zenon DEF DecodePackets
  <2>2. BilibiliOutputs(Packets(frame)) = AllOutputs
    BY <2>1, Zenon DEF BilibiliOutputs, AllOutputs, Outputs
  <2>3. AllOutputs = Arrivals(sent)
    BY DEF FrameInv
  <2> QED BY <2>2, <2>3 DEF NotificationsArrive, Arrivals
<1> QED BY <1>1, <1>2, <1>3, PTL DEF Spec

=============================================================================
