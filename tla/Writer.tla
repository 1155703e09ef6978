------------------------------- MODULE Writer -------------------------------
(***************************************************************************)
(* XmlDanmakuWriter (danmaku/writer.rs) on a file of the tokio runtime     *)
(* (external), which takes a write into its buffer at once and carries it  *)
(* out in the background: what became of it shows at the next write or     *)
(* flush.  A row stands for its element; of its fields the row's number    *)
(* and the element it becomes are kept.                                    *)
(***************************************************************************)
EXTENDS Integers, Sequences, FiniteSets

CONSTANTS
  MessageTypes,  (* DanmakuType                                            *)
  Comments,      (* header_comments, a sequence                            *)
  FlushEvery,    (* 100 in the code                                        *)
  NoWrite, NoCall,
  MaxRows, MaxFailures, MaxCancelled   (* bounds                           *)

Element(name, number) == [name |-> name, number |-> number]

Names == {"xml", "comment", "open", "gift", "sc", "top", "bottom", "scroll", "end", "torn"}

Elements == [name : Names, number : Nat]

Writes == [element : Elements, state : {"running", "failed"}]

Calls == [name : {"new", "write", "finalize"}, writes : Seq(Elements), flush : BOOLEAN]

ASSUME WriterAssumption ==
  /\ FlushEvery \in Nat \ {0}
  /\ MessageTypes \subseteq {"Chat", "Gift", "SuperChat", "System", "UserJoin", "Follow", "Subscription", "Other"}
  /\ Comments \in Seq(STRING)
  /\ NoWrite \notin Writes /\ NoCall \notin Calls

VARIABLES
  disk,     (* the elements that reached the file                          *)
  inflight, (* the write the runtime carries out                           *)
  file,     (* the writer's file: "absent" before, "open", "none" after    *)
  rows,     (* message_count                                               *)
  call,     (* the caller's call: what it has left to write, and do        *)
  faults    (* history: writes that failed, calls that reported a failure, *)
            (* calls that were dropped                                     *)

writerVars == <<disk, inflight, file, rows, call, faults>>

Header == <<Element("xml", 0)>> \o [i \in DOMAIN Comments |-> Element("comment", i)]
            \o <<Element("open", 0)>>

End == Element("end", 0)

WriterInit ==
  /\ disk = <<>> /\ inflight = NoWrite /\ file = "absent" /\ rows = 0 /\ call = NoCall
  /\ faults = [failed |-> 0, reported |-> 0, dropped |-> 0]

(* message_type_to_bilibili_type: at the top (5), at the bottom (4), or    *)
(* scrolling (1).                                                          *)
BilibiliType(type) ==
  CASE type \in {"SuperChat", "Subscription"} -> "top"
    [] type = "System" -> "bottom"
    [] OTHER -> "scroll"

(* Gifts and super chats have elements of their own, without a row id; the *)
(* others are told apart by their type.                                    *)
ElementOf(type) ==
  CASE type = "Gift" -> "gift"
    [] type = "SuperChat" -> "sc"
    [] OTHER -> BilibiliType(type)

Calling(name, writes, flush) == [name |-> name, writes |-> writes, flush |-> flush]

(* File::create may fail; then there is no writer.                         *)
NewWriter ==
  /\ file = "absent" /\ call = NoCall
  /\ file' = "open"
  /\ call' = Calling("new", Header, FALSE)
  /\ UNCHANGED <<disk, inflight, rows, faults>>

(* On a writer that was finalized, nothing is done.                        *)
WriteMessage(type) ==
  /\ file = "open" /\ call = NoCall /\ rows < MaxRows
  /\ call' = Calling("write", <<Element(ElementOf(type), rows + 1)>>, (rows + 1) % FlushEvery = 0)
  /\ UNCHANGED <<disk, inflight, file, rows, faults>>

(* Mutant: the file is dropped without waiting for the last write.         *)
FinalizeUnsynced ==
  /\ file = "open" /\ call = NoCall
  /\ call' = Calling("finalize", <<End>>, FALSE)
  /\ UNCHANGED <<disk, inflight, file, rows, faults>>

FinalizeFile ==
  /\ file = "open" /\ call = NoCall
  /\ call' = Calling("finalize", <<End>>, TRUE)
  /\ UNCHANGED <<disk, inflight, file, rows, faults>>

-----------------------------------------------------------------------------
(* A write reaches the file, or fails, having left nothing or a part.      *)
Land ==
  /\ inflight # NoWrite /\ inflight.state = "running"
  /\ inflight' = NoWrite
  /\ disk' = Append(disk, inflight.element)
  /\ UNCHANGED <<file, rows, call, faults>>

Fail ==
  /\ inflight # NoWrite /\ inflight.state = "running" /\ faults.failed < MaxFailures
  /\ inflight' = [inflight EXCEPT !.state = "failed"]
  /\ disk' \in {disk, Append(disk, Element("torn", 0))}
  /\ faults' = [faults EXCEPT !.failed = @ + 1]
  /\ UNCHANGED <<file, rows, call>>

(* The call returns: `?` hands the failure on, and a constructor that       *)
(* fails drops its file; finalize lets go of the file only here.           *)
Finished(outcome) ==
  /\ call' = NoCall
  /\ file' = IF (call.name = "finalize" /\ outcome = "ok") \/ (call.name = "new" /\ outcome = "error")
             THEN "none" ELSE file
  /\ faults' = [faults EXCEPT !.reported = @ + IF outcome = "error" THEN 1 ELSE 0]

(* The call finds out that the write before failed.                        *)
HearOfFailure ==
  /\ call # NoCall /\ inflight # NoWrite /\ inflight.state = "failed"
  /\ inflight' = NoWrite
  /\ Finished("error")
  /\ UNCHANGED <<disk, rows>>

(* The next write of the call, which counts its row.                       *)
PutNext ==
  /\ call # NoCall /\ inflight = NoWrite /\ call.writes # <<>>
  /\ inflight' = [element |-> Head(call.writes), state |-> "running"]
  /\ rows' = rows + IF call.name = "write" THEN 1 ELSE 0
  /\ IF Len(call.writes) = 1 /\ ~call.flush THEN Finished("ok")
     ELSE /\ call' = [call EXCEPT !.writes = Tail(@)]
          /\ UNCHANGED <<file, faults>>
  /\ UNCHANGED disk

Flushed ==
  /\ call # NoCall /\ inflight = NoWrite /\ call.writes = <<>>
  /\ Finished("ok")
  /\ UNCHANGED <<disk, inflight, rows>>

(* The caller drops the future of a call; what was begun goes on.          *)
DropCall ==
  /\ call # NoCall /\ faults.dropped < MaxCancelled
  /\ call' = NoCall
  /\ file' = IF call.name = "new" THEN "none" ELSE file
  /\ faults' = [faults EXCEPT !.dropped = @ + 1]
  /\ UNCHANGED <<disk, inflight, rows>>

WriterNext ==
  \/ NewWriter \/ FinalizeFile \/ \E type \in MessageTypes : WriteMessage(type)
  \/ Land \/ Fail \/ HearOfFailure \/ PutNext \/ Flushed \/ DropCall

WriterSpec == WriterInit /\ [][WriterNext]_writerVars

-----------------------------------------------------------------------------
IsRow(element) == element.name \notin {"xml", "comment", "open", "end", "torn"}

RowsOf(elements) == {i \in DOMAIN elements : IsRow(elements[i])}

(* A row once counted is in the file or its loss has been or will be       *)
(* reported, and no row appears twice or out of turn, through failed       *)
(* writes, failed and repeated finalizes and dropped calls; unless a call  *)
(* was dropped nothing follows the closing tag, and when nothing failed a   *)
(* finalized file is the header, every row and the closing tag             *)
(* (writer.rs:124-215).                                                    *)
RecordWellFormed ==
  LET lost == rows - Cardinality(RowsOf(disk)) - IF inflight # NoWrite /\ inflight.state = "running"
                                                   /\ IsRow(inflight.element) THEN 1 ELSE 0
      unheard == IF inflight # NoWrite /\ inflight.state = "failed" /\ file = "open" THEN 1 ELSE 0
      before == Len(Header)
  IN  /\ lost <= faults.reported + unheard
      /\ \A i, j \in RowsOf(disk) : i < j => disk[i].number < disk[j].number
      /\ faults.dropped = 0 => \A i \in DOMAIN disk : disk[i] = End => i = Len(disk)
      /\ (file = "none" /\ faults.dropped = 0 /\ faults.reported = 0) =>
           /\ Len(disk) = before + rows + 1 /\ SubSeq(disk, 1, before) = Header
           /\ RowsOf(disk) = (before + 1)..(before + rows)
           /\ disk[before + rows + 1] = End

=============================================================================
