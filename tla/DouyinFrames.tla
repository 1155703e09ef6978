---------------------------- MODULE DouyinFrames ----------------------------
(***************************************************************************)
(* What a binary frame makes the Douyin task do: decode_douyin_frame and   *)
(* decode_im_message of extractor/platforms/douyin/danmaku.rs.  A frame is *)
(* a PushFrame whose payload is empty, undecodable, or a Response with     *)
(* messages and perhaps a demand to be acknowledged.                       *)
(***************************************************************************)
EXTENDS Naturals, Sequences, SequencesExt

(* Of the seven message kinds only chats with a user and the control       *)
(* message with action 3 become items; the others are decoded and dropped. *)
DouyinItems(msg) ==
  CASE msg.method = "WebcastChatMessage" /\ msg.valid -> <<"Message">>
    [] msg.method = "WebcastControlMessage" /\ msg.valid /\ msg.action = 3 -> <<"LiveEnded">>
    [] OTHER -> <<>>

(* The acknowledgement goes first, then the items of every message.        *)
DouyinOutputs(f) ==
  IF f.payload # "response" THEN <<>>
  ELSE (IF f.needAck THEN <<"reply">> ELSE <<>>)
         \o FlattenSeq([i \in 1..Len(f.messages) |-> DouyinItems(f.messages[i])])

=============================================================================
