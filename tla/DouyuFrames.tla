---------------------------- MODULE DouyuFrames ----------------------------
(***************************************************************************)
(* What a binary frame makes the Douyu task do: stt::parse_packets and     *)
(* dispatch_stt_message of extractor/platforms/douyu.  A frame is a        *)
(* sequence of packets; a packet is complete or cut short by the end of    *)
(* the frame, and its payload is a map with a "type".                      *)
(***************************************************************************)
EXTENDS Naturals, Sequences, SequencesExt, FiniteSetsExt

(* Only these types are dispatched to items; gifts, entries, room status,  *)
(* login and keep-alive answers are ignored, as is a payload without type. *)
DouyuItems(packet) ==
  CASE packet.type = "chatmsg" /\ packet.text # "" -> <<"Message">>
    [] packet.type \in {"comm_chatmsg", "voice_trlt"} -> <<"SuperChat">>
    [] OTHER -> <<>>

(* Packets up to the first one that is cut short.                          *)
ParsePackets(frame) ==
  LET cut == {i \in 1..Len(frame) : ~frame[i].complete}
  IN  IF cut = {} THEN frame ELSE SubSeq(frame, 1, Min(cut) - 1)

DouyuOutputs(frame) ==
  LET packets == ParsePackets(frame)
  IN  FlattenSeq([i \in 1..Len(packets) |-> DouyuItems(packets[i])])

=============================================================================
