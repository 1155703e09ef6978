--------------------------- MODULE BilibiliFrames ---------------------------
(***************************************************************************)
(* What a binary frame makes the Bilibili task do: decode_packets and      *)
(* parse_notification_recursive of extractor/platforms/bilibili/danmaku.rs.*)
(*                                                                         *)
(* Data is one of: packets one after the other, each with a 16-byte header *)
(* (operation, protocol version) and a body that is data again; a JSON     *)
(* notification; the zlib or brotli compression of data; or bytes that are *)
(* none of these.                                                          *)
(***************************************************************************)
EXTENDS Naturals, Sequences, SequencesExt, FiniteSetsExt

Packets(ps) == [form |-> "packets", packets |-> ps]
Json(cmd) == [form |-> "json", cmd |-> cmd]
Zlib(data) == [form |-> "zlib", of |-> data]
Brotli(data) == [form |-> "brotli", of |-> data]
Garbage == [form |-> "garbage"]

(* The packets before the first whose lengths do not fit.  The bytes of a  *)
(* JSON text or a compressed stream read as a header never do.             *)
DecodePackets(data) ==
  IF data.form # "packets" THEN <<>>
  ELSE LET bad == {i \in 1..Len(data.packets) : ~data.packets[i].sane}
       IN  IF bad = {} THEN data.packets ELSE SubSeq(data.packets, 1, Min(bad) - 1)

(* parse_notification_json: four commands become items.                    *)
NotificationItems(body) ==
  IF body.form # "json" THEN <<>>
  ELSE CASE body.cmd \in {"DANMU_MSG", "SEND_GIFT", "SUPER_CHAT_MESSAGE"} -> <<"Message">>
         [] body.cmd = "ROOM_CHANGE" -> <<"Control">>
         [] OTHER -> <<>>

(* Protocol versions 0 and 1: the data is packets; notifications (op 5)    *)
(* among them have a JSON body whatever their own version says.            *)
ParseRaw(data) ==
  LET ps == DecodePackets(data)
  IN  FlattenSeq([i \in 1..Len(ps) |->
        IF ps[i].op = 5 THEN NotificationItems(ps[i].body) ELSE <<>>])

(* Mutant: the decompressed bytes are taken for one notification.          *)
ParseFirstOnly(data, ver) ==
  CASE ver \in {0, 1} -> ParseRaw(data)
    [] ver = 2 /\ data.form = "zlib" -> ParseRaw(Packets(SubSeq(DecodePackets(data.of), 1, 1)))
    [] ver = 3 /\ data.form = "brotli" -> ParseRaw(Packets(SubSeq(DecodePackets(data.of), 1, 1)))
    [] OTHER -> <<>>

(* parse_notification_recursive: decompress once, then as raw packets.     *)
ParseNotification(data, ver) ==
  CASE ver \in {0, 1} -> ParseRaw(data)
    [] ver = 2 /\ data.form = "zlib" -> ParseRaw(data.of)
    [] ver = 3 /\ data.form = "brotli" -> ParseRaw(data.of)
    [] OTHER -> <<>>

(* The task's loop over the packets of a frame; heartbeat (op 3) and       *)
(* authentication (op 8) replies are only logged.                          *)
BilibiliOutputs(frame) ==
  LET ps == DecodePackets(frame)
  IN  FlattenSeq([i \in 1..Len(ps) |->
        IF ps[i].op = 5 THEN ParseNotification(ps[i].body, ps[i].ver) ELSE <<>>])

=============================================================================
