---------------------------- MODULE BilibiliFeed ----------------------------
(***************************************************************************)
(* A Bilibili server (external) that puts notifications and replies into   *)
(* the packets of one frame, in the ways the protocol overview at the head *)
(* of danmaku.rs lists, and what the client makes of the frame.            *)
(***************************************************************************)
EXTENDS BilibiliFrames

CONSTANTS
  Commands,    (* the commands the server sends                            *)
  MaxPackets   (* bound on the packets of a frame                          *)

ASSUME FeedAssumption == MaxPackets \in Nat

VARIABLES
  frame,   (* the packets put into the frame so far                        *)
  sent     (* history: the commands of its notifications, in order         *)

vars == <<frame, sent>>

Packet(op, ver, body) == [op |-> op, ver |-> ver, body |-> body, sane |-> TRUE]

Init == frame = <<>> /\ sent = <<>>

(* Heartbeat and authentication replies, and operations nobody knows.      *)
PutReply ==
  /\ Len(frame) < MaxPackets
  /\ \E op \in {2, 3, 8} : frame' = Append(frame, Packet(op, 1, Garbage))
  /\ UNCHANGED sent

(* One notification as it is.                                              *)
PutRaw ==
  /\ Len(frame) < MaxPackets
  /\ \E cmd \in Commands :
       /\ frame' = Append(frame, Packet(5, 0, Json(cmd)))
       /\ sent' = Append(sent, cmd)

(* One or two notifications, each in a packet of its own, compressed.      *)
Compressed(ver, data) == IF ver = 2 THEN Zlib(data) ELSE Brotli(data)

PutCompressed ==
  /\ Len(frame) < MaxPackets
  /\ \E ver \in {2, 3}, n \in 1..2 :
       \E cmds \in [1..n -> Commands] :
         /\ frame' = Append(frame, Packet(5, ver,
                        Compressed(ver, Packets([i \in 1..n |-> Packet(5, 0, Json(cmds[i]))]))))
         /\ sent' = sent \o cmds

Next == PutReply \/ PutRaw \/ PutCompressed

Spec == Init /\ [][Next]_vars

(* Every notification of the frame becomes its item, in the order sent,     *)
(* whatever stands between them and however they are packed.               *)
NotificationsArrive ==
  BilibiliOutputs(Packets(frame)) =
    FlattenSeq([i \in 1..Len(sent) |-> NotificationItems(Json(sent[i]))])

(* The same for frames whose notifications are all compressed.             *)
CompressedArrive ==
  (\A i \in 1..Len(frame) : frame[i].op = 5 => frame[i].ver # 0) => NotificationsArrive

=============================================================================
