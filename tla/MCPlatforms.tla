----------------------------- MODULE MCPlatforms -----------------------------
(* TLC instance of PlatformProvider: the five platforms and the frames they *)
(* are sent, with replies among the items, several items to a frame, cut    *)
(* and damaged packets, and messages that yield nothing.                    *)
EXTENDS PlatformFeed, Platforms, TLC

MCPacket(op, ver, body) == [op |-> op, ver |-> ver, body |-> body, sane |-> TRUE]
Cut(packet) == [packet EXCEPT !.sane = FALSE]
Chat == MCPacket(5, 0, Json("DANMU_MSG"))
Batch == MCPacket(5, 3, Brotli(Packets(<<Chat, MCPacket(5, 0, Json("ROOM_CHANGE"))>>)))
Damaged == MCPacket(5, 2, Garbage)

BilibiliFrameSet ==
  { Packets(<<MCPacket(8, 1, Garbage)>>),
    Packets(<<Batch>>),
    Packets(<<Damaged, MCPacket(5, 2, Zlib(Packets(<<Chat, Cut(Chat)>>)))>>),
    Garbage }

DouyuPacket(type, text) == [type |-> type, text |-> text, complete |-> TRUE]
DouyuChat == DouyuPacket("chatmsg", "hi")

DouyuFrameSet ==
  { <<DouyuPacket("loginres", "")>>,
    <<DouyuChat, DouyuPacket("comm_chatmsg", "")>>,
    <<DouyuPacket("chatmsg", ""), DouyuChat, [DouyuChat EXCEPT !.complete = FALSE]>> }

DouyinMessage(method, action) == [method |-> method, action |-> action, valid |-> TRUE]
DouyinChat == DouyinMessage("WebcastChatMessage", 0)
DouyinFrame(needAck, messages) ==
  [payload |-> "response", needAck |-> needAck, messages |-> messages]

DouyinFrameSet ==
  { DouyinFrame(TRUE, <<DouyinChat, DouyinMessage("WebcastGiftMessage", 0), DouyinChat>>),
    DouyinFrame(FALSE, <<DouyinMessage("WebcastControlMessage", 3), DouyinChat>>),
    DouyinFrame(TRUE, <<DouyinMessage("WebcastControlMessage", 1)>>),
    [payload |-> "empty"] }

Line(command) == [command |-> command, msgId |-> "", newChatter |-> FALSE]

TwitchFrameSet ==
  { <<Line("PRIVMSG"), Line("PING"), Line("PRIVMSG")>>,
    <<Line("PING")>>,
    <<Line("ROOMSTATE"), [Line("USERNOTICE") EXCEPT !.msgId = "raid"]>>,
    <<[Line("USERNOTICE") EXCEPT !.msgId = "ritual"], Line("RECONNECT")>> }

MCFrames ==
  [bilibili |-> BilibiliFrameSet, huya |-> HuyaFrames, douyu |-> DouyuFrameSet,
   douyin |-> DouyinFrameSet, twitch |-> TwitchFrameSet]

Symmetry == Permutations(Callers)

=============================================================================
