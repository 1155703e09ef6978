----------------------------- MODULE Platforms -----------------------------
(***************************************************************************)
(* The five platforms as values of PlatformProvider's constants: what each *)
(* danmaku.rs does before it streams, which ends it announces and what it  *)
(* makes of a frame.                                                       *)
(***************************************************************************)
EXTENDS BilibiliFrames, HuyaFrames, DouyuFrames, DouyinFrames, TwitchFrames

AllPlatforms == {"bilibili", "huya", "douyu", "douyin", "twitch"}

(* Messages sent before the loop: authentication; join; login and join;    *)
(* none; CAP, PASS, NICK and the channel.                                  *)
GreetingsOf ==
  [bilibili |-> 1, huya |-> 1, douyu |-> 2, douyin |-> 0, twitch |-> 4]

(* All send StreamClosed when the server closes; Douyu also when it cannot *)
(* dial or greet and when the stream breaks.                               *)
AnnouncedOf ==
  [pf \in AllPlatforms |->
     IF pf = "douyu" THEN {"dial_failed", "greeting_failed", "server_close", "stream_error"}
     ELSE {"server_close"}]

OutputsOf(pf, frame) ==
  CASE pf = "bilibili" -> BilibiliOutputs(frame)
    [] pf = "huya" -> HuyaOutputs(frame)
    [] pf = "douyu" -> DouyuOutputs(frame)
    [] pf = "douyin" -> DouyinOutputs(frame)
    [] pf = "twitch" -> TwitchOutputs(frame)

=============================================================================
