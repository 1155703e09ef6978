----------------------------- MODULE HuyaFrames -----------------------------
(***************************************************************************)
(* What a binary frame makes the Huya task do: decode_huya_frame of        *)
(* extractor/platforms/huya/danmaku.rs.  A frame is a Tars envelope that   *)
(* may hold a push message that may hold a chat message; "valid" says how  *)
(* many of these layers decode.                                            *)
(***************************************************************************)
EXTENDS Naturals, Sequences

HuyaFrames == [msgType : {7, 8}, uri : {1400, 8006}, valid : 0..3]

(* An undecodable layer is logged and yields nothing, like every message   *)
(* that is not a chat.                                                     *)
HuyaOutputs(f) ==
  IF f.valid = 3 /\ f.msgType = 7 /\ f.uri = 1400 THEN <<"Message">> ELSE <<>>

=============================================================================
