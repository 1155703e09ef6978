---------------------------- MODULE TwitchFrames ----------------------------
(***************************************************************************)
(* What a text frame makes the Twitch task do: process_irc_line of         *)
(* extractor/platforms/twitch/danmaku.rs for each line of the frame.  A    *)
(* line is its command, the tags the code looks at and whether it has a    *)
(* trailing parameter.                                                     *)
(***************************************************************************)
EXTENDS Naturals, Sequences, SequencesExt

(* msg-id of a USERNOTICE that becomes a message.                          *)
Notices == {"sub", "resub", "subgift", "anonsubgift", "submysterygift", "raid"}

(* CLEARCHAT and RECONNECT become control events; capability, welcome,     *)
(* names, room and user state, NOTICE, CLEARMSG and PONG are ignored.      *)
LineOutputs(line) ==
  CASE line.command = "PING" -> <<"reply">>
    [] line.command \in {"RECONNECT", "CLEARCHAT"} -> <<"Control">>
    [] line.command = "USERNOTICE" ->
         IF line.msgId \in Notices \/ (line.msgId = "ritual" /\ line.newChatter)
         THEN <<"Message">> ELSE <<>>
    [] line.command = "PRIVMSG" -> <<"Message">>
    [] OTHER -> <<>>

TwitchOutputs(frame) ==
  FlattenSeq([i \in 1..Len(frame) |-> LineOutputs(frame[i])])

=============================================================================
