-------------------------- MODULE TwitchHandshake --------------------------
(***************************************************************************)
(* The IRC handshake of run_twitch_irc_task (extractor/platforms/twitch/   *)
(* danmaku.rs) against a server (external) that puts a client into a       *)
(* channel when, and only when, it sends JOIN and has named itself.        *)
(***************************************************************************)
EXTENDS Naturals, Sequences

CONSTANT Channel   (* the lower-cased channel, one word on the wire         *)

VARIABLES
  step,      (* the handshake messages sent so far                         *)
  running,   (* whether the task is still there                            *)
  named,     (* server: the client has a nick                              *)
  joined     (* server: the client is in the channel                       *)

vars == <<step, running, named, joined>>

(* Each text frame is one IRC message: its command, then its parameters.   *)
Greeting == << <<"CAP", "REQ">>, <<"PASS", "SCHMOOPIIE">>, <<"NICK", "justinfan">>, <<Channel>> >>

Init == step = 0 /\ running = TRUE /\ named = FALSE /\ joined = FALSE

(* The next message is sent and the server acts on it.                     *)
SendGreeting ==
  /\ running /\ step < Len(Greeting)
  /\ step' = step + 1
  /\ named' = (named \/ Head(Greeting[step + 1]) = "NICK")
  /\ joined' = (joined \/ (named /\ Head(Greeting[step + 1]) = "JOIN"))
  /\ UNCHANGED running

(* A message cannot be sent: the task returns.                             *)
GreetingFailed ==
  /\ running /\ step < Len(Greeting)
  /\ running' = FALSE
  /\ UNCHANGED <<step, named, joined>>

Next == SendGreeting \/ GreetingFailed

Spec == Init /\ [][Next]_vars

(* "Sends CAP REQ, PASS, NICK, JOIN messages": a client whose handshake is *)
(* through is in the channel it was asked for.                             *)
JoinedAfterHandshake == running /\ step = Len(Greeting) => joined

=============================================================================
