---------------------------- MODULE PlatformFeed ----------------------------
(***************************************************************************)
(* The platform providers implement DanmakuFeed: their source is the items *)
(* of the script, without the replies among them.                          *)
(***************************************************************************)
EXTENDS PlatformProvider

FeedPhase(c) ==
  CASE task[c] = "none" -> "none"
    [] task[c] # "none" /\ c \notin Live -> "gone"
    [] c \in Connections -> "open"
    [] \E p \in holders[c] \ {"map"} : pc[p] = "connecting" -> "connecting"
    [] OTHER -> "stopping"

(* The positions of a script that are items, in order.                     *)
ItemsOf(scr) ==
  LET upto[n \in 0..Len(scr)] ==
        IF n = 0 THEN <<>>
        ELSE IF scr[n] = Reply THEN upto[n - 1] ELSE Append(upto[n - 1], n)
  IN  upto[Len(scr)]

Feed == INSTANCE DanmakuFeed WITH
  phase <- [c \in Conns |-> FeedPhase(c)],
  source <- [c \in Conns |-> ItemsOf(script[c])]

(* What the consumer sees of a platform's provider, whatever its protocol  *)
(* nests in a frame or asks to be answered, is a feed.                     *)
ImplementsFeed == Feed!Spec

=============================================================================
