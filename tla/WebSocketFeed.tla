--------------------------- MODULE WebSocketFeed ---------------------------
(***************************************************************************)
(* The reconnecting provider implements DanmakuFeed: its source is the     *)
(* numbers of the items decoded, a connection is open while the map has    *)
(* it and gone when its state is dropped.                                  *)
(***************************************************************************)
EXTENDS WebSocketProvider

FeedPhase(c) ==
  CASE task[c] = "none" -> "none"
    [] task[c] # "none" /\ c \notin Live -> "gone"
    [] c \in Connections -> "open"
    [] \E p \in holders[c] \ {"map"} : pc[p] = "connecting" -> "connecting"
    [] OTHER -> "stopping"

Feed == INSTANCE DanmakuFeed WITH
  phase <- [c \in Conns |-> FeedPhase(c)],
  source <- [c \in Conns |-> Upto(produced[c])]

(* What the consumer sees of the reconnecting provider, across its         *)
(* reconnects, channels, permits and locks, is a feed: the next item each  *)
(* time, and no closed connection while items are left.                    *)
ImplementsFeed == Feed!Spec

=============================================================================
