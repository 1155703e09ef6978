---------------------------- MODULE DanmakuFeed ----------------------------
(***************************************************************************)
(* What a DanmakuProvider (crates/platforms-parser/src/danmaku/provider.rs)*)
(* promises of every connection, whatever the platform: its source emits   *)
(* items, receive hands the consumer the next one each time, once and in   *)
(* order, and the connection closes under the consumer only when there is  *)
(* nothing left to hand over.                                              *)
(***************************************************************************)
EXTENDS Naturals, Sequences, SequencesExt

CONSTANT Conns

VARIABLES
  phase,      (* per connection: none, connecting, open, stopping, gone    *)
  source,     (* per connection: what its source has emitted               *)
  delivered   (* per connection: what receive has returned                 *)

vars == <<phase, source, delivered>>

Init ==
  /\ phase = [c \in Conns |-> "none"]
  /\ source = [c \in Conns |-> <<>>]
  /\ delivered = [c \in Conns |-> <<>>]

Move(c, from, to) ==
  /\ phase[c] = from
  /\ phase' = [phase EXCEPT ![c] = to]

(* connect: begin, return the handle, or be dropped half way.              *)
Open(c) == Move(c, "none", "connecting") /\ UNCHANGED <<source, delivered>>
Ready(c) == Move(c, "connecting", "open") /\ UNCHANGED <<source, delivered>>
Abandon(c) == Move(c, "connecting", "gone") /\ UNCHANGED <<source, delivered>>

(* The source goes on, also when nobody listens any more.                  *)
Emit(c) ==
  /\ phase[c] # "none"
  /\ IsPrefix(source[c], source'[c])
  /\ \A d \in Conns \ {c} : source'[d] = source[d]
  /\ UNCHANGED <<phase, delivered>>

(* receive returns the next item; a receive that overlaps a disconnect may *)
(* be what still kept the connection.                                      *)
Deliver(c) ==
  /\ phase[c] \in {"open", "stopping"}
  /\ Len(delivered[c]) < Len(source[c])
  /\ delivered' = [delivered EXCEPT ![c] = Append(@, source[c][Len(@) + 1])]
  /\ UNCHANGED phase \/ Move(c, "stopping", "gone")
  /\ UNCHANGED source

(* disconnect, and the end of the last receive that overlapped it.         *)
Stop(c) == Move(c, "open", "stopping") /\ UNCHANGED <<source, delivered>>
Drop(c) == Move(c, "stopping", "gone") /\ UNCHANGED <<source, delivered>>

(* receive finds the connection closed: everything was handed over.        *)
Finish(c) ==
  /\ delivered[c] = source[c]
  /\ Move(c, "open", "gone")
  /\ UNCHANGED <<source, delivered>>

Next ==
  \E c \in Conns :
    \/ Open(c) \/ Ready(c) \/ Abandon(c)
    \/ Emit(c) \/ Deliver(c)
    \/ Stop(c) \/ Drop(c) \/ Finish(c)

Spec == Init /\ [][Next]_vars

=============================================================================
