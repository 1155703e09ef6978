-------------------------- MODULE PlatformProvider --------------------------
(***************************************************************************)
(* The provider every platform implements for itself: the danmaku.rs of    *)
(* bilibili, huya, douyu, douyin and twitch.  Their connect, receive and   *)
(* disconnect are the same code, and so is the life of the background task *)
(* (dial once, greet, stream, forward, announce the end).  What differs is *)
(* given per platform: how many greetings are sent, which ends are         *)
(* announced to the consumer, and what a frame makes the task do (Outputs).*)
(* The module Platforms gives the five platforms' values.                  *)
(*                                                                         *)
(* There are no permits and no reconnection here.  An output is an item to *)
(* forward or a reply to send on the socket; items are known by their      *)
(* position in the script, the history of a connection's outputs.          *)
(***************************************************************************)
EXTENDS Naturals, Sequences, FiniteSets

CONSTANTS
  Conns,         (* connection ids                                         *)
  Callers,       (* futures running connect / receive / disconnect         *)
  NoConn,        (* the target of an idle caller                           *)
  MessageCap,    (* MESSAGE_CHANNEL_SIZE                                   *)
  Platforms,     (* the platforms a provider may be for; per platform:     *)
  Greetings,     (* how many messages the handshake sends                  *)
  Announced,     (* the ends a StreamClosed event announces                *)
  Frames,        (* the frames a server may send                           *)
  Outputs(_, _), (* the outputs of a frame: items and replies              *)
  SharedHandle,  (* whether one id may be disconnected while it is being   *)
                 (* received from (see WebSocketProvider)                  *)
  MaxOutputs     (* bound on the outputs per connection                    *)

Reply == "reply"             (* an output that goes to the server          *)
StreamClosed == "StreamClosed" (* the item that announces the end          *)

(* Why a task leaves its code, in the code's order.                        *)
Ends == {"dial_failed", "greeting_failed", "send_failed", "server_close",
         "stream_error", "stream_ended", "shutdown", "receiver_gone", "aborted"}

ASSUME PlatformAssumption ==
  /\ NoConn \notin Conns
  /\ "map" \notin Callers
  /\ MessageCap \in Nat \ {0}
  /\ \A pf \in Platforms :
       /\ Greetings[pf] \in Nat
       /\ Announced[pf] \subseteq {"dial_failed", "greeting_failed", "server_close", "stream_error"}
       /\ \A f \in Frames[pf] : Outputs(pf, f) \in Seq(STRING)
  /\ SharedHandle \in BOOLEAN
  /\ MaxOutputs \in Nat

VARIABLES
  platform,   (* which platform the provider is for; it never changes       *)
  holders,    (* per id: who holds a clone of the state's Arc              *)
  writer,     (* the disconnect that holds the map's write guard, a set    *)
  pc,         (* per caller: where its future is suspended                 *)
  target,     (* per caller: the id it works on                            *)
  shutdown,   (* per id: the shutdown channel, as the task sees it         *)
  aborting,   (* per id: abort_tasks has been called                       *)
  task,       (* per id: where the background task is suspended            *)
  cause,      (* per id: why the task ends, "none" before                  *)
  script,     (* history: every output of the task so far                  *)
  done,       (* per id: how many outputs of the script are carried out    *)
  queue,      (* per id: the item channel                                  *)
  delivered   (* history: what receive has returned                        *)

callerVars == <<holders, writer, pc, target, platform>>
stopVars == <<shutdown, aborting>>
itemVars == <<script, done, queue, delivered>>
vars == <<callerVars, stopVars, task, cause, itemVars>>

Connections == {c \in Conns : "map" \in holders[c]}

Live == {c \in Conns : holders[c] # {}}

Running(c) == task[c] \notin {"none", "ended"}

Init ==
  /\ platform \in Platforms
  /\ holders = [c \in Conns |-> {}]
  /\ writer = {}
  /\ pc = [p \in Callers |-> "idle"]
  /\ target = [p \in Callers |-> NoConn]
  /\ shutdown = [c \in Conns |-> "open"]
  /\ aborting = [c \in Conns |-> FALSE]
  /\ task = [c \in Conns |-> "none"]
  /\ cause = [c \in Conns |-> "none"]
  /\ script = [c \in Conns |-> <<>>]
  /\ done = [c \in Conns |-> 0]
  /\ queue = [c \in Conns |-> <<>>]
  /\ delivered = [c \in Conns |-> <<>>]

-----------------------------------------------------------------------------
(* Callers.                                                                *)

Suspend(p, step, c) ==
  /\ pc' = [pc EXCEPT ![p] = step]
  /\ target' = [target EXCEPT ![p] = c]

Return(p) == Suspend(p, "idle", NoConn)

(* The holders in H give the state up; with the last one go the state, its *)
(* shutdown sender and its receiver, and the task is aborted (Drop).       *)
Release(c, H, signal, q) ==
  LET last == holders[c] \subseteq H
  IN  /\ holders' = [holders EXCEPT ![c] = @ \ H]
      /\ aborting' = [aborting EXCEPT ![c] = @ \/ last]
      /\ shutdown' = [shutdown EXCEPT ![c] =
                        IF signal = "open" /\ last THEN "closed" ELSE signal]
      /\ queue' = [queue EXCEPT ![c] = IF last THEN <<>> ELSE q]

(* connect: what it asks of the platform's API first leaves no trace here  *)
(* when it fails; then it spawns the task and waits for the write lock.    *)
Connect(p, c) ==
  /\ pc[p] = "idle"
  /\ task[c] = "none"
  /\ holders' = [holders EXCEPT ![c] = {p}]
  /\ task' = [task EXCEPT ![c] = "dialing"]
  /\ Suspend(p, "connecting", c)
  /\ UNCHANGED <<writer, stopVars, cause, platform, itemVars>>

ConnectInsert(p) ==
  /\ pc[p] = "connecting"
  /\ writer = {}
  /\ holders' = [holders EXCEPT ![target[p]] = (@ \ {p}) \union {"map"}]
  /\ Return(p)
  /\ UNCHANGED <<writer, stopVars, task, cause, platform, itemVars>>

Receive(p, c) ==
  /\ pc[p] = "idle"
  /\ writer = {}
  /\ c \in Connections
  /\ holders' = [holders EXCEPT ![c] = @ \union {p}]
  /\ Suspend(p, "receiving", c)
  /\ UNCHANGED <<writer, stopVars, task, cause, platform, itemVars>>

ReceiveItem(p) ==
  LET c == target[p]
  IN  /\ pc[p] = "receiving"
      /\ queue[c] # <<>>
      /\ delivered' = [delivered EXCEPT ![c] = Append(@, Head(queue[c]))]
      /\ Release(c, {p}, shutdown[c], Tail(queue[c]))
      /\ Return(p)
      /\ UNCHANGED <<writer, task, cause, platform, script, done>>

(* Mutant: the caller waits on.                                            *)
TimeoutRetries(p) ==
  /\ pc[p] = "receiving"
  /\ UNCHANGED vars

(* The 100 ms timer wins: Ok(None).                                        *)
ReceiveTimeout(p) ==
  LET c == target[p]
  IN  /\ pc[p] = "receiving"
      /\ Release(c, {p}, shutdown[c], queue[c])
      /\ Return(p)
      /\ UNCHANGED <<writer, task, cause, platform, script, done, delivered>>

(* Mutant: the task's end counts, whatever is left in the channel.         *)
ClosedUndrained(p) ==
  /\ pc[p] = "receiving"
  /\ task[target[p]] = "ended"
  /\ Suspend(p, "removing", target[p])
  /\ UNCHANGED <<holders, writer, stopVars, task, cause, platform, itemVars>>

(* Channel closed and empty: wait for the write lock to remove the entry.  *)
ReceiveClosed(p) ==
  /\ pc[p] = "receiving"
  /\ queue[target[p]] = <<>>
  /\ task[target[p]] = "ended"
  /\ Suspend(p, "removing", target[p])
  /\ UNCHANGED <<holders, writer, stopVars, task, cause, platform, itemVars>>

(* Remove the entry, if it is still there: Err("Message channel closed").  *)
ReceiveRemove(p) ==
  LET c == target[p]
  IN  /\ pc[p] = "removing"
      /\ writer = {}
      /\ Release(c, {p, "map"}, shutdown[c], queue[c])
      /\ Return(p)
      /\ UNCHANGED <<writer, task, cause, platform, script, done, delivered>>

BeingReceived(c) ==
  \E p \in Callers : pc[p] \in {"receiving", "removing"} /\ target[p] = c

(* Mutant: the entry is only read.                                         *)
DisconnectKeepsEntry(p, c) ==
  /\ pc[p] = "idle"
  /\ writer = {}
  /\ c \in Connections
  /\ SharedHandle \/ ~BeingReceived(c)
  /\ holders' = [holders EXCEPT ![c] = @ \union {p}]
  /\ writer' = {p}
  /\ Suspend(p, "disconnecting", c)
  /\ UNCHANGED <<stopVars, task, cause, platform, itemVars>>

(* disconnect: remove the entry; the write guard is held while the state's *)
(* mutex is awaited.                                                       *)
Disconnect(p, c) ==
  /\ pc[p] = "idle"
  /\ writer = {}
  /\ c \in Connections
  /\ SharedHandle \/ ~BeingReceived(c)
  /\ holders' = [holders EXCEPT ![c] = (@ \ {"map"}) \union {p}]
  /\ writer' = {p}
  /\ Suspend(p, "disconnecting", c)
  /\ UNCHANGED <<stopVars, task, cause, platform, itemVars>>

(* Mutant: only the signal is sent; the task is left to find it.           *)
ShutdownWithoutAbort(p) ==
  LET c == target[p]
      last == holders[c] \subseteq {p}
  IN  /\ pc[p] = "disconnecting"
      /\ writer' = {}
      /\ holders' = [holders EXCEPT ![c] = @ \ {p}]
      /\ shutdown' = [shutdown EXCEPT ![c] = IF @ = "open" THEN "signalled" ELSE @]
      /\ queue' = [queue EXCEPT ![c] = IF last THEN <<>> ELSE @]
      /\ Return(p)
      /\ UNCHANGED <<aborting, task, cause, platform, script, done, delivered>>

(* Signal the task, abort it, drop the sender, the guard and this Arc.     *)
DisconnectShutdown(p) ==
  LET c == target[p]
      last == holders[c] \subseteq {p}
  IN  /\ pc[p] = "disconnecting"
      /\ writer' = {}
      /\ holders' = [holders EXCEPT ![c] = @ \ {p}]
      /\ aborting' = [aborting EXCEPT ![c] = TRUE]
      /\ shutdown' = [shutdown EXCEPT ![c] = IF @ = "open" THEN "signalled" ELSE @]
      /\ queue' = [queue EXCEPT ![c] = IF last THEN <<>> ELSE @]
      /\ Return(p)
      /\ UNCHANGED <<task, cause, platform, script, done, delivered>>

(* A caller's future is dropped where it is suspended.                     *)
Cancel(p) ==
  LET c == target[p]
  IN  /\ pc[p] # "idle"
      /\ writer' = writer \ {p}
      /\ Release(c, {p}, shutdown[c], queue[c])
      /\ Return(p)
      /\ UNCHANGED <<task, cause, platform, script, done, delivered>>

-----------------------------------------------------------------------------
(* The background task of connection c.                                    *)

Goto(c, step) == task' = [task EXCEPT ![c] = step]

Because(c, why) == cause' = [cause EXCEPT ![c] = why]

(* Mutant: nothing is ever announced.                                      *)
FinishSilently(c, why, next) ==
  /\ Because(c, why)
  /\ Goto(c, next)
  /\ UNCHANGED script

(* The end is announced when the platform announces it: StreamClosed is    *)
(* then the last output.  Otherwise the task goes straight to next.        *)
Finish(c, why, next) ==
  /\ Because(c, why)
  /\ IF why \in Announced[platform]
     THEN /\ script' = [script EXCEPT ![c] = Append(@, StreamClosed)]
          /\ Goto(c, "announcing")
     ELSE Goto(c, next) /\ UNCHANGED script

DialFailed(c) ==
  /\ task[c] = "dialing"
  /\ Finish(c, "dial_failed", "ended")
  /\ UNCHANGED <<callerVars, stopVars, done, queue, delivered>>

DialAccepted(c) ==
  /\ task[c] = "dialing"
  /\ Goto(c, IF Greetings[platform] = 0 THEN "stream" ELSE "greeting")
  /\ UNCHANGED <<callerVars, stopVars, cause, itemVars>>

GreetingFailed(c) ==
  /\ task[c] = "greeting"
  /\ Finish(c, "greeting_failed", "ended")
  /\ UNCHANGED <<callerVars, stopVars, done, queue, delivered>>

GreetingDone(c) ==
  /\ task[c] = "greeting"
  /\ Goto(c, "stream")
  /\ UNCHANGED <<callerVars, stopVars, cause, itemVars>>

(* A frame arrives and is decoded.                                         *)
Frame(c, f) ==
  /\ task[c] = "stream"
  /\ Len(script[c]) + Len(Outputs(platform, f)) <= MaxOutputs
  /\ script' = [script EXCEPT ![c] = @ \o Outputs(platform, f)]
  /\ Goto(c, "forwarding")
  /\ UNCHANGED <<callerVars, stopVars, cause, done, queue, delivered>>

NextOutput(c) == script[c][done[c] + 1]

OutputsLeft(c) == done[c] < Len(script[c])

(* Mutant: a reply that cannot be sent gives up the rest of the frame.     *)
ReplyFailureDropsFrame(c) ==
  /\ task[c] = "forwarding"
  /\ OutputsLeft(c) /\ NextOutput(c) = Reply
  /\ done' = [done EXCEPT ![c] = Len(script[c])]
  /\ UNCHANGED <<callerVars, stopVars, task, cause, script, queue, delivered>>

(* A reply is sent, or cannot be, which is only logged.                    *)
SendReply(c) ==
  /\ task[c] = "forwarding"
  /\ OutputsLeft(c) /\ NextOutput(c) = Reply
  /\ done' = [done EXCEPT ![c] = @ + 1]
  /\ UNCHANGED <<callerVars, stopVars, task, cause, script, queue, delivered>>

(* Mutant: try_send, which drops the item when the channel is full.        *)
ForwardDropsWhenFull(c) ==
  /\ task[c] \in {"forwarding", "announcing"}
  /\ c \in Live
  /\ OutputsLeft(c) /\ NextOutput(c) # Reply
  /\ queue' = IF Len(queue[c]) < MessageCap
              THEN [queue EXCEPT ![c] = Append(@, done[c] + 1)]
              ELSE queue
  /\ done' = [done EXCEPT ![c] = @ + 1]
  /\ UNCHANGED <<callerVars, stopVars, task, cause, script, delivered>>

(* message_tx.send: waits while the channel is full.                       *)
Forward(c) ==
  /\ task[c] \in {"forwarding", "announcing"}
  /\ c \in Live
  /\ OutputsLeft(c) /\ NextOutput(c) # Reply
  /\ Len(queue[c]) < MessageCap
  /\ queue' = [queue EXCEPT ![c] = Append(@, done[c] + 1)]
  /\ done' = [done EXCEPT ![c] = @ + 1]
  /\ UNCHANGED <<callerVars, stopVars, task, cause, script, delivered>>

(* The consumer is gone: the task returns without closing the socket.      *)
ReceiverGone(c) ==
  /\ task[c] = "forwarding"
  /\ c \notin Live
  /\ OutputsLeft(c) /\ NextOutput(c) # Reply
  /\ Because(c, "receiver_gone")
  /\ Goto(c, "ended")
  /\ UNCHANGED <<callerVars, stopVars, itemVars>>

ForwardDone(c) ==
  /\ task[c] = "forwarding"
  /\ ~OutputsLeft(c)
  /\ Goto(c, "stream")
  /\ UNCHANGED <<callerVars, stopVars, cause, itemVars>>

(* The announcement is in the channel, or nobody is left to hear it.       *)
AnnounceDone(c) ==
  /\ task[c] = "announcing"
  /\ ~OutputsLeft(c) \/ c \notin Live
  /\ Goto(c, IF cause[c] \in {"dial_failed", "greeting_failed"} THEN "ended" ELSE "closing")
  /\ UNCHANGED <<callerVars, stopVars, cause, itemVars>>

(* A heartbeat cannot be sent, or the stream closes, breaks or ends.       *)
StreamLost(c, why) ==
  /\ task[c] = "stream"
  /\ why \in {"send_failed", "server_close", "stream_error", "stream_ended"}
  /\ Finish(c, why, "closing")
  /\ UNCHANGED <<callerVars, stopVars, done, queue, delivered>>

(* The shutdown channel has a message or no sender any more.               *)
StreamShutdown(c) ==
  /\ task[c] = "stream"
  /\ shutdown[c] # "open"
  /\ shutdown' = [shutdown EXCEPT ![c] = "closed"]
  /\ Because(c, "shutdown")
  /\ Goto(c, "closing")
  /\ UNCHANGED <<callerVars, aborting, itemVars>>

(* The farewell, if any, and the close frame are sent.                     *)
SocketClosed(c) ==
  /\ task[c] = "closing"
  /\ Goto(c, "ended")
  /\ UNCHANGED <<callerVars, stopVars, cause, itemVars>>

(* Mutant: an abort is only looked at between frames.                      *)
AbortedBetweenFrames(c) ==
  /\ aborting[c]
  /\ task[c] = "stream"
  /\ Because(c, "aborted")
  /\ Goto(c, "ended")
  /\ UNCHANGED <<callerVars, stopVars, itemVars>>

(* tokio drops an aborted task when its current poll yields.               *)
Aborted(c) ==
  /\ aborting[c]
  /\ Running(c)
  /\ Because(c, "aborted")
  /\ Goto(c, "ended")
  /\ UNCHANGED <<callerVars, stopVars, itemVars>>

-----------------------------------------------------------------------------
CallerStep(p) ==
  \/ \E c \in Conns : Connect(p, c) \/ Receive(p, c) \/ Disconnect(p, c)
  \/ ConnectInsert(p)
  \/ ReceiveItem(p)
  \/ ReceiveTimeout(p)
  \/ ReceiveClosed(p)
  \/ ReceiveRemove(p)
  \/ DisconnectShutdown(p)
  \/ Cancel(p)

TaskStep(c) ==
  \/ DialFailed(c)
  \/ DialAccepted(c)
  \/ GreetingFailed(c)
  \/ GreetingDone(c)
  \/ \E f \in Frames[platform] : Frame(c, f)
  \/ SendReply(c)
  \/ Forward(c)
  \/ ReceiverGone(c)
  \/ ForwardDone(c)
  \/ AnnounceDone(c)
  \/ \E why \in Ends : StreamLost(c, why)
  \/ StreamShutdown(c)
  \/ SocketClosed(c)
  \/ Aborted(c)

Next ==
  \/ \E p \in Callers : CallerStep(p)
  \/ \E c \in Conns : TaskStep(c)

Spec == Init /\ [][Next]_vars

(* As in WebSocketProvider: the runtime polls woken futures and drops       *)
(* aborted ones; callers and the network are free.                         *)
RuntimeFairness ==
  /\ \A p \in Callers :
       /\ WF_vars(ConnectInsert(p))
       /\ WF_vars(ReceiveItem(p) \/ ReceiveTimeout(p) \/ ReceiveClosed(p))
       /\ WF_vars(ReceiveRemove(p))
       /\ WF_vars(DisconnectShutdown(p))
  /\ \A c \in Conns : WF_vars(Aborted(c))

RuntimeSpec == Spec /\ RuntimeFairness

-----------------------------------------------------------------------------
(* What must hold.                                                         *)

TypeOK ==
  /\ platform \in Platforms
  /\ holders \in [Conns -> SUBSET (Callers \union {"map"})]
  /\ writer \in SUBSET Callers
  /\ pc \in [Callers -> {"idle", "connecting", "receiving", "removing", "disconnecting"}]
  /\ target \in [Callers -> Conns \union {NoConn}]
  /\ shutdown \in [Conns -> {"open", "signalled", "closed"}]
  /\ aborting \in [Conns -> BOOLEAN]
  /\ task \in [Conns -> {"none", "dialing", "greeting", "stream", "forwarding",
                         "announcing", "closing", "ended"}]
  /\ cause \in [Conns -> Ends \union {"none"}]
  /\ script \in [Conns -> Seq(STRING \union {StreamClosed})]
  /\ done \in [Conns -> Nat]
  /\ queue \in [Conns -> Seq(Nat)]
  /\ delivered \in [Conns -> Seq(Nat)]

(* Only suspended callers and the map hold a state, and a task whose state  *)
(* nobody holds has been told to abort: neither outlives its connection.   *)
NothingOutlivesItsHandle ==
  \A c \in Conns :
    /\ \A p \in Callers : p \in holders[c] <=> pc[p] # "idle" /\ target[p] = c
    /\ Running(c) /\ c \notin Live => aborting[c]

(* The items of a frame, of consecutive frames and the announcement of the  *)
(* end reach the consumer once each, in script order, with none left out:   *)
(* whatever is replied in between, and however receivers come and go.      *)
Accepted(c) == delivered[c] \o queue[c]

DeliveredInOrder ==
  \A c \in Conns :
    LET got == Accepted(c)
    IN  /\ \A i \in 1..Len(got) : got[i] \in 1..done[c] /\ script[c][got[i]] # Reply
        /\ \A i, j \in 1..Len(got) : i < j => got[i] < got[j]
        /\ c \in Live /\ Running(c) =>
             \A k \in 1..done[c] : script[c][k] # Reply => \E i \in 1..Len(got) : got[i] = k

(* The consumer hears of an announced end before, not after, the channel    *)
(* closes: when receive is about to report "Message channel closed" on a    *)
(* task that was not aborted, every item was delivered and the last was    *)
(* the announcement.                                                       *)
EndAnnouncedBeforeClosed ==
  \A p \in Callers :
    LET c == target[p]
        n == Len(delivered[c])
    IN  pc[p] = "removing" /\ ~aborting[c] =>
          /\ \A k \in 1..Len(script[c]) :
               script[c][k] # Reply => \E i \in 1..n : delivered[c][i] = k
          /\ cause[c] \in Announced[platform] =>
               n > 0 /\ script[c][delivered[c][n]] = StreamClosed

(* Nothing is delivered once a disconnect has shut the connection down      *)
(* (with one handle per connection).                                       *)
DisconnectIsFinal ==
  [][\A c \in Conns : aborting[c] => delivered'[c] = delivered[c]]_vars

(* connect, receive and disconnect return, whatever the network does.       *)
CallersReturn == \A p \in Callers : pc[p] # "idle" ~> pc[p] = "idle"

(* A disconnected or dropped connection's task ends even while it waits for *)
(* the server or for room in the channel.                                  *)
AbortedTasksEnd == \A c \in Conns : aborting[c] ~> task[c] = "ended"

=============================================================================
