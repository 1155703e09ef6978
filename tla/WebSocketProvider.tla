------------------------- MODULE WebSocketProvider -------------------------
(***************************************************************************)
(* The reconnecting WebSocket provider, WebSocketDanmakuProvider<P> of     *)
(* crates/platforms-parser/src/danmaku/websocket.rs.                       *)
(*                                                                         *)
(* Callers connect, receive and disconnect concurrently.  Each connection  *)
(* has a state (Arc<Mutex<WsConnectionState>>) found through a map behind  *)
(* an RwLock, a permit of a semaphore that lives as long as the state, and *)
(* a management task that dials, hand-shakes, streams and reconnects.  The *)
(* task feeds a bounded channel of items; callers drain it.                *)
(*                                                                         *)
(* Data is abstracted: the k-th item the protocol decodes on a connection  *)
(* is the number k, a protocol response is a unit, a connection id (a      *)
(* fresh UUID) is a member of Conns used once.                             *)
(***************************************************************************)
EXTENDS Naturals, Sequences, FiniteSets

CONSTANTS
  Conns,         (* connection ids                                         *)
  Callers,       (* futures running connect / receive / disconnect         *)
  NoConn,        (* the target of an idle caller                           *)
  MaxActive,     (* MAX_ACTIVE_CONNECTIONS, the semaphore's permits        *)
  MaxReconnect,  (* max_reconnect_attempts                                 *)
  BaseDelay,     (* base_reconnect_delay_ms                                *)
  MaxDelay,      (* max_reconnect_delay_ms                                 *)
  MessageCap,    (* capacity of the item channel                           *)
  ResponseCap,   (* capacity of the protocol's response channel            *)
  Batches,       (* how many items one frame may decode to                 *)
  Replies,       (* how many responses decoding one frame may push         *)
  DialOutcomes,  (* how the network may answer a dial                      *)
  SharedHandle,  (* whether one id may be disconnected while it is being   *)
                 (* received from (a second handle built with the public   *)
                 (* DanmakuConnection::new; &mut forbids it on one handle) *)
  MaxItems       (* bound on the items decoded per connection              *)

Outcomes == {"ok", "failed", "invalid", "handshake_failed"}

ASSUME ConstantsAssumption ==
  /\ IsFiniteSet(Conns)
  /\ NoConn \notin Conns
  /\ "map" \notin Callers
  /\ MaxActive \in Nat \ {0}
  /\ MaxReconnect \in Nat
  /\ BaseDelay \in Nat
  /\ MaxDelay \in Nat
  /\ MessageCap \in Nat \ {0}
  /\ ResponseCap \in Nat \ {0}
  /\ Batches \subseteq Nat
  /\ Replies \subseteq Nat
  /\ DialOutcomes \subseteq Outcomes
  /\ SharedHandle \in BOOLEAN
  /\ MaxItems \in Nat

VARIABLES
  holders,      (* per id: who holds a clone of the state's Arc            *)
  permits,      (* permits left in connection_semaphore                    *)
  writer,       (* the disconnect that holds the map's write guard, a set  *)
  pc,           (* per caller: where its future is suspended               *)
  target,       (* per caller: the id it works on                          *)
  shutdown,     (* per id: the shutdown channel, as the task sees it       *)
  aborting,     (* per id: abort_tasks has been called                     *)
  task,         (* per id: where the management task is suspended          *)
  attempt,      (* per id: the task's attempt                              *)
  delay,        (* per id: the task's back-off delay                       *)
  isConnected,  (* per id: the shared is_connected flag                    *)
  owed,         (* per id: responses decode_message has still to push      *)
  responses,    (* per id: length of the response channel                  *)
  pending,      (* per id: decoded items not yet in the item channel       *)
  queue,        (* per id: the item channel                                *)
  produced,     (* history: how many items were decoded                    *)
  delivered     (* history: what receive has returned                      *)

callerVars == <<holders, permits, writer, pc, target>>
stopVars == <<shutdown, aborting>>
taskVars == <<task, attempt, delay, isConnected>>
replyVars == <<owed, responses>>
itemVars == <<pending, queue, produced, delivered>>
vars == <<callerVars, stopVars, taskVars, replyVars, itemVars>>

(* The keys of the connections map: an entry is the map's own Arc.         *)
Connections == {c \in Conns : "map" \in holders[c]}

(* States that have not been dropped: some Arc of them is still held.      *)
Live == {c \in Conns : holders[c] # {}}

Running(c) == task[c] \notin {"none", "ended"}

Lesser(a, b) == IF a <= b THEN a ELSE b

Init ==
  /\ holders = [c \in Conns |-> {}]
  /\ permits = MaxActive
  /\ writer = {}
  /\ pc = [p \in Callers |-> "idle"]
  /\ target = [p \in Callers |-> NoConn]
  /\ shutdown = [c \in Conns |-> "open"]
  /\ aborting = [c \in Conns |-> FALSE]
  /\ task = [c \in Conns |-> "none"]
  /\ attempt = [c \in Conns |-> 0]
  /\ delay = [c \in Conns |-> BaseDelay]
  /\ isConnected = [c \in Conns |-> FALSE]
  /\ owed = [c \in Conns |-> 0]
  /\ responses = [c \in Conns |-> 0]
  /\ pending = [c \in Conns |-> <<>>]
  /\ queue = [c \in Conns |-> <<>>]
  /\ produced = [c \in Conns |-> 0]
  /\ delivered = [c \in Conns |-> <<>>]

-----------------------------------------------------------------------------
(* Callers.                                                                *)

Suspend(p, step, c) ==
  /\ pc' = [pc EXCEPT ![p] = step]
  /\ target' = [target EXCEPT ![p] = c]

Return(p) == Suspend(p, "idle", NoConn)

(* Mutants of Release: the permit, or the running task, survives the state. *)
ReleaseKeepsPermit(c, H, signal) ==
  /\ holders' = [holders EXCEPT ![c] = @ \ H]
  /\ aborting' = [aborting EXCEPT ![c] = @ \/ holders[c] \subseteq H]
  /\ shutdown' = [shutdown EXCEPT ![c] = signal]
  /\ UNCHANGED permits

ReleaseKeepsTask(c, H, signal) ==
  /\ holders' = [holders EXCEPT ![c] = @ \ H]
  /\ permits' = IF holders[c] \subseteq H THEN permits + 1 ELSE permits
  /\ shutdown' = [shutdown EXCEPT ![c] = signal]
  /\ UNCHANGED aborting

(* Drop for WsConnectionState, reached when the holders in H were the last: *)
(* tasks are aborted, the shutdown sender, the permit and the receiver go.  *)
Release(c, H, signal) ==
  LET last == holders[c] \subseteq H
  IN  /\ holders' = [holders EXCEPT ![c] = @ \ H]
      /\ permits' = IF last THEN permits + 1 ELSE permits
      /\ aborting' = [aborting EXCEPT ![c] = @ \/ last]
      /\ shutdown' = [shutdown EXCEPT ![c] =
                        IF signal = "open" /\ last THEN "closed" ELSE signal]

KeepUnlessDropped(c, H, q) ==
  queue' = [queue EXCEPT ![c] = IF holders[c] \subseteq H THEN <<>> ELSE q]

(* Mutant: the permit is taken without looking whether one is left.        *)
ConnectUnchecked(p, c) ==
  /\ pc[p] = "idle"
  /\ task[c] = "none"
  /\ permits' = permits - 1
  /\ holders' = [holders EXCEPT ![c] = {p}]
  /\ task' = [task EXCEPT ![c] = "top"]
  /\ Suspend(p, "connecting", c)
  /\ UNCHANGED <<writer, stopVars, attempt, delay, isConnected, replyVars, itemVars>>

(* connect: take a permit (none left is an error), spawn the task, then    *)
(* wait for the write lock with the state still in the future's frame.     *)
Connect(p, c) ==
  /\ pc[p] = "idle"
  /\ task[c] = "none"
  /\ permits > 0
  /\ permits' = permits - 1
  /\ holders' = [holders EXCEPT ![c] = {p}]
  /\ task' = [task EXCEPT ![c] = "top"]
  /\ Suspend(p, "connecting", c)
  /\ UNCHANGED <<writer, stopVars, attempt, delay, isConnected, replyVars, itemVars>>

(* connect, second half: insert the state and return the handle.           *)
ConnectInsert(p) ==
  /\ pc[p] = "connecting"
  /\ writer = {}
  /\ holders' = [holders EXCEPT ![target[p]] = (@ \ {p}) \union {"map"}]
  /\ Return(p)
  /\ UNCHANGED <<permits, writer, stopVars, taskVars, replyVars, itemVars>>

(* receive: look the id up under the read lock and clone the state's Arc.  *)
Receive(p, c) ==
  /\ pc[p] = "idle"
  /\ writer = {}
  /\ c \in Connections
  /\ holders' = [holders EXCEPT ![c] = @ \union {p}]
  /\ Suspend(p, "receiving", c)
  /\ UNCHANGED <<permits, writer, stopVars, taskVars, replyVars, itemVars>>

(* receive: an item is there, Ok(Some(item)).                              *)
ReceiveItem(p) ==
  LET c == target[p]
  IN  /\ pc[p] = "receiving"
      /\ queue[c] # <<>>
      /\ delivered' = [delivered EXCEPT ![c] = Append(@, Head(queue[c]))]
      /\ KeepUnlessDropped(c, {p}, Tail(queue[c]))
      /\ Release(c, {p}, shutdown[c])
      /\ Return(p)
      /\ UNCHANGED <<writer, taskVars, replyVars, pending, produced>>

(* Mutants: an idle connection is taken for a closed one; receive loops     *)
(* instead of returning.                                                   *)
TimeoutRemoves(p) ==
  LET c == target[p]
  IN  /\ pc[p] = "receiving"
      /\ KeepUnlessDropped(c, {p, "map"}, queue[c])
      /\ Release(c, {p, "map"}, shutdown[c])
      /\ Return(p)
      /\ UNCHANGED <<writer, taskVars, replyVars, pending, produced, delivered>>

TimeoutRetries(p) == pc[p] = "receiving" /\ UNCHANGED vars

(* receive: the 100 ms timer wins, Ok(None).                               *)
ReceiveTimeout(p) ==
  LET c == target[p]
  IN  /\ pc[p] = "receiving"
      /\ KeepUnlessDropped(c, {p}, queue[c])
      /\ Release(c, {p}, shutdown[c])
      /\ Return(p)
      /\ UNCHANGED <<writer, taskVars, replyVars, pending, produced, delivered>>

(* Mutant: the task's end counts, whatever is left in the channel.         *)
ClosedUndrained(p) ==
  /\ pc[p] = "receiving"
  /\ task[target[p]] = "ended"
  /\ Suspend(p, "removing", target[p])
  /\ UNCHANGED <<holders, permits, writer, stopVars, taskVars, replyVars, itemVars>>

(* receive: every sender is gone and the channel is empty; wait for the    *)
(* write lock to remove the entry.                                         *)
ReceiveClosed(p) ==
  /\ pc[p] = "receiving"
  /\ queue[target[p]] = <<>>
  /\ task[target[p]] = "ended"
  /\ Suspend(p, "removing", target[p])
  /\ UNCHANGED <<holders, permits, writer, stopVars, taskVars, replyVars, itemVars>>

(* receive: remove the entry (if it is still there), Err("Channel closed").*)
ReceiveRemove(p) ==
  LET c == target[p]
  IN  /\ pc[p] = "removing"
      /\ writer = {}
      /\ KeepUnlessDropped(c, {p, "map"}, queue[c])
      /\ Release(c, {p, "map"}, shutdown[c])
      /\ Return(p)
      /\ UNCHANGED <<writer, taskVars, replyVars, pending, produced, delivered>>

BeingReceived(c) ==
  \E p \in Callers : pc[p] \in {"receiving", "removing"} /\ target[p] = c

(* Mutant: the entry is read, not removed.                                 *)
DisconnectKeepsEntry(p, c) ==
  /\ pc[p] = "idle"
  /\ writer = {}
  /\ c \in Connections
  /\ SharedHandle \/ ~BeingReceived(c)
  /\ holders' = [holders EXCEPT ![c] = @ \union {p}]
  /\ writer' = {p}
  /\ Suspend(p, "disconnecting", c)
  /\ UNCHANGED <<permits, stopVars, taskVars, replyVars, itemVars>>

(* disconnect: remove the entry under the write guard, which stays held    *)
(* while the state's own mutex is awaited.                                 *)
Disconnect(p, c) ==
  /\ pc[p] = "idle"
  /\ writer = {}
  /\ c \in Connections
  /\ SharedHandle \/ ~BeingReceived(c)
  /\ holders' = [holders EXCEPT ![c] = (@ \ {"map"}) \union {p}]
  /\ writer' = {p}
  /\ Suspend(p, "disconnecting", c)
  /\ UNCHANGED <<permits, stopVars, taskVars, replyVars, itemVars>>

(* disconnect, second half: signal the task, abort it, drop the sender,    *)
(* the guard and this Arc.                                                 *)
DisconnectShutdown(p) ==
  LET c == target[p]
      last == holders[c] \subseteq {p}
  IN  /\ pc[p] = "disconnecting"
      /\ writer' = {}
      /\ holders' = [holders EXCEPT ![c] = @ \ {p}]
      /\ permits' = IF last THEN permits + 1 ELSE permits
      /\ aborting' = [aborting EXCEPT ![c] = TRUE]
      /\ shutdown' = [shutdown EXCEPT ![c] = IF @ = "open" THEN "signalled" ELSE @]
      /\ KeepUnlessDropped(c, {p}, queue[c])
      /\ Return(p)
      /\ UNCHANGED <<taskVars, replyVars, pending, produced, delivered>>

(* Mutant: the dropped future's clone of the state is never released.      *)
CancelLeaks(p) ==
  /\ pc[p] # "idle"
  /\ writer' = writer \ {p}
  /\ Return(p)
  /\ UNCHANGED <<holders, permits, stopVars, taskVars, replyVars, itemVars>>

(* A caller's future is dropped where it is suspended (select!, timeout).  *)
Cancel(p) ==
  LET c == target[p]
  IN  /\ pc[p] # "idle"
      /\ writer' = writer \ {p}
      /\ KeepUnlessDropped(c, {p}, queue[c])
      /\ Release(c, {p}, shutdown[c])
      /\ Return(p)
      /\ UNCHANGED <<taskVars, replyVars, pending, produced, delivered>>

-----------------------------------------------------------------------------
(* The management task of connection c.                                    *)

Goto(c, step) == task' = [task EXCEPT ![c] = step]

(* The task's future is gone, and with it its locals and the item sender.  *)
End(c) ==
  /\ Goto(c, "ended")
  /\ attempt' = [attempt EXCEPT ![c] = 0]
  /\ delay' = [delay EXCEPT ![c] = BaseDelay]
  /\ owed' = [owed EXCEPT ![c] = 0]
  /\ responses' = [responses EXCEPT ![c] = 0]
  /\ pending' = [pending EXCEPT ![c] = <<>>]

(* Top of the loop: only a message in the shutdown channel stops it.       *)
TopShutdown(c) ==
  /\ task[c] = "top"
  /\ shutdown[c] = "signalled"
  /\ shutdown' = [shutdown EXCEPT ![c] = "closed"]
  /\ End(c)
  /\ UNCHANGED <<callerVars, aborting, isConnected, queue, produced, delivered>>

(* Resolve the URL and dial.                                               *)
Dial(c) ==
  /\ task[c] = "top"
  /\ shutdown[c] # "signalled"
  /\ Goto(c, "dialing")
  /\ UNCHANGED <<callerVars, stopVars, attempt, delay, isConnected, replyVars, itemVars>>

(* A URL that cannot be parsed, has no host or makes no request: `continue`*)
(* without counting the attempt or backing off.                            *)
DialInvalid(c) ==
  /\ task[c] = "dialing"
  /\ "invalid" \in DialOutcomes
  /\ Goto(c, "top")
  /\ UNCHANGED <<callerVars, stopVars, attempt, delay, isConnected, replyVars, itemVars>>

DialFails(c) == task[c] = "dialing" /\ "failed" \in DialOutcomes

(* Mutant: the failed dial is not counted.                                 *)
DialFailedUncounted(c) ==
  /\ DialFails(c)
  /\ Goto(c, "backoff")
  /\ UNCHANGED <<callerVars, stopVars, attempt, delay, isConnected, replyVars, itemVars>>

(* No stream and attempts left: count the attempt and back off.            *)
DialFailed(c) ==
  /\ DialFails(c)
  /\ attempt[c] < MaxReconnect
  /\ attempt' = [attempt EXCEPT ![c] = @ + 1]
  /\ Goto(c, "backoff")
  /\ UNCHANGED <<callerVars, stopVars, delay, isConnected, replyVars, itemVars>>

(* Mutant: gives up one attempt early.                                     *)
GiveUpEarly(c) ==
  /\ DialFails(c)
  /\ attempt[c] + 1 >= MaxReconnect
  /\ End(c)
  /\ UNCHANGED <<callerVars, stopVars, isConnected, queue, produced, delivered>>

(* No stream and no attempts left: the task ends.                          *)
GiveUp(c) ==
  /\ DialFails(c)
  /\ attempt[c] >= MaxReconnect
  /\ End(c)
  /\ UNCHANGED <<callerVars, stopVars, isConnected, queue, produced, delivered>>

DialAccepted(c) ==
  /\ task[c] = "dialing"
  /\ DialOutcomes \intersect {"ok", "handshake_failed"} # {}
  /\ Goto(c, "handshake")
  /\ UNCHANGED <<callerVars, stopVars, attempt, delay, isConnected, replyVars, itemVars>>

(* A handshake message cannot be sent: `continue`, again not counted.      *)
HandshakeFailed(c) ==
  /\ task[c] = "handshake"
  /\ "handshake_failed" \in DialOutcomes
  /\ Goto(c, "top")
  /\ UNCHANGED <<callerVars, stopVars, attempt, delay, isConnected, replyVars, itemVars>>

(* Mutant: a connection that streams does not reset the back-off.          *)
HandshakeKeepsDelay(c) ==
  /\ task[c] = "handshake"
  /\ "ok" \in DialOutcomes
  /\ isConnected' = [isConnected EXCEPT ![c] = TRUE]
  /\ attempt' = [attempt EXCEPT ![c] = 0]
  /\ Goto(c, "stream")
  /\ UNCHANGED <<callerVars, stopVars, delay, replyVars, itemVars>>

(* Every handshake message is sent (or there are none): streaming starts.  *)
HandshakeDone(c) ==
  /\ task[c] = "handshake"
  /\ "ok" \in DialOutcomes
  /\ isConnected' = [isConnected EXCEPT ![c] = TRUE]
  /\ attempt' = [attempt EXCEPT ![c] = 0]
  /\ delay' = [delay EXCEPT ![c] = BaseDelay]
  /\ Goto(c, "stream")
  /\ UNCHANGED <<callerVars, stopVars, replyVars, itemVars>>

BackoffElapsed(c) ==
  /\ task[c] = "backoff"
  /\ delay' = [delay EXCEPT ![c] = Lesser(@ * 2, MaxDelay)]
  /\ Goto(c, "top")
  /\ UNCHANGED <<callerVars, stopVars, attempt, isConnected, replyVars, itemVars>>

(* recv on the shutdown channel also returns when its sender is dropped.   *)
BackoffShutdown(c) ==
  /\ task[c] = "backoff"
  /\ shutdown[c] # "open"
  /\ shutdown' = [shutdown EXCEPT ![c] = "closed"]
  /\ End(c)
  /\ UNCHANGED <<callerVars, aborting, isConnected, queue, produced, delivered>>

(* The stream breaks: a heartbeat cannot be sent, a read fails or ends.    *)
StreamLost(c) ==
  /\ task[c] = "stream"
  /\ isConnected' = [isConnected EXCEPT ![c] = FALSE]
  /\ Goto(c, "top")
  /\ UNCHANGED <<callerVars, stopVars, attempt, delay, replyVars, itemVars>>

(* A queued protocol response is sent.                                     *)
SendResponse(c) ==
  /\ task[c] = "stream"
  /\ responses[c] > 0
  /\ responses' = [responses EXCEPT ![c] = @ - 1]
  /\ UNCHANGED <<callerVars, stopVars, taskVars, owed, itemVars>>

(* A queued protocol response cannot be sent; it is lost with the stream.  *)
SendResponseFailed(c) ==
  /\ task[c] = "stream"
  /\ responses[c] > 0
  /\ responses' = [responses EXCEPT ![c] = @ - 1]
  /\ isConnected' = [isConnected EXCEPT ![c] = FALSE]
  /\ Goto(c, "top")
  /\ UNCHANGED <<callerVars, stopVars, attempt, delay, owed, itemVars>>

(* A frame arrives; decode_message will push r responses.                  *)
Frame(c, r) ==
  /\ task[c] = "stream"
  /\ owed' = [owed EXCEPT ![c] = r]
  /\ Goto(c, "decoding")
  /\ UNCHANGED <<callerVars, stopVars, attempt, delay, isConnected, responses, itemVars>>

(* decode_message pushes a response; a full channel blocks this task, the  *)
(* only one that drains it.                                                *)
PushReply(c) ==
  /\ task[c] = "decoding"
  /\ owed[c] > 0
  /\ responses[c] < ResponseCap
  /\ owed' = [owed EXCEPT ![c] = @ - 1]
  /\ responses' = [responses EXCEPT ![c] = @ + 1]
  /\ UNCHANGED <<callerVars, stopVars, taskVars, itemVars>>

(* decode_message returns n items (none also stands for an error).         *)
Decoded(c, n) ==
  /\ task[c] = "decoding"
  /\ owed[c] = 0
  /\ produced[c] + n <= MaxItems
  /\ pending' = [pending EXCEPT ![c] = [i \in 1..n |-> produced[c] + i]]
  /\ produced' = [produced EXCEPT ![c] = @ + n]
  /\ Goto(c, "forwarding")
  /\ UNCHANGED <<callerVars, stopVars, attempt, delay, isConnected, replyVars, queue, delivered>>

(* Mutant: try_send, which drops the item when the channel is full.        *)
ForwardDropsWhenFull(c) ==
  /\ task[c] = "forwarding"
  /\ pending[c] # <<>>
  /\ c \in Live
  /\ queue' = IF Len(queue[c]) < MessageCap
              THEN [queue EXCEPT ![c] = Append(@, Head(pending[c]))]
              ELSE queue
  /\ pending' = [pending EXCEPT ![c] = Tail(@)]
  /\ UNCHANGED <<callerVars, stopVars, taskVars, replyVars, produced, delivered>>

(* message_tx.send: waits while the item channel is full.                  *)
Forward(c) ==
  /\ task[c] = "forwarding"
  /\ pending[c] # <<>>
  /\ c \in Live
  /\ Len(queue[c]) < MessageCap
  /\ queue' = [queue EXCEPT ![c] = Append(@, Head(pending[c]))]
  /\ pending' = [pending EXCEPT ![c] = Tail(@)]
  /\ UNCHANGED <<callerVars, stopVars, taskVars, replyVars, produced, delivered>>

(* The for loop ends: no item left, or the receiver is gone.               *)
ForwardDone(c) ==
  /\ task[c] = "forwarding"
  /\ pending[c] = <<>> \/ c \notin Live
  /\ pending' = [pending EXCEPT ![c] = <<>>]
  /\ Goto(c, "stream")
  /\ UNCHANGED <<callerVars, stopVars, attempt, delay, isConnected, replyVars, queue, produced, delivered>>

StreamShutdown(c) ==
  /\ task[c] = "stream"
  /\ shutdown[c] # "open"
  /\ shutdown' = [shutdown EXCEPT ![c] = "closed"]
  /\ Goto(c, "closing")
  /\ UNCHANGED <<callerVars, aborting, attempt, delay, isConnected, replyVars, itemVars>>

(* The close frame is sent and the task returns; the flag stays set.       *)
StreamClosed(c) ==
  /\ task[c] = "closing"
  /\ End(c)
  /\ UNCHANGED <<callerVars, stopVars, isConnected, queue, produced, delivered>>

(* Mutant: the task is only asked to stop, and looks between frames.       *)
AbortedBetweenFrames(c) ==
  /\ aborting[c]
  /\ Running(c) /\ task[c] \notin {"decoding", "forwarding"}
  /\ End(c)
  /\ UNCHANGED <<callerVars, stopVars, isConnected, queue, produced, delivered>>

(* tokio drops an aborted task when its current poll yields.               *)
Aborted(c) ==
  /\ aborting[c]
  /\ Running(c)
  /\ End(c)
  /\ UNCHANGED <<callerVars, stopVars, isConnected, queue, produced, delivered>>

-----------------------------------------------------------------------------
CallerStep(p) ==
  \/ \E c \in Conns : Connect(p, c) \/ Receive(p, c) \/ Disconnect(p, c)
  \/ ConnectInsert(p)
  \/ ReceiveItem(p)
  \/ ReceiveTimeout(p)
  \/ ReceiveClosed(p)
  \/ ReceiveRemove(p)
  \/ DisconnectShutdown(p)
  \/ Cancel(p)

DialStep(c) ==
  \/ TopShutdown(c)
  \/ Dial(c)
  \/ DialInvalid(c)
  \/ DialFailed(c)
  \/ GiveUp(c)
  \/ DialAccepted(c)
  \/ HandshakeFailed(c)
  \/ HandshakeDone(c)
  \/ BackoffElapsed(c)
  \/ BackoffShutdown(c)

StreamStep(c) ==
  \/ StreamLost(c)
  \/ SendResponse(c)
  \/ SendResponseFailed(c)
  \/ \E r \in Replies : Frame(c, r)
  \/ PushReply(c)
  \/ \E n \in Batches : Decoded(c, n)
  \/ Forward(c)
  \/ ForwardDone(c)
  \/ StreamShutdown(c)
  \/ StreamClosed(c)
  \/ Aborted(c)

Next ==
  \/ \E p \in Callers : CallerStep(p)
  \/ \E c \in Conns : DialStep(c) \/ StreamStep(c)

Spec == Init /\ [][Next]_vars

(* The runtime polls a woken future and drops an aborted one, its timers    *)
(* fire and its locks are fair.  Nothing is assumed of callers' choices or  *)
(* of the network.                                                         *)
RuntimeFairness ==
  /\ \A p \in Callers :
       /\ WF_vars(ConnectInsert(p))
       /\ WF_vars(ReceiveItem(p) \/ ReceiveTimeout(p) \/ ReceiveClosed(p))
       /\ WF_vars(ReceiveRemove(p))
       /\ WF_vars(DisconnectShutdown(p))
  /\ \A c \in Conns : WF_vars(Aborted(c))

RuntimeSpec == Spec /\ RuntimeFairness

-----------------------------------------------------------------------------
(* What must hold.                                                         *)

Steps == {"idle", "connecting", "receiving", "removing", "disconnecting"}
TaskStates == {"none", "top", "dialing", "handshake", "backoff", "stream",
               "decoding", "forwarding", "closing", "ended"}

CallerTypes ==
  /\ holders \in [Conns -> SUBSET (Callers \union {"map"})]
  /\ permits \in Nat
  /\ writer \in SUBSET Callers
  /\ pc \in [Callers -> Steps]
  /\ target \in [Callers -> Conns \union {NoConn}]
  /\ shutdown \in [Conns -> {"open", "signalled", "closed"}]
  /\ aborting \in [Conns -> BOOLEAN]

TaskTypes ==
  /\ task \in [Conns -> TaskStates]
  /\ attempt \in [Conns -> Nat]
  /\ delay \in [Conns -> Nat]
  /\ isConnected \in [Conns -> BOOLEAN]
  /\ owed \in [Conns -> Nat]
  /\ responses \in [Conns -> Nat]

Items == Seq(Nat)

ItemTypes ==
  /\ pending \in [Conns -> Items]
  /\ queue \in [Conns -> Items]
  /\ produced \in [Conns -> Nat]
  /\ delivered \in [Conns -> Items]

TypeOK == CallerTypes /\ TaskTypes /\ ItemTypes

(* Every permit is either free or owned by exactly one state that is still  *)
(* held: none is lost or returned twice, however connect, receive and       *)
(* disconnect interleave, fail or are cancelled, so at most MaxActive       *)
(* connections are alive.                                                  *)
PermitsAccounted == permits + Cardinality(Live) = MaxActive

(* Only suspended callers and the map hold a state: every return path and   *)
(* every cancellation gives its reference up, so an entry is the only thing *)
(* a caller can leak.                                                      *)
NoLeakedReference ==
  \A c \in Conns, p \in Callers :
    p \in holders[c] <=> pc[p] # "idle" /\ target[p] = c

(* No management task outlives its state: once nobody holds the state any   *)
(* more, the task has been told to abort.                                  *)
NoRunawayTask == \A c \in Conns : Running(c) /\ c \notin Live => aborting[c]

(* Across reconnects, a full channel and any number of receivers, the items *)
(* of a connection are delivered once each and in the order they were       *)
(* decoded; nothing is skipped while the task is not aborted.              *)
Upto(n) == [i \in 1..n |-> i]

Accepted(c) == delivered[c] \o queue[c] \o pending[c]

DeliveredInOrder ==
  \A c \in Conns :
    /\ delivered[c] = Upto(Len(delivered[c]))
    /\ c \in Live => Accepted(c) = Upto(Len(Accepted(c)))
    /\ c \in Live /\ ~aborting[c] => Len(Accepted(c)) = produced[c]

(* receive reports "Channel closed" only when every item the task decoded   *)
(* has been delivered, unless the task was aborted.                        *)
ClosedMeansDrained ==
  \A p \in Callers :
    pc[p] = "removing" /\ ~aborting[target[p]] =>
      Len(delivered[target[p]]) = produced[target[p]]

(* Between two handshakes a task backs off at most MaxReconnect times, and  *)
(* the wait is the base delay for the first and doubles up to MaxDelay.    *)
BackoffDelay(k) == IF k <= 1 THEN BaseDelay ELSE Lesser(BaseDelay * 2^(k - 1), MaxDelay)

BackoffSchedule ==
  \A c \in Conns :
    /\ attempt[c] <= MaxReconnect
    /\ task[c] = "backoff" => attempt[c] > 0 /\ delay[c] = BackoffDelay(attempt[c])

(* An entry leaves the map only because a caller disconnects it or because  *)
(* receive found its task ended: a live stream never loses its entry.      *)
EntryRemovedForCause ==
  [][\A c \in Connections \ Connections' :
       task[c] = "ended" \/ \E p \in writer' : target'[p] = c]_vars

(* A task the callers did not stop ends only after MaxReconnect failures in *)
(* a row.                                                                  *)
GivesUpOnlyExhausted ==
  [][\A c \in Conns :
       Running(c) /\ ~Running(c)' =>
         aborting[c] \/ shutdown[c] # "open" \/ attempt[c] = MaxReconnect]_vars

(* Nothing is delivered once a disconnect has shut the connection down      *)
(* (with one handle per connection).                                       *)
DisconnectIsFinal ==
  [][\A c \in Conns : aborting[c] => delivered'[c] = delivered[c]]_vars

(* connect, receive and disconnect return, whatever the network does and    *)
(* whoever holds the map's write guard.                                    *)
CallersReturn == \A p \in Callers : pc[p] # "idle" ~> pc[p] = "idle"

(* A task whose state is gone or that was disconnected ends, even when it   *)
(* is blocked pushing a response to itself or forwarding to a full channel.*)
AbortedTasksEnd == \A c \in Conns : aborting[c] ~> task[c] = "ended"

(* A connection that has left the map gives its permit back.               *)
PermitReturned ==
  \A c \in Conns : task[c] # "none" /\ c \notin Connections ~> c \notin Live \/ c \in Connections

(* If the task is polled and every dial is answered in the end, the task   *)
(* does not dial for ever: a dial is accepted, or it gives up.             *)
DialsAnswered == \A c \in Conns : WF_vars(DialStep(c))

UnreachableGivesUp ==
  DialsAnswered => \A c \in Conns : task[c] = "top" ~> task[c] \in {"handshake", "ended"}

=============================================================================
