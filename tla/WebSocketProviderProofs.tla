----------------------- MODULE WebSocketProviderProofs -----------------------
(***************************************************************************)
(* Theorems about WebSocketProvider, for every number of connections and   *)
(* callers, every limit and every capacity: permits, references and tasks  *)
(* are accounted for, and items are delivered in order and completely.     *)
(***************************************************************************)
EXTENDS WebSocketProvider, FiniteSetTheorems, SequenceTheorems, TLAPS

(* Where a caller is suspended on a connection, that connection's task was  *)
(* spawned; an id whose task was not spawned has no state.                 *)
TargetInv ==
  /\ \A p \in Callers :
       pc[p] # "idle" => target[p] \in Conns /\ task[target[p]] # "none"
  /\ \A c \in Conns : task[c] = "none" => holders[c] = {}

(* The conjuncts about who holds what, inductive together.                 *)
HolderInv == TypeOK /\ TargetInv /\ NoLeakedReference

-----------------------------------------------------------------------------
(* Item sequences.                                                         *)

LEMMA NoItems == <<>> \in Items
BY DEF Items

(* Decoding n items numbers them with naturals.                            *)
LEMMA BatchIsItems ==
  ASSUME NEW m \in Nat, NEW n \in Nat
  PROVE  [i \in 1..n |-> m + i] \in Items
BY SMT DEF Items

LEMMA MoveHead ==
  ASSUME NEW s \in Items, s # <<>>, NEW t \in Items
  PROVE  Tail(s) \in Items /\ Append(t, Head(s)) \in Items
BY HeadTailProperties, AppendProperties DEF Items

-----------------------------------------------------------------------------
(* Types.                                                                  *)

(* The state and its bookkeeping start well-formed.                        *)
LEMMA HolderInit == Init => HolderInv
<1> SUFFICES ASSUME Init PROVE HolderInv
  OBVIOUS
<1>1. CallerTypes /\ TaskTypes
  BY ConstantsAssumption DEF Init, CallerTypes, TaskTypes, Steps, TaskStates
<1>2. ItemTypes
  BY NoItems DEF Init, ItemTypes
<1>3. TargetInv /\ NoLeakedReference
  BY DEF Init, TargetInv, NoLeakedReference
<1> QED
  BY <1>1, <1>2, <1>3 DEF HolderInv, TypeOK

(* Dropping references leaves the bookkeeping well typed.                  *)
LEMMA ReleaseTypes ==
  ASSUME CallerTypes, NEW c \in Conns, NEW H, Release(c, H, shutdown[c])
  PROVE  /\ holders' \in [Conns -> SUBSET (Callers \union {"map"})]
         /\ permits' \in Nat
         /\ aborting' \in [Conns -> BOOLEAN]
         /\ shutdown' \in [Conns -> {"open", "signalled", "closed"}]
BY DEF CallerTypes, Release

LEMMA ReturnTypes ==
  ASSUME CallerTypes, NEW p \in Callers, Return(p)
  PROVE  pc' \in [Callers -> Steps] /\ target' \in [Callers -> Conns \union {NoConn}]
BY DEF CallerTypes, Return, Suspend, Steps

LEMMA KeepTypes ==
  ASSUME ItemTypes, NEW c \in Conns, NEW H, NEW q \in Items, KeepUnlessDropped(c, H, q)
  PROVE  queue' \in [Conns -> Items]
BY NoItems DEF ItemTypes, KeepUnlessDropped

LEMMA TypeCallerStep ==
  ASSUME TypeOK, TargetInv, NEW p \in Callers, CallerStep(p)
  PROVE  TypeOK'
<1> USE DEF TypeOK
<1>1. CASE \E c \in Conns : Connect(p, c) \/ Receive(p, c) \/ Disconnect(p, c)
  <2> PICK c \in Conns : Connect(p, c) \/ Receive(p, c) \/ Disconnect(p, c)
    BY <1>1
  <2> USE DEF Suspend, stopVars, replyVars, itemVars, CallerTypes, TaskTypes, ItemTypes,
              Steps, TaskStates
  <2>1. CASE Connect(p, c)
    BY <2>1 DEF Connect
  <2>2. CASE Receive(p, c)
    BY <2>2 DEF Receive, taskVars
  <2>3. CASE Disconnect(p, c)
    BY <2>3 DEF Disconnect, taskVars
  <2> QED
    BY <2>1, <2>2, <2>3
<1>2. CASE ConnectInsert(p)
  <2>1. CallerTypes'
    BY <1>2, ReturnTypes DEF ConnectInsert, CallerTypes, stopVars
  <2>2. TaskTypes' /\ ItemTypes'
    BY <1>2 DEF ConnectInsert, TaskTypes, ItemTypes, taskVars, replyVars, itemVars
  <2> QED
    BY <2>1, <2>2
<1>3. CASE ReceiveItem(p)
  <2> PICK c \in Conns : c = target[p]
    BY <1>3 DEF ReceiveItem, TargetInv
  <2>1. Tail(queue[c]) \in Items /\ Append(delivered[c], Head(queue[c])) \in Items
    BY <1>3, MoveHead DEF ReceiveItem, ItemTypes
  <2>2. CallerTypes'
    BY <1>3, ReleaseTypes, ReturnTypes DEF ReceiveItem, CallerTypes
  <2>3. TaskTypes'
    BY <1>3 DEF ReceiveItem, TaskTypes, taskVars, replyVars
  <2>4. queue' \in [Conns -> Items]
    BY <1>3, <2>1, KeepTypes DEF ReceiveItem
  <2>5. ItemTypes'
    BY <1>3, <2>1, <2>4 DEF ReceiveItem, ItemTypes
  <2> QED
    BY <2>2, <2>3, <2>5
<1>4. CASE ReceiveTimeout(p) \/ ReceiveRemove(p) \/ Cancel(p)
  <2> PICK c \in Conns : c = target[p]
    BY <1>4 DEF ReceiveTimeout, ReceiveRemove, Cancel, TargetInv
  <2>1. CallerTypes'
    BY <1>4, ReleaseTypes, ReturnTypes DEF ReceiveTimeout, ReceiveRemove, Cancel, CallerTypes
  <2>2. TaskTypes'
    BY <1>4 DEF ReceiveTimeout, ReceiveRemove, Cancel, TaskTypes, taskVars, replyVars
  <2>3. queue' \in [Conns -> Items]
    BY <1>4, KeepTypes DEF ReceiveTimeout, ReceiveRemove, Cancel, ItemTypes
  <2>4. ItemTypes'
    BY <1>4, <2>3 DEF ReceiveTimeout, ReceiveRemove, Cancel, ItemTypes
  <2> QED
    BY <2>1, <2>2, <2>4
<1>5. CASE ReceiveClosed(p)
  BY <1>5 DEF ReceiveClosed, TargetInv, Suspend, CallerTypes, TaskTypes, ItemTypes, Steps,
              stopVars, taskVars, replyVars, itemVars
<1>6. CASE DisconnectShutdown(p)
  <2> PICK c \in Conns : c = target[p]
    BY <1>6 DEF DisconnectShutdown, TargetInv
  <2>1. CallerTypes'
    BY <1>6, ReturnTypes DEF DisconnectShutdown, CallerTypes
  <2>2. queue' \in [Conns -> Items]
    BY <1>6, KeepTypes DEF DisconnectShutdown, ItemTypes
  <2>3. TaskTypes' /\ ItemTypes'
    BY <1>6, <2>2 DEF DisconnectShutdown, TaskTypes, ItemTypes, taskVars, replyVars
  <2> QED
    BY <2>1, <2>3
<1> QED
  BY <1>1, <1>2, <1>3, <1>4, <1>5, <1>6 DEF CallerStep

(* The end of a task resets its locals.                                    *)
LEMMA EndTypes ==
  ASSUME TaskTypes, ItemTypes, NEW c \in Conns, End(c),
         UNCHANGED <<isConnected, queue, produced, delivered>>
  PROVE  TaskTypes' /\ ItemTypes'
BY ConstantsAssumption, NoItems DEF TaskTypes, ItemTypes, End, Goto, TaskStates

(* The task's own steps keep every variable well typed.                    *)
LEMMA TypeTaskStep ==
  ASSUME TypeOK, NEW c \in Conns, DialStep(c) \/ StreamStep(c)
  PROVE  TypeOK'
<1> USE DEF TypeOK
<1>1. CASE TopShutdown(c) \/ GiveUp(c) \/ BackoffShutdown(c) \/ StreamClosed(c) \/ Aborted(c)
  <2>1. End(c) /\ UNCHANGED <<isConnected, queue, produced, delivered>>
    BY <1>1 DEF TopShutdown, GiveUp, BackoffShutdown, StreamClosed, Aborted
  <2>2. CallerTypes'
    BY <1>1 DEF TopShutdown, GiveUp, BackoffShutdown, StreamClosed, Aborted, CallerTypes,
                callerVars, stopVars
  <2> QED
    BY <2>1, <2>2, EndTypes
<1>2. CASE Dial(c) \/ DialInvalid(c) \/ DialFailed(c) \/ DialAccepted(c) \/ HandshakeFailed(c)
  <2>1. CallerTypes' /\ ItemTypes'
    BY <1>2 DEF Dial, DialInvalid, DialFailed, DialAccepted, HandshakeFailed, CallerTypes,
                ItemTypes, callerVars, stopVars, itemVars
  <2>2. TaskTypes'
    BY <1>2 DEF Dial, DialInvalid, DialFailed, DialAccepted, HandshakeFailed, TaskTypes,
                Goto, replyVars, TaskStates
  <2> QED
    BY <2>1, <2>2
<1>3. CASE HandshakeDone(c) \/ BackoffElapsed(c)
  <2>0. BaseDelay \in Nat /\ MaxDelay \in Nat
    BY ConstantsAssumption
  <2>1. CallerTypes' /\ ItemTypes'
    BY <1>3 DEF HandshakeDone, BackoffElapsed, CallerTypes, ItemTypes, callerVars, stopVars,
                itemVars
  <2>2. TaskTypes'
    <3> USE DEF TaskTypes, Goto, replyVars, TaskStates
    <3>1. CASE HandshakeDone(c)
      BY <2>0, <3>1 DEF HandshakeDone
    <3>2. CASE BackoffElapsed(c)
      <4>1. Lesser(delay[c] * 2, MaxDelay) \in Nat
        BY <2>0 DEF Lesser
      <4> QED
        BY <3>2, <4>1 DEF BackoffElapsed
    <3> QED
      BY <1>3, <3>1, <3>2
  <2> QED
    BY <2>1, <2>2
<1>4. CASE StreamLost(c) \/ SendResponse(c) \/ SendResponseFailed(c) \/ PushReply(c)
           \/ StreamShutdown(c) \/ (\E r \in Replies : Frame(c, r))
  <2>1. CallerTypes' /\ ItemTypes'
    BY <1>4 DEF StreamLost, SendResponse, SendResponseFailed, PushReply, StreamShutdown, Frame,
                CallerTypes, ItemTypes, callerVars, stopVars, itemVars
  <2> USE DEF TaskTypes, Goto, taskVars, replyVars, TaskStates
  <2>2. CASE StreamLost(c) \/ StreamShutdown(c)
    BY <2>1, <2>2 DEF StreamLost, StreamShutdown
  <2>5. CASE SendResponseFailed(c)
    BY <2>1, <2>5 DEF SendResponseFailed
  <2>3. CASE SendResponse(c) \/ PushReply(c)
    BY <2>1, <2>3 DEF SendResponse, PushReply
  <2>4. CASE \E r \in Replies : Frame(c, r)
    <3>1. Replies \subseteq Nat
      BY ConstantsAssumption
    <3> QED
      BY <2>1, <2>4, <3>1 DEF Frame
  <2> QED
    BY <1>4, <2>2, <2>3, <2>4, <2>5
<1>5. CASE \E n \in Batches : Decoded(c, n)
  <2> PICK n \in Batches : Decoded(c, n)
    BY <1>5
  <2>1. n \in Nat /\ produced[c] \in Nat
    BY ConstantsAssumption DEF ItemTypes
  <2>2. [i \in 1..n |-> produced[c] + i] \in Items
    BY <2>1, BatchIsItems
  <2>3. ItemTypes'
    BY <2>1, <2>2 DEF Decoded, ItemTypes
  <2>4. CallerTypes' /\ TaskTypes'
    BY DEF Decoded, CallerTypes, TaskTypes, Goto, callerVars, stopVars, replyVars, TaskStates
  <2> QED
    BY <2>3, <2>4
<1>6. CASE Forward(c)
  <2>1. Tail(pending[c]) \in Items /\ Append(queue[c], Head(pending[c])) \in Items
    BY <1>6, MoveHead DEF Forward, ItemTypes
  <2>2. ItemTypes'
    BY <1>6, <2>1 DEF Forward, ItemTypes
  <2>3. CallerTypes' /\ TaskTypes'
    BY <1>6 DEF Forward, CallerTypes, TaskTypes, callerVars, stopVars, taskVars, replyVars
  <2> QED
    BY <2>2, <2>3
<1>7. CASE ForwardDone(c)
  BY <1>7, NoItems DEF ForwardDone, CallerTypes, TaskTypes, ItemTypes, Goto, callerVars,
                       stopVars, replyVars, TaskStates
<1> QED
  BY <1>1, <1>2, <1>3, <1>4, <1>5, <1>6, <1>7 DEF DialStep, StreamStep

(* A caller's step changes its own reference, and the map's, to the one     *)
(* connection it works on.                                                 *)
LEMMA OwnReference ==
  ASSUME CallerTypes, TargetInv, NoLeakedReference,
         NEW p \in Callers, NEW c \in Conns, NEW step, NEW t, NEW X,
         Suspend(p, step, t), holders' = [holders EXCEPT ![c] = X],
         pc[p] = "idle" \/ target[p] = c,
         \A q \in Callers \ {p} : q \in X <=> q \in holders[c],
         p \in X <=> step # "idle",
         step # "idle" => t = c
  PROVE  NoLeakedReference'
<1> SUFFICES ASSUME NEW d \in Conns, NEW q \in Callers
             PROVE  (q \in holders'[d]) <=> (pc'[q] # "idle" /\ target'[q] = d)
  BY DEF NoLeakedReference
<1>1. holders'[d] = IF d = c THEN X ELSE holders[d]
  BY DEF CallerTypes
<1>2. pc'[q] = IF q = p THEN step ELSE pc[q]
  BY DEF CallerTypes, Suspend
<1>3. target'[q] = IF q = p THEN t ELSE target[q]
  BY DEF CallerTypes, Suspend
<1>4. (q \in holders[d]) <=> (pc[q] # "idle" /\ target[q] = d)
  BY DEF NoLeakedReference
<1> QED
  BY <1>1, <1>2, <1>3, <1>4

LEMMA OwnTarget ==
  ASSUME CallerTypes, TargetInv, NEW p \in Callers, NEW c \in Conns, NEW step, NEW t, NEW X,
         Suspend(p, step, t), holders' = [holders EXCEPT ![c] = X],
         step # "idle" => t = c,
         task'[c] # "none",
         \A d \in Conns \ {c} : task'[d] = task[d]
  PROVE  TargetInv'
<1>1. ASSUME NEW q \in Callers, pc'[q] # "idle"
      PROVE  target'[q] \in Conns /\ task'[target'[q]] # "none"
  BY <1>1 DEF CallerTypes, Suspend, TargetInv
<1>2. ASSUME NEW d \in Conns, task'[d] = "none" PROVE holders'[d] = {}
  BY <1>2 DEF CallerTypes, TargetInv
<1> QED
  BY <1>1, <1>2 DEF TargetInv

LEMMA HolderCallerStep ==
  ASSUME HolderInv, NEW p \in Callers, CallerStep(p)
  PROVE  TargetInv' /\ NoLeakedReference'
<1>0. "map" \notin Callers
  BY ConstantsAssumption
<1>1. CASE \E c \in Conns : Connect(p, c) \/ Receive(p, c) \/ Disconnect(p, c)
  <2> PICK c \in Conns : Connect(p, c) \/ Receive(p, c) \/ Disconnect(p, c)
    BY <1>1
  <2>1. CASE Connect(p, c)
    <3>1. holders[c] = {} /\ pc[p] = "idle" /\ task'[c] = "top"
      BY <2>1 DEF Connect, HolderInv, TypeOK, TaskTypes, TargetInv
    <3>2. \A d \in Conns \ {c} : task'[d] = task[d]
      BY <2>1 DEF Connect, HolderInv, TypeOK, TaskTypes
    <3>3. Suspend(p, "connecting", c) /\ holders' = [holders EXCEPT ![c] = {p}]
      BY <2>1 DEF Connect
    <3>4. TargetInv'
      BY <3>1, <3>2, <3>3, OwnTarget DEF HolderInv, TypeOK
    <3>5. NoLeakedReference'
      BY <3>1, <3>3, OwnReference DEF HolderInv, TypeOK
    <3> QED
      BY <3>4, <3>5
  <2>2. CASE Receive(p, c) \/ Disconnect(p, c)
    <3>1. holders[c] # {} /\ task[c] # "none" /\ pc[p] = "idle" /\ task' = task
      BY <2>2 DEF Receive, Disconnect, Connections, HolderInv, TargetInv, taskVars
    <3>2. PICK step, X :
            /\ step # "idle" /\ Suspend(p, step, c) /\ holders' = [holders EXCEPT ![c] = X]
            /\ X \in {holders[c] \union {p}, (holders[c] \ {"map"}) \union {p}}
      BY <2>2 DEF Receive, Disconnect
    <3>3. TargetInv'
      BY <3>1, <3>2, OwnTarget DEF HolderInv, TypeOK
    <3>4. (p \in X) /\ \A q \in Callers \ {p} : q \in X <=> q \in holders[c]
      BY <3>2, <1>0
    <3>5. NoLeakedReference'
      BY <3>1, <3>2, <3>4, OwnReference DEF HolderInv, TypeOK
    <3> QED
      BY <3>3, <3>5
  <2> QED
    BY <2>1, <2>2
<1>2. CASE ReceiveClosed(p)
  <2> PICK c \in Conns : c = target[p] /\ task[c] # "none"
    BY <1>2 DEF ReceiveClosed, HolderInv, TargetInv
  <2>1. Suspend(p, "removing", c) /\ holders' = [holders EXCEPT ![c] = holders[c]] /\ task' = task
    BY <1>2 DEF ReceiveClosed, HolderInv, TypeOK, CallerTypes, taskVars
  <2>2. p \in holders[c]
    BY <1>2 DEF ReceiveClosed, HolderInv, NoLeakedReference
  <2>3. TargetInv'
    BY <2>1, OwnTarget DEF HolderInv, TypeOK
  <2>4. NoLeakedReference'
    BY <2>1, <2>2, OwnReference DEF HolderInv, TypeOK
  <2> QED
    BY <2>3, <2>4
<1>3. CASE \/ ConnectInsert(p) \/ ReceiveItem(p) \/ ReceiveTimeout(p) \/ ReceiveRemove(p)
           \/ DisconnectShutdown(p) \/ Cancel(p)
  <2> PICK c \in Conns : c = target[p] /\ task[c] # "none"
    BY <1>3 DEF ConnectInsert, ReceiveItem, ReceiveTimeout, ReceiveRemove, DisconnectShutdown,
                Cancel, HolderInv, TargetInv
  <2>1. Suspend(p, "idle", NoConn) /\ task' = task
    BY <1>3 DEF ConnectInsert, ReceiveItem, ReceiveTimeout, ReceiveRemove, DisconnectShutdown,
                Cancel, Return, taskVars
  <2>2. PICK X :
          /\ holders' = [holders EXCEPT ![c] = X]
          /\ X \in {(holders[c] \ {p}) \union {"map"}, holders[c] \ {p}, holders[c] \ {p, "map"}}
    BY <1>3 DEF ConnectInsert, ReceiveItem, ReceiveTimeout, ReceiveRemove, DisconnectShutdown,
                Cancel, Release
  <2>3. TargetInv'
    BY <2>1, <2>2, OwnTarget DEF HolderInv, TypeOK
  <2>4. (p \notin X) /\ \A q \in Callers \ {p} : q \in X <=> q \in holders[c]
    BY <2>2, <1>0
  <2>5. NoLeakedReference'
    BY <2>1, <2>2, <2>4, OwnReference DEF HolderInv, TypeOK
  <2> QED
    BY <2>3, <2>5
<1> QED
  BY <1>1, <1>2, <1>3 DEF CallerStep

(* A task's step leaves the references alone and never un-spawns a task.   *)
LEMMA TaskStepFrame ==
  ASSUME TypeOK, NEW c \in Conns, DialStep(c) \/ StreamStep(c)
  PROVE  /\ UNCHANGED <<callerVars, aborting, delivered>>
         /\ Running(c)
         /\ \E step \in TaskStates \ {"none"} : task' = [task EXCEPT ![c] = step]
<1> USE DEF Goto, End, stopVars, taskVars, itemVars, TaskStates, Running
<1>1. CASE DialStep(c)
  BY <1>1 DEF DialStep, TopShutdown, Dial, DialInvalid, DialFails, DialFailed, GiveUp,
              DialAccepted, HandshakeFailed, HandshakeDone, BackoffElapsed, BackoffShutdown
<1>2. CASE StreamLost(c) \/ SendResponseFailed(c) \/ StreamShutdown(c) \/ StreamClosed(c)
           \/ Aborted(c) \/ ForwardDone(c)
  BY <1>2 DEF StreamLost, SendResponseFailed, StreamShutdown, StreamClosed, Aborted, ForwardDone
<1>3. CASE (\E r \in Replies : Frame(c, r)) \/ (\E n \in Batches : Decoded(c, n))
  BY <1>3 DEF Frame, Decoded
<1>4. CASE SendResponse(c) \/ PushReply(c) \/ Forward(c)
  <2>1. task' = task /\ task[c] \in {"stream", "decoding", "forwarding"}
    BY <1>4 DEF SendResponse, PushReply, Forward
  <2>2. task' = [task EXCEPT ![c] = task[c]]
    BY <2>1 DEF TypeOK, TaskTypes
  <2> QED
    BY <1>4, <2>1, <2>2 DEF SendResponse, PushReply, Forward
<1> QED
  BY <1>1, <1>2, <1>3, <1>4 DEF StreamStep

LEMMA HolderStep == HolderInv /\ [Next]_vars => HolderInv'
<1> SUFFICES ASSUME HolderInv, [Next]_vars PROVE HolderInv'
  OBVIOUS
<1>1. ASSUME NEW p \in Callers, CallerStep(p) PROVE HolderInv'
  BY <1>1, TypeCallerStep, HolderCallerStep DEF HolderInv
<1>2. ASSUME NEW c \in Conns, DialStep(c) \/ StreamStep(c) PROVE HolderInv'
  <2>1. TypeOK'
    BY <1>2, TypeTaskStep DEF HolderInv
  <2>2. TargetInv' /\ NoLeakedReference'
    BY <1>2, TaskStepFrame
    DEF HolderInv, TypeOK, TaskTypes, TargetInv, NoLeakedReference, callerVars
  <2> QED
    BY <2>1, <2>2 DEF HolderInv
<1>3. CASE UNCHANGED vars
  BY <1>3 DEF HolderInv, TypeOK, CallerTypes, TaskTypes, ItemTypes, TargetInv, NoLeakedReference, vars, callerVars, stopVars,
              taskVars, replyVars, itemVars
<1> QED
  BY <1>1, <1>2, <1>3 DEF Next

LEMMA HolderInvariant == Spec => []HolderInv
BY HolderInit, HolderStep, PTL DEF Spec

(* Every variable keeps its type: in particular permits never goes below    *)
(* zero and every queue holds item numbers.                                *)
THEOREM TypeCorrect == Spec => []TypeOK
<1>1. HolderInv => TypeOK
  BY DEF HolderInv
<1> QED
  BY <1>1, HolderInvariant, PTL

(* Whatever the interleaving, failure or cancellation, a caller holds a     *)
(* reference to a connection's state exactly while it works on it.         *)
THEOREM ReferencesReturned == Spec => []NoLeakedReference
<1>1. HolderInv => NoLeakedReference
  BY DEF HolderInv
<1> QED
  BY <1>1, HolderInvariant, PTL

-----------------------------------------------------------------------------
(* Permits and tasks.                                                      *)

(* What a caller's step does to the state it works on: it creates the state *)
(* with a permit, keeps it alive, or drops it, gives the permit back and    *)
(* aborts the task.                                                        *)
Creates(c, X) ==
  /\ holders[c] = {} /\ X # {}
  /\ permits > 0 /\ permits' = permits - 1
  /\ task[c] = "none" /\ task'[c] = "top"
  /\ aborting' = aborting

Keeps(c, X) ==
  /\ holders[c] # {} /\ X # {}
  /\ permits' = permits
  /\ task' = task
  /\ aborting[c] => aborting'[c]

Drops(c, X) ==
  /\ holders[c] # {} /\ X = {}
  /\ permits' = permits + 1
  /\ task' = task
  /\ aborting'[c]

Touches(c, X) ==
  /\ holders' = [holders EXCEPT ![c] = X]
  /\ \A d \in Conns \ {c} : aborting'[d] = aborting[d] /\ task'[d] = task[d]
  /\ Creates(c, X) \/ Keeps(c, X) \/ Drops(c, X)

LEMMA ReleaseTouches ==
  ASSUME HolderInv, NEW p \in Callers, NEW c \in Conns, NEW H, p \in holders[c],
         Release(c, H, shutdown[c]), task' = task
  PROVE  Touches(c, holders[c] \ H)
<1>1. aborting' = [aborting EXCEPT ![c] = aborting[c] \/ holders[c] \subseteq H]
  BY DEF Release
<1>2. aborting'[c] <=> (aborting[c] \/ holders[c] \subseteq H)
  BY <1>1, Zenon DEF HolderInv, TypeOK, CallerTypes
<1>3. \A d \in Conns \ {c} : aborting'[d] = aborting[d]
  BY <1>1 DEF HolderInv, TypeOK, CallerTypes
<1>4. (holders[c] \ H = {}) <=> (holders[c] \subseteq H)
  OBVIOUS
<1> QED
  BY <1>2, <1>3, <1>4 DEF Release, Touches, Keeps, Drops

LEMMA CallerTouches ==
  ASSUME HolderInv, NEW p \in Callers, CallerStep(p)
  PROVE  \E c \in Conns : \E X : Touches(c, X)
<1>1. CASE \E c \in Conns : Connect(p, c) \/ Receive(p, c) \/ Disconnect(p, c)
  <2> PICK c \in Conns : Connect(p, c) \/ Receive(p, c) \/ Disconnect(p, c)
    BY <1>1
  <2>1. CASE Connect(p, c)
    <3>1. Touches(c, {p})
      BY <2>1 DEF Connect, Touches, Creates, HolderInv, TypeOK, TaskTypes, TargetInv, stopVars
    <3> QED
      BY <3>1
  <2>2. CASE Receive(p, c)
    <3>1. Touches(c, holders[c] \union {p})
      BY <2>2 DEF Receive, Connections, Touches, Keeps, stopVars, taskVars
    <3> QED
      BY <3>1
  <2>3. CASE Disconnect(p, c)
    <3>1. Touches(c, (holders[c] \ {"map"}) \union {p})
      BY <2>3 DEF Disconnect, Connections, Touches, Keeps, stopVars, taskVars
    <3> QED
      BY <3>1
  <2> QED
    BY <2>1, <2>2, <2>3
<1>2. CASE ~ \E c \in Conns : Connect(p, c) \/ Receive(p, c) \/ Disconnect(p, c)
  <2>1. pc[p] # "idle"
    BY <1>2 DEF CallerStep, ConnectInsert, ReceiveItem, ReceiveTimeout, ReceiveClosed,
                ReceiveRemove, DisconnectShutdown, Cancel
  <2> PICK c \in Conns : c = target[p] /\ p \in holders[c]
    BY <2>1 DEF HolderInv, TargetInv, NoLeakedReference
  <2>2. CASE ConnectInsert(p)
    <3>1. Touches(c, (holders[c] \ {p}) \union {"map"})
      BY <2>2 DEF ConnectInsert, Touches, Keeps, stopVars, taskVars
    <3> QED
      BY <3>1
  <2>3. CASE ReceiveClosed(p)
    <3>1. Touches(c, holders[c])
      BY <2>3 DEF ReceiveClosed, Touches, Keeps, stopVars, taskVars, HolderInv, TypeOK, CallerTypes
    <3> QED
      BY <3>1
  <2>4. CASE DisconnectShutdown(p)
    <3>1. Touches(c, holders[c] \ {p})
      BY <2>4 DEF DisconnectShutdown, Touches, Keeps, Drops, taskVars, HolderInv, TypeOK,
                  CallerTypes
    <3> QED
      BY <3>1
  <2>5. CASE ReceiveItem(p) \/ ReceiveTimeout(p) \/ Cancel(p)
    <3>1. Release(c, {p}, shutdown[c]) /\ task' = task
      BY <2>5 DEF ReceiveItem, ReceiveTimeout, Cancel, taskVars
    <3> QED
      BY <3>1, ReleaseTouches
  <2>6. CASE ReceiveRemove(p)
    <3>1. Release(c, {p, "map"}, shutdown[c]) /\ task' = task
      BY <2>6 DEF ReceiveRemove, taskVars
    <3> QED
      BY <3>1, ReleaseTouches
  <2> QED
    BY <1>2, <2>2, <2>3, <2>4, <2>5, <2>6 DEF CallerStep
<1> QED
  BY <1>1, <1>2

LEMMA PermitStep ==
  ASSUME HolderInv, PermitsAccounted, NEW c \in Conns, NEW X, Touches(c, X)
  PROVE  PermitsAccounted'
<1>1. IsFiniteSet(Live)
  BY ConstantsAssumption, FS_Subset DEF Live
<1>2. permits \in Nat /\ Cardinality(Live) \in Nat
  BY <1>1, FS_CardinalityType DEF HolderInv, TypeOK, CallerTypes
<1>3. \A d \in Conns : holders'[d] = IF d = c THEN X ELSE holders[d]
  BY DEF Touches, HolderInv, TypeOK, CallerTypes
<1>4. CASE Creates(c, X)
  <2>1. Live' = Live \union {c} /\ c \notin Live
    BY <1>3, <1>4 DEF Live, Creates
  <2>2. Cardinality(Live') = Cardinality(Live) + 1
    BY <1>1, <2>1, FS_AddElement
  <2> QED
    BY <1>2, <1>4, <2>2 DEF PermitsAccounted, Creates
<1>5. CASE Keeps(c, X)
  <2>1. Live' = Live
    BY <1>3, <1>5 DEF Live, Keeps
  <2> QED
    BY <1>5, <2>1 DEF PermitsAccounted, Keeps
<1>6. CASE Drops(c, X)
  <2>1. Live' = Live \ {c} /\ c \in Live
    BY <1>3, <1>6 DEF Live, Drops
  <2>2. Cardinality(Live') = Cardinality(Live) - 1
    BY <1>1, <2>1, FS_RemoveElement
  <2> QED
    BY <1>2, <1>6, <2>2 DEF PermitsAccounted, Drops
<1> QED
  BY <1>4, <1>5, <1>6 DEF Touches

(* Permits in use are exactly the connections still held: for any limit and *)
(* any number of callers, permits are neither lost nor duplicated.          *)
THEOREM PermitsNeverLeak == Spec => []PermitsAccounted
<1>1. Init => PermitsAccounted
  <2> SUFFICES ASSUME Init PROVE PermitsAccounted
    OBVIOUS
  <2>1. Live = {}
    BY DEF Init, Live
  <2> QED
    BY <2>1, FS_EmptySet, ConstantsAssumption DEF Init, PermitsAccounted
<1>2. HolderInv /\ PermitsAccounted /\ [Next]_vars => PermitsAccounted'
  <2> SUFFICES ASSUME HolderInv, PermitsAccounted, [Next]_vars PROVE PermitsAccounted'
    OBVIOUS
  <2>1. ASSUME NEW p \in Callers, CallerStep(p) PROVE PermitsAccounted'
    BY <2>1, CallerTouches, PermitStep
  <2>2. ASSUME NEW c \in Conns, DialStep(c) \/ StreamStep(c) PROVE PermitsAccounted'
    BY <2>2, TaskStepFrame DEF HolderInv, PermitsAccounted, Live, callerVars
  <2>3. CASE UNCHANGED vars
    BY <2>3 DEF PermitsAccounted, Live, vars, callerVars
  <2> QED
    BY <2>1, <2>2, <2>3 DEF Next
<1> QED
  BY <1>1, <1>2, HolderInvariant, PTL DEF Spec

(* A management task whose state nobody holds has been told to abort.       *)
THEOREM TasksNeverRunAway == Spec => []NoRunawayTask
<1>1. Init => NoRunawayTask
  BY DEF Init, NoRunawayTask, Running
<1>2. HolderInv /\ NoRunawayTask /\ [Next]_vars => NoRunawayTask'
  <2> SUFFICES ASSUME HolderInv, NoRunawayTask, [Next]_vars PROVE NoRunawayTask'
    OBVIOUS
  <2>1. ASSUME NEW p \in Callers, CallerStep(p) PROVE NoRunawayTask'
    <3> PICK c \in Conns : \E X : Touches(c, X)
      BY <2>1, CallerTouches
    <3> PICK X : Touches(c, X)
      OBVIOUS
    <3>1. \A d \in Conns : holders'[d] = IF d = c THEN X ELSE holders[d]
      BY DEF Touches, HolderInv, TypeOK, CallerTypes
    <3>2. ASSUME NEW d \in Conns, Running(d)', d \notin Live' PROVE aborting'[d]
      <4>1. CASE d = c
        BY <3>1, <3>2, <4>1 DEF Touches, Creates, Keeps, Drops, Live
      <4>2. CASE d # c
        BY <3>1, <3>2, <4>2 DEF Touches, Running, NoRunawayTask, Live
      <4> QED
        BY <4>1, <4>2
    <3> QED
      BY <3>2 DEF NoRunawayTask
  <2>2. ASSUME NEW c \in Conns, DialStep(c) \/ StreamStep(c) PROVE NoRunawayTask'
    BY <2>2, TaskStepFrame
    DEF HolderInv, TypeOK, TaskTypes, NoRunawayTask, Running, Live, callerVars
  <2>3. CASE UNCHANGED vars
    BY <2>3 DEF NoRunawayTask, Running, Live, vars, callerVars, stopVars, taskVars
  <2> QED
    BY <2>1, <2>2, <2>3 DEF Next
<1> QED
  BY <1>1, <1>2, HolderInvariant, PTL DEF Spec

-----------------------------------------------------------------------------
(* Order and completeness of delivery.                                     *)

(* The three places an item can be, end to end: every index tells which     *)
(* item stands there.                                                      *)
Numbered(s, from) == \A i \in 1..Len(s) : s[i] = from + i

InFlight(c) == Len(delivered[c]) + Len(queue[c]) + Len(pending[c])

OrderOf(c) ==
  /\ Numbered(delivered[c], 0)
  /\ c \in Live =>
       /\ Numbered(queue[c], Len(delivered[c]))
       /\ Numbered(pending[c], Len(delivered[c]) + Len(queue[c]))
       /\ task[c] # "ended" \/ ~aborting[c] => InFlight(c) = produced[c]
  /\ task[c] # "forwarding" => pending[c] = <<>>
  /\ task[c] = "none" =>
       queue[c] = <<>> /\ delivered[c] = <<>> /\ produced[c] = 0 /\ ~aborting[c]

(* DeliveredInOrder is not inductive: it says nothing of where the items    *)
(* stand, nor that nothing is pending while the task reads the stream.      *)
OrderInv == \A c \in Conns : OrderOf(c)

-----------------------------------------------------------------------------
LEMMA EmptyNumbered ==
  ASSUME NEW n \in Nat
  PROVE  Len(<<>>) = 0 /\ Numbered(<<>>, n)
BY DEF Numbered

LEMMA LengthSums ==
  ASSUME NEW m \in Nat, NEW n \in Nat
  PROVE  m + n \in Nat /\ m + n + 0 = m + n
OBVIOUS

LEMMA BatchNumbered ==
  ASSUME NEW m \in Nat, NEW n \in Nat
  PROVE  LET s == [i \in 1..n |-> m + i]
         IN  s \in Items /\ Len(s) = n /\ Numbered(s, m)
<1> DEFINE s == [i \in 1..n |-> m + i]
<1>1. s \in Items
  BY BatchIsItems
<1>2. Len(s) = n
  BY SMT
<1>3. \A i \in 1..n : s[i] = m + i
  OBVIOUS
<1> QED
  BY <1>1, <1>2, <1>3 DEF Numbered

(* Moving the head of one sequence to the end of the one before it keeps    *)
(* the numbering.                                                          *)
LEMMA MoveNumbered ==
  ASSUME NEW s \in Items, NEW t \in Items, s # <<>>, NEW n \in Nat,
         Numbered(t, n), Numbered(s, n + Len(t))
  PROVE  /\ Tail(s) \in Items /\ Append(t, Head(s)) \in Items
         /\ Len(Tail(s)) = Len(s) - 1 /\ Len(Append(t, Head(s))) = Len(t) + 1
         /\ Len(s) \in Nat \ {0} /\ Len(t) \in Nat
         /\ Numbered(Append(t, Head(s)), n)
         /\ Numbered(Tail(s), n + Len(t) + 1)
<1> USE DEF Items
<1>1. Len(s) \in Nat \ {0} /\ Len(t) \in Nat
  BY EmptySeq, LenProperties
<1>2. Head(s) = s[1] /\ Head(s) \in Nat
  BY HeadTailProperties
<1>3. Head(s) = n + Len(t) + 1
  BY <1>1, <1>2 DEF Numbered
<1>4. Tail(s) \in Items /\ Len(Tail(s)) = Len(s) - 1
      /\ \A i \in 1..Len(Tail(s)) : Tail(s)[i] = s[i + 1]
  BY HeadTailProperties
<1>5. Append(t, Head(s)) \in Items /\ Len(Append(t, Head(s))) = Len(t) + 1
      /\ (\A i \in 1..Len(t) : Append(t, Head(s))[i] = t[i])
      /\ Append(t, Head(s))[Len(t) + 1] = Head(s)
  BY <1>2, AppendProperties
<1>6. Numbered(Append(t, Head(s)), n)
  <2> SUFFICES ASSUME NEW i \in 1..(Len(t) + 1) PROVE Append(t, Head(s))[i] = n + i
    BY <1>5 DEF Numbered
  <2>1. CASE i \in 1..Len(t)
    BY <1>5, <2>1 DEF Numbered
  <2>2. CASE i = Len(t) + 1
    BY <1>1, <1>3, <1>5, <2>2
  <2> QED
    BY <1>1, <2>1, <2>2, SMTT(30)
<1>7. Numbered(Tail(s), n + Len(t) + 1)
  <2> SUFFICES ASSUME NEW i \in 1..(Len(s) - 1) PROVE Tail(s)[i] = n + Len(t) + 1 + i
    BY <1>4 DEF Numbered
  <2>1. Tail(s)[i] = s[i + 1] /\ i + 1 \in 1..Len(s)
    BY <1>1, <1>4
  <2> QED
    BY <1>1, <2>1 DEF Numbered
<1> QED
  BY <1>1, <1>4, <1>5, <1>6, <1>7

-----------------------------------------------------------------------------
LEMMA OrderInit == Init => OrderInv
BY EmptyNumbered DEF Init, OrderInv, OrderOf, Live

(* A connection whose items, task and flags do not change keeps its order,  *)
(* as does one whose state is dropped.                                     *)
LEMMA OrderKept ==
  ASSUME HolderInv, NEW c \in Conns, OrderOf(c),
         delivered'[c] = delivered[c], produced'[c] = produced[c], pending'[c] = pending[c],
         task'[c] = task[c] \/ (task[c] = "none" /\ task'[c] = "top"),
         aborting[c] => aborting'[c],
         task[c] = "none" /\ ~aborting[c] => ~aborting'[c],
         c \in Live' => queue'[c] = queue[c] /\ (c \in Live \/ task[c] = "none"),
         task[c] = "none" => queue'[c] = queue[c]
  PROVE  OrderOf(c)'
<1>1. CASE task[c] = "none"
  <2>1. /\ delivered'[c] = <<>> /\ queue'[c] = <<>> /\ pending'[c] = <<>> /\ produced'[c] = 0
        /\ task'[c] \in {"none", "top"} /\ ~aborting'[c]
    BY <1>1 DEF OrderOf
  <2>2. Len(<<>>) = 0 /\ Numbered(<<>>, 0)
    BY EmptyNumbered
  <2> QED
    BY <2>1, <2>2 DEF OrderOf, InFlight
<1>2. CASE task[c] # "none"
  BY <1>2 DEF OrderOf, InFlight
<1> QED
  BY <1>1, <1>2

(* receive's pop: the head of the channel becomes the last delivered item.  *)
LEMMA OrderReceiveItem ==
  ASSUME HolderInv, OrderInv, NEW p \in Callers, ReceiveItem(p)
  PROVE  OrderInv'
<1> PICK c \in Conns : c = target[p] /\ p \in holders[c] /\ task[c] # "none"
  BY DEF ReceiveItem, HolderInv, TargetInv, NoLeakedReference
<1>1. c \in Live /\ queue[c] # <<>>
  BY DEF ReceiveItem, Live
<1>2. queue[c] \in Items /\ delivered[c] \in Items /\ pending[c] \in Items /\ produced[c] \in Nat
  BY DEF HolderInv, TypeOK, ItemTypes
<1>3. Numbered(delivered[c], 0) /\ Numbered(queue[c], 0 + Len(delivered[c]))
  <2>1. Len(delivered[c]) \in Nat
    BY <1>2, LenProperties DEF Items
  <2>2. 0 + Len(delivered[c]) = Len(delivered[c])
    BY <2>1
  <2> QED
    BY <1>1, <2>2 DEF OrderInv, OrderOf
<1>4. delivered'[c] = Append(delivered[c], Head(queue[c]))
  BY DEF ReceiveItem, HolderInv, TypeOK, ItemTypes
<1>5. c \in Live' => queue'[c] = Tail(queue[c])
  BY DEF ReceiveItem, KeepUnlessDropped, Release, Live, HolderInv, TypeOK, ItemTypes, CallerTypes
<1>6. pending' = pending /\ produced' = produced /\ task' = task
  BY DEF ReceiveItem, taskVars
<1>7. aborting[c] => aborting'[c]
  <2>1. aborting' = [aborting EXCEPT ![c] = aborting[c] \/ holders[c] \subseteq {p}]
    BY DEF ReceiveItem, Release
  <2> QED
    BY <2>1, Zenon DEF HolderInv, TypeOK, CallerTypes
<1>8. /\ Numbered(delivered'[c], 0)
      /\ Numbered(Tail(queue[c]), Len(delivered'[c]))
      /\ Len(delivered'[c]) + Len(Tail(queue[c])) = Len(delivered[c]) + Len(queue[c])
  <2> DEFINE D == delivered[c]
             Q == queue[c]
  <2>1. D \in Items /\ Q \in Items /\ Q # <<>> /\ Numbered(D, 0) /\ Numbered(Q, 0 + Len(D))
    BY <1>1, <1>2, <1>3
  <2> HIDE DEF D, Q
  <2>2. /\ Len(Tail(Q)) = Len(Q) - 1 /\ Len(Append(D, Head(Q))) = Len(D) + 1
        /\ Len(Q) \in Nat \ {0} /\ Len(D) \in Nat
        /\ Numbered(Append(D, Head(Q)), 0) /\ Numbered(Tail(Q), 0 + Len(D) + 1)
    BY <2>1, MoveNumbered
  <2>3. 0 + Len(D) + 1 = Len(Append(D, Head(Q)))
        /\ Len(Append(D, Head(Q))) + Len(Tail(Q)) = Len(D) + Len(Q)
    BY <2>2
  <2> QED
    BY <1>4, <2>2, <2>3 DEF D, Q
<1>9. OrderOf(c)'
  BY <1>1, <1>5, <1>6, <1>7, <1>8, ZenonT(40) DEF OrderInv, OrderOf, InFlight
<1>10. ASSUME NEW d \in Conns, d # c PROVE OrderOf(d)'
  <2>1. /\ delivered'[d] = delivered[d] /\ queue'[d] = queue[d]
        /\ aborting'[d] = aborting[d] /\ (d \in Live' <=> d \in Live)
    BY <1>10 DEF ReceiveItem, KeepUnlessDropped, Release, Live, HolderInv, TypeOK, CallerTypes,
                 ItemTypes
  <2> QED
    BY <1>6, <2>1, OrderKept DEF OrderInv
<1> QED
  BY <1>9, <1>10 DEF OrderInv

(* Every other step of a caller leaves the items alone, except that the      *)
(* channel goes with the state.                                            *)
LEMMA OtherCallerItems ==
  ASSUME HolderInv, NEW p \in Callers, CallerStep(p), ~ReceiveItem(p)
  PROVE  /\ delivered' = delivered /\ produced' = produced /\ pending' = pending
         /\ \A d \in Conns : d \in Live' \/ task[d] = "none" => queue'[d] = queue[d]
<1>1. delivered' = delivered /\ produced' = produced /\ pending' = pending
  BY DEF CallerStep, Connect, Receive, Disconnect, ConnectInsert, ReceiveTimeout, ReceiveClosed,
         ReceiveRemove, DisconnectShutdown, Cancel, itemVars
<1>2. CASE queue' = queue
  BY <1>1, <1>2
<1>3. CASE ReceiveTimeout(p) \/ ReceiveRemove(p) \/ DisconnectShutdown(p) \/ Cancel(p)
  <2> PICK c \in Conns : c = target[p] /\ task[c] # "none"
    BY <1>3 DEF ReceiveTimeout, ReceiveRemove, DisconnectShutdown, Cancel, HolderInv, TargetInv
  <2>1. PICK H : KeepUnlessDropped(c, H, queue[c]) /\ holders' = [holders EXCEPT ![c] = @ \ H]
    BY <1>3 DEF ReceiveTimeout, ReceiveRemove, DisconnectShutdown, Cancel, Release
  <2>2. holders[c] \subseteq H => c \notin Live'
    BY <2>1 DEF Live, HolderInv, TypeOK, CallerTypes
  <2>3. \A d \in Conns : d # c \/ ~(holders[c] \subseteq H) => queue'[d] = queue[d]
    BY <2>1 DEF KeepUnlessDropped, HolderInv, TypeOK, ItemTypes
  <2> QED
    BY <1>1, <2>2, <2>3
<1> QED
  BY <1>2, <1>3 DEF CallerStep, Connect, Receive, Disconnect, ConnectInsert, ReceiveClosed, itemVars

LEMMA OrderCallerStep ==
  ASSUME HolderInv, OrderInv, NEW p \in Callers, CallerStep(p), ~ReceiveItem(p)
  PROVE  OrderInv'
<1>0. PICK c \in Conns : \E X : Touches(c, X)
  BY CallerTouches
<1>1. PICK X : Touches(c, X)
  BY <1>0
<1>2. \A d \in Conns : holders'[d] = IF d = c THEN X ELSE holders[d]
  BY <1>1 DEF Touches, HolderInv, TypeOK, CallerTypes
<1>3. ASSUME NEW d \in Conns
      PROVE  /\ task'[d] = task[d] \/ (task[d] = "none" /\ task'[d] = "top")
             /\ aborting[d] => aborting'[d]
             /\ task[d] = "none" /\ ~aborting[d] => ~aborting'[d]
             /\ d \in Live' => d \in Live \/ task[d] = "none"
  <2>1. CASE d # c
    BY <1>1, <1>2, <2>1 DEF Touches, Live
  <2>2. CASE d = c
    BY <1>1, <1>2, <2>2 DEF Touches, Creates, Keeps, Drops, Live, HolderInv, TargetInv
  <2> QED
    BY <2>1, <2>2
<1>4. ASSUME NEW d \in Conns PROVE OrderOf(d)'
  BY <1>3, <1>4, OtherCallerItems, OrderKept DEF OrderInv
<1> QED
  BY <1>4 DEF OrderInv

-----------------------------------------------------------------------------
(* The task's side: a step changes the items of its own connection only.    *)
LEMMA TaskStepItems ==
  ASSUME TypeOK, NEW c \in Conns, DialStep(c) \/ StreamStep(c)
  PROVE  \A d \in Conns \ {c} :
           /\ queue'[d] = queue[d] /\ pending'[d] = pending[d] /\ produced'[d] = produced[d]
           /\ task'[d] = task[d]
<1> USE DEF Goto, End, taskVars, itemVars, TypeOK, TaskTypes, ItemTypes
<1>1. CASE DialStep(c)
  BY <1>1 DEF DialStep, TopShutdown, Dial, DialInvalid, DialFails, DialFailed, GiveUp,
              DialAccepted, HandshakeFailed, HandshakeDone, BackoffElapsed, BackoffShutdown
<1>2. CASE StreamLost(c) \/ SendResponseFailed(c) \/ StreamShutdown(c) \/ StreamClosed(c)
           \/ Aborted(c) \/ ForwardDone(c)
  BY <1>2 DEF StreamLost, SendResponseFailed, StreamShutdown, StreamClosed, Aborted, ForwardDone
<1>3. CASE (\E r \in Replies : Frame(c, r)) \/ (\E n \in Batches : Decoded(c, n))
  BY <1>3 DEF Frame, Decoded
<1>4. CASE SendResponse(c) \/ PushReply(c) \/ Forward(c)
  BY <1>4 DEF SendResponse, PushReply, Forward
<1> QED
  BY <1>1, <1>2, <1>3, <1>4 DEF StreamStep

(* A step that neither decodes nor forwards keeps the items, or ends the    *)
(* task: then nothing was pending, or it was aborted.                      *)
LEMMA OrderQuietStep ==
  ASSUME HolderInv, NEW c \in Conns, OrderOf(c), DialStep(c) \/ StreamStep(c),
         ~(\E n \in Batches : Decoded(c, n)), ~Forward(c)
  PROVE  OrderOf(c)'
<1>1. /\ UNCHANGED <<holders, aborting, delivered>>
      /\ task'[c] # "none" /\ task[c] \notin {"none", "ended"}
  BY TaskStepFrame DEF HolderInv, TypeOK, TaskTypes, callerVars, Running
<1>2. queue' = queue /\ produced' = produced
  BY DEF DialStep, StreamStep, TopShutdown, Dial, DialInvalid, DialFailed, GiveUp, DialAccepted,
         HandshakeFailed, HandshakeDone, BackoffElapsed, BackoffShutdown, StreamLost, SendResponse,
         SendResponseFailed, Frame, PushReply, ForwardDone, StreamShutdown, StreamClosed, Aborted,
         itemVars
<1>3. \/ pending'[c] = pending[c] /\ (task[c] # "forwarding")
      \/ pending'[c] = <<>> /\ task'[c] = "ended" /\ aborting[c]
      \/ pending'[c] = <<>> /\ task[c] # "forwarding"
      \/ pending'[c] = <<>> /\ (c \in Live => pending[c] = <<>>)
  <2> USE DEF Goto, End, itemVars, HolderInv, TypeOK, TaskTypes, ItemTypes
  <2>1. CASE DialStep(c)
    BY <2>1 DEF DialStep, TopShutdown, Dial, DialInvalid, DialFails, DialFailed, GiveUp,
                DialAccepted, HandshakeFailed, HandshakeDone, BackoffElapsed, BackoffShutdown
  <2>2. CASE StreamLost(c) \/ SendResponseFailed(c) \/ StreamShutdown(c) \/ StreamClosed(c)
             \/ SendResponse(c) \/ PushReply(c) \/ (\E r \in Replies : Frame(c, r))
    BY <2>2 DEF StreamLost, SendResponseFailed, StreamShutdown, StreamClosed, SendResponse,
                PushReply, Frame
  <2>3. CASE Aborted(c) \/ ForwardDone(c)
    BY <2>3 DEF Aborted, ForwardDone
  <2> QED
    BY <2>1, <2>2, <2>3 DEF StreamStep
<1>4. pending[c] = <<>> \/ task[c] = "forwarding"
  BY DEF OrderOf
<1>5. c \in Live' <=> c \in Live
  BY <1>1 DEF Live
<1>6. queue[c] \in Items /\ delivered[c] \in Items /\ pending[c] \in Items
  BY DEF HolderInv, TypeOK, ItemTypes
<1>7. Len(queue[c]) \in Nat /\ Len(delivered[c]) \in Nat /\ Len(pending[c]) \in Nat
  BY <1>6, LenProperties DEF Items
<1>8. Len(<<>>) = 0 /\ Numbered(<<>>, Len(delivered[c]) + Len(queue[c]))
  <2>1. Len(delivered[c]) + Len(queue[c]) \in Nat
    BY <1>7, LengthSums, Zenon
  <2> QED
    BY <2>1, EmptyNumbered, Zenon
<1>9. pending'[c] = <<>>
  BY <1>3, <1>4
<1>10. c \in Live => pending[c] = <<>> \/ (task'[c] = "ended" /\ aborting[c])
  BY <1>3, <1>4
<1> QED
  BY <1>1, <1>2, <1>5, <1>8, <1>9, <1>10 DEF OrderOf, InFlight

LEMMA OrderDecoded ==
  ASSUME HolderInv, NEW c \in Conns, OrderOf(c), NEW n \in Batches, Decoded(c, n)
  PROVE  OrderOf(c)'
<1>1. n \in Nat /\ produced[c] \in Nat /\ queue[c] \in Items /\ delivered[c] \in Items
  BY ConstantsAssumption DEF HolderInv, TypeOK, ItemTypes
<1>2. Len(queue[c]) \in Nat /\ Len(delivered[c]) \in Nat
  BY <1>1, LenProperties DEF Items
<1>3. /\ pending'[c] = [i \in 1..n |-> produced[c] + i] /\ produced'[c] = produced[c] + n
      /\ task[c] = "decoding" /\ task'[c] = "forwarding"
      /\ UNCHANGED <<holders, aborting, queue, delivered>>
  BY DEF Decoded, Goto, callerVars, stopVars, HolderInv, TypeOK, TaskTypes, ItemTypes
<1>4. Len(pending'[c]) = n /\ Numbered(pending'[c], produced[c])
  BY <1>1, <1>3, BatchNumbered
<1>5. pending[c] = <<>> /\ Len(pending[c]) = 0
  BY <1>3, EmptyNumbered DEF OrderOf
<1>6. c \in Live => Len(delivered[c]) + Len(queue[c]) = produced[c]
  <2>1. c \in Live => InFlight(c) = produced[c]
    BY <1>3 DEF OrderOf
  <2>2. InFlight(c) = Len(delivered[c]) + Len(queue[c]) + 0
    BY <1>5 DEF InFlight
  <2> QED
    BY <1>2, <2>1, <2>2, LengthSums, Zenon
<1>7. c \in Live' <=> c \in Live
  BY <1>3 DEF Live
<1> QED
  BY <1>3, <1>4, <1>6, <1>7 DEF OrderOf, InFlight

LEMMA OrderForward ==
  ASSUME HolderInv, NEW c \in Conns, OrderOf(c), Forward(c)
  PROVE  OrderOf(c)'
<1>1. queue[c] \in Items /\ delivered[c] \in Items /\ pending[c] \in Items /\ pending[c] # <<>>
  BY DEF Forward, HolderInv, TypeOK, ItemTypes
<1>2. Len(delivered[c]) \in Nat
  BY <1>1, LenProperties DEF Items
<1>3. /\ queue'[c] = Append(queue[c], Head(pending[c])) /\ pending'[c] = Tail(pending[c])
      /\ c \in Live /\ task[c] = "forwarding"
      /\ UNCHANGED <<holders, aborting, task, delivered, produced>>
  BY DEF Forward, callerVars, stopVars, taskVars, HolderInv, TypeOK, ItemTypes
<1>4. Numbered(queue[c], Len(delivered[c])) /\ Numbered(pending[c], Len(delivered[c]) + Len(queue[c]))
  BY <1>3 DEF OrderOf
<1>5. /\ Numbered(queue'[c], Len(delivered[c]))
      /\ Numbered(pending'[c], Len(delivered[c]) + Len(queue'[c]))
      /\ Len(delivered[c]) + Len(queue'[c]) + Len(pending'[c]) = InFlight(c)
  <2> DEFINE D == Len(delivered[c])
             Q == queue[c]
             P == pending[c]
  <2>1. D \in Nat /\ Q \in Items /\ P \in Items /\ P # <<>> /\ Numbered(Q, D) /\ Numbered(P, D + Len(Q))
    BY <1>1, <1>2, <1>4
  <2>2. InFlight(c) = D + Len(Q) + Len(P)
    BY DEF InFlight
  <2>3. queue'[c] = Append(Q, Head(P)) /\ pending'[c] = Tail(P)
    BY <1>3
  <2> HIDE DEF D, Q, P
  <2>4. /\ Len(Tail(P)) = Len(P) - 1 /\ Len(Append(Q, Head(P))) = Len(Q) + 1
        /\ Len(P) \in Nat \ {0} /\ Len(Q) \in Nat
        /\ Numbered(Append(Q, Head(P)), D) /\ Numbered(Tail(P), D + Len(Q) + 1)
    BY <2>1, MoveNumbered
  <2>5. /\ D + Len(Append(Q, Head(P))) = D + Len(Q) + 1
        /\ D + Len(Append(Q, Head(P))) + Len(Tail(P)) = D + Len(Q) + Len(P)
    BY <2>1, <2>4
  <2> QED
    BY <2>2, <2>3, <2>4, <2>5 DEF D
<1>7. c \in Live'
  BY <1>3 DEF Live
<1> QED
  BY <1>3, <1>5, <1>7 DEF OrderOf, InFlight

LEMMA OrderTaskStep ==
  ASSUME HolderInv, OrderInv, NEW c \in Conns, DialStep(c) \/ StreamStep(c)
  PROVE  OrderInv'
<1>1. OrderOf(c)'
  BY OrderQuietStep, OrderDecoded, OrderForward DEF OrderInv
<1>2. ASSUME NEW d \in Conns \ {c} PROVE OrderOf(d)'
  BY TaskStepItems, TaskStepFrame DEF OrderInv, OrderOf, InFlight, Live, HolderInv, callerVars
<1> QED
  BY <1>1, <1>2 DEF OrderInv

-----------------------------------------------------------------------------
LEMMA OrderInvariant == Spec => [](HolderInv /\ OrderInv)
<1>1. HolderInv /\ OrderInv /\ [Next]_vars => OrderInv'
  <2> SUFFICES ASSUME HolderInv, OrderInv, [Next]_vars PROVE OrderInv'
    OBVIOUS
  <2>1. ASSUME NEW p \in Callers, CallerStep(p) PROVE OrderInv'
    BY <2>1, OrderReceiveItem, OrderCallerStep
  <2>2. ASSUME NEW c \in Conns, DialStep(c) \/ StreamStep(c) PROVE OrderInv'
    BY <2>2, OrderTaskStep
  <2>3. CASE UNCHANGED vars
    BY <2>3 DEF OrderInv, OrderOf, InFlight, Live, vars, callerVars, stopVars, taskVars, itemVars
  <2> QED
    BY <2>1, <2>2, <2>3 DEF Next
<1> QED
  BY <1>1, OrderInit, HolderInvariant, PTL DEF Spec

-----------------------------------------------------------------------------
LEMMA NumberedIsUpto ==
  ASSUME NEW s \in Items, Numbered(s, 0)
  PROVE  s = Upto(Len(s))
<1>1. Len(s) \in Nat /\ DOMAIN s = 1..Len(s) /\ s \in [1..Len(s) -> Nat]
  BY LenProperties DEF Items
<1>2. \A i \in 1..Len(s) : s[i] = i
  BY <1>1 DEF Numbered
<1> QED
  BY <1>1, <1>2 DEF Upto

LEMMA ConcatNumbered ==
  ASSUME NEW s \in Items, NEW t \in Items, Numbered(s, 0), Numbered(t, Len(s))
  PROVE  s \o t \in Items /\ Len(s \o t) = Len(s) + Len(t) /\ Numbered(s \o t, 0)
<1>1. Len(s) \in Nat /\ Len(t) \in Nat
  BY LenProperties DEF Items
<1>2. /\ s \o t \in Items /\ Len(s \o t) = Len(s) + Len(t)
      /\ \A i \in 1..(Len(s) + Len(t)) :
           (s \o t)[i] = IF i <= Len(s) THEN s[i] ELSE t[i - Len(s)]
  BY ConcatProperties DEF Items
<1>3. ASSUME NEW i \in 1..(Len(s) + Len(t)) PROVE (s \o t)[i] = 0 + i
  <2>1. CASE i <= Len(s)
    BY <1>1, <1>2, <2>1 DEF Numbered
  <2>2. CASE ~(i <= Len(s))
    <3>1. i - Len(s) \in 1..Len(t)
      BY <1>1, <2>2
    <3>2. t[i - Len(s)] = Len(s) + (i - Len(s))
      BY <3>1 DEF Numbered
    <3> QED
      BY <1>1, <1>2, <2>2, <3>2
  <2> QED
    BY <2>1, <2>2
<1> QED
  BY <1>2, <1>3 DEF Numbered

LEMMA AcceptedNumbered ==
  ASSUME HolderInv, OrderInv, NEW c \in Conns, c \in Live
  PROVE  Accepted(c) \in Items /\ Numbered(Accepted(c), 0) /\ Len(Accepted(c)) = InFlight(c)
<1> DEFINE D == delivered[c]
           Q == queue[c]
           P == pending[c]
<1>1. D \in Items /\ Q \in Items /\ P \in Items
  BY DEF HolderInv, TypeOK, ItemTypes
<1>2. Numbered(D, 0) /\ Numbered(Q, Len(D)) /\ Numbered(P, Len(D) + Len(Q))
  BY DEF OrderInv, OrderOf
<1>3. Accepted(c) = (D \o Q) \o P
  BY DEF Accepted
<1>4. InFlight(c) = Len(D) + Len(Q) + Len(P)
  BY DEF InFlight
<1> HIDE DEF D, Q, P
<1>5. D \o Q \in Items /\ Len(D \o Q) = Len(D) + Len(Q) /\ Numbered(D \o Q, 0)
  BY <1>1, <1>2, ConcatNumbered
<1>6. Numbered(P, Len(D \o Q))
  BY <1>2, <1>5
<1>7. /\ (D \o Q) \o P \in Items /\ Len((D \o Q) \o P) = Len(D \o Q) + Len(P)
      /\ Numbered((D \o Q) \o P, 0)
  BY <1>1, <1>5, <1>6, ConcatNumbered
<1> QED
  BY <1>3, <1>4, <1>5, <1>7

(* Across reconnects, full channels, cancelled receives and any number of   *)
(* receivers, receive returns the items once each, in the order decoded.    *)
THEOREM DeliveryInOrder == Spec => []DeliveredInOrder
<1>1. HolderInv /\ OrderInv => DeliveredInOrder
  <2> SUFFICES ASSUME HolderInv, OrderInv, NEW c \in Conns
               PROVE  /\ delivered[c] = Upto(Len(delivered[c]))
                      /\ c \in Live => Accepted(c) = Upto(Len(Accepted(c)))
                      /\ c \in Live /\ ~aborting[c] => Len(Accepted(c)) = produced[c]
    BY DEF DeliveredInOrder
  <2>1. delivered[c] \in Items /\ Numbered(delivered[c], 0)
    BY DEF HolderInv, TypeOK, ItemTypes, OrderInv, OrderOf
  <2>2. delivered[c] = Upto(Len(delivered[c]))
    BY <2>1, NumberedIsUpto
  <2>3. c \in Live => Accepted(c) = Upto(Len(Accepted(c))) /\ Len(Accepted(c)) = InFlight(c)
    BY AcceptedNumbered, NumberedIsUpto
  <2>4. c \in Live /\ ~aborting[c] => InFlight(c) = produced[c]
    BY DEF OrderInv, OrderOf
  <2> QED
    BY <2>2, <2>3, <2>4
<1> QED
  BY <1>1, OrderInvariant, PTL

-----------------------------------------------------------------------------
(* A receive that goes on to remove the entry has seen the last item: the    *)
(* channel is empty and its only sender gone.                              *)
RemovingInv ==
  \A p \in Callers :
    pc[p] = "removing" => task[target[p]] = "ended" /\ queue[target[p]] = <<>>

LEMMA RemovingCallerStep ==
  ASSUME HolderInv, HolderInv', RemovingInv, NEW q \in Callers, CallerStep(q)
  PROVE  RemovingInv'
<1> SUFFICES ASSUME NEW p \in Callers, pc'[p] = "removing"
             PROVE  task'[target'[p]] = "ended" /\ queue'[target'[p]] = <<>>
  BY DEF RemovingInv
<1>1. \/ pc[p] = "removing" /\ target'[p] = target[p]
      \/ p = q /\ ReceiveClosed(p)
  BY DEF CallerStep, Connect, Receive, Disconnect, ConnectInsert, ReceiveItem, ReceiveTimeout,
         ReceiveClosed, ReceiveRemove, DisconnectShutdown, Cancel, Suspend, Return, HolderInv,
         TypeOK, CallerTypes, Steps
<1> PICK c \in Conns : c = target'[p] /\ c \in Live'
  BY DEF HolderInv, TargetInv, NoLeakedReference, Live
<1>2. CASE p = q /\ ReceiveClosed(p)
  BY <1>2 DEF ReceiveClosed, Suspend, taskVars, itemVars, HolderInv, TypeOK, CallerTypes
<1>3. CASE pc[p] = "removing" /\ target'[p] = target[p]
  <2>1. task[c] = "ended" /\ queue[c] = <<>>
    BY <1>3 DEF RemovingInv
  <2>2. task'[c] = "ended"
    BY <2>1 DEF CallerStep, Connect, Receive, Disconnect, ConnectInsert, ReceiveItem,
                ReceiveTimeout, ReceiveClosed, ReceiveRemove, DisconnectShutdown, Cancel, taskVars,
                HolderInv, TypeOK, TaskTypes
  <2>3. CASE ReceiveItem(q)
    <3>1. target[q] # c
      BY <2>1, <2>3 DEF ReceiveItem
    <3> QED
      BY <2>1, <2>2, <2>3, <3>1 DEF ReceiveItem, KeepUnlessDropped, HolderInv, TypeOK, ItemTypes
  <2>4. CASE ~ReceiveItem(q)
    BY <2>1, <2>2, <2>4, OtherCallerItems
  <2> QED
    BY <2>3, <2>4
<1> QED
  BY <1>1, <1>2, <1>3

LEMMA RemovingTaskStep ==
  ASSUME HolderInv, RemovingInv, NEW c \in Conns, DialStep(c) \/ StreamStep(c)
  PROVE  RemovingInv'
<1> SUFFICES ASSUME NEW p \in Callers, pc'[p] = "removing"
             PROVE  task'[target'[p]] = "ended" /\ queue'[target'[p]] = <<>>
  BY DEF RemovingInv
<1>1. UNCHANGED <<pc, target>> /\ task[c] # "ended"
  BY TaskStepFrame DEF HolderInv, callerVars, Running
<1>2. target[p] \in Conns \ {c} /\ task[target[p]] = "ended" /\ queue[target[p]] = <<>>
  BY <1>1 DEF HolderInv, TargetInv, RemovingInv
<1> QED
  BY <1>1, <1>2, TaskStepItems DEF HolderInv

LEMMA RemovingInvariant == Spec => []RemovingInv
<1>1. Init => RemovingInv
  BY DEF Init, RemovingInv
<1>2. HolderInv /\ HolderInv' /\ RemovingInv /\ [Next]_vars => RemovingInv'
  <2> SUFFICES ASSUME HolderInv, HolderInv', RemovingInv, [Next]_vars PROVE RemovingInv'
    OBVIOUS
  <2>1. CASE UNCHANGED vars
    BY <2>1 DEF RemovingInv, vars, callerVars, taskVars, itemVars
  <2> QED
    BY <2>1, RemovingCallerStep, RemovingTaskStep DEF Next
<1> QED
  BY <1>1, <1>2, HolderInvariant, PTL DEF Spec

(* receive says "Channel closed" only when everything the task decoded has   *)
(* been delivered, unless the task was aborted by a disconnect.             *)
THEOREM ClosedAfterLastItem == Spec => []ClosedMeansDrained
<1>1. HolderInv /\ OrderInv /\ RemovingInv => ClosedMeansDrained
  <2> SUFFICES ASSUME HolderInv, OrderInv, RemovingInv,
                      NEW p \in Callers, pc[p] = "removing", ~aborting[target[p]]
               PROVE  Len(delivered[target[p]]) = produced[target[p]]
    BY DEF ClosedMeansDrained
  <2> PICK c \in Conns : c = target[p] /\ c \in Live
    BY DEF HolderInv, TargetInv, NoLeakedReference, Live
  <2>1. queue[c] = <<>> /\ pending[c] = <<>> /\ InFlight(c) = produced[c]
    BY DEF RemovingInv, OrderInv, OrderOf
  <2>2. Len(queue[c]) = 0 /\ Len(pending[c]) = 0
    BY <2>1, EmptyNumbered
  <2> DEFINE D == Len(delivered[c])
  <2>3. InFlight(c) = D + 0 + 0
    BY <2>2 DEF InFlight
  <2>4. D \in Nat
    BY LenProperties DEF HolderInv, TypeOK, ItemTypes, Items
  <2> HIDE DEF D
  <2>5. D + 0 + 0 = D
    BY <2>4
  <2> QED
    BY <2>1, <2>3, <2>5 DEF D
<1> QED
  BY <1>1, OrderInvariant, RemovingInvariant, PTL

=============================================================================
