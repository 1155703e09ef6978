----------------------- MODULE PlatformProviderProofs -----------------------
(***************************************************************************)
(* Theorems about PlatformProvider, for every number of connections and    *)
(* callers, every capacity, every platform and every frame it may be sent. *)
(***************************************************************************)
EXTENDS PlatformFeed, SequenceTheorems, WellFoundedInduction, TLAPS

TaskStates == {"none", "dialing", "greeting", "stream", "forwarding",
               "announcing", "closing", "ended"}

Names == STRING \union {StreamClosed}

(* A caller works on a connection whose task was spawned; an id whose task  *)
(* was not spawned has no state.                                           *)
TargetInv ==
  /\ \A p \in Callers :
       pc[p] # "idle" => target[p] \in Conns /\ task[target[p]] # "none"
  /\ \A c \in Conns : task[c] = "none" => holders[c] = {}

(* Who holds what, inductive together.                                     *)
HandleInv == TypeOK /\ TargetInv /\ NothingOutlivesItsHandle

-----------------------------------------------------------------------------
(* Types.                                                                  *)

LEMMA HandleInit == Init => HandleInv
<1> SUFFICES ASSUME Init PROVE HandleInv
  OBVIOUS
<1>1. <<>> \in Seq(Names) /\ <<>> \in Seq(Nat)
  OBVIOUS
<1>2. TypeOK
  BY <1>1 DEF Init, TypeOK, Names
<1>3. TargetInv /\ NothingOutlivesItsHandle
  BY DEF Init, TargetInv, NothingOutlivesItsHandle, Running
<1> QED
  BY <1>2, <1>3 DEF HandleInv

LEMMA MoveHead ==
  ASSUME NEW s \in Seq(Nat), s # <<>>, NEW t \in Seq(Nat)
  PROVE  Tail(s) \in Seq(Nat) /\ Append(t, Head(s)) \in Seq(Nat)
BY HeadTailProperties, AppendProperties

(* Giving up holders leaves the state's bookkeeping well typed.            *)
LEMMA ReleaseTypes ==
  ASSUME TypeOK, NEW c \in Conns, NEW H, NEW q \in Seq(Nat), Release(c, H, shutdown[c], q)
  PROVE  /\ holders' \in [Conns -> SUBSET (Callers \union {"map"})]
         /\ aborting' \in [Conns -> BOOLEAN]
         /\ shutdown' \in [Conns -> {"open", "signalled", "closed"}]
         /\ queue' \in [Conns -> Seq(Nat)]
<1>1. <<>> \in Seq(Nat)
  OBVIOUS
<1> QED
  BY <1>1 DEF TypeOK, Release

LEMMA ReturnTypes ==
  ASSUME TypeOK, NEW p \in Callers, Return(p)
  PROVE  /\ pc' \in [Callers -> {"idle", "connecting", "receiving", "removing", "disconnecting"}]
         /\ target' \in [Callers -> Conns \union {NoConn}]
BY DEF TypeOK, Return, Suspend

LEMMA TypeCallerStep ==
  ASSUME TypeOK, TargetInv, NEW p \in Callers, CallerStep(p)
  PROVE  TypeOK'
<1>1. CASE \E c \in Conns : Connect(p, c) \/ Receive(p, c) \/ Disconnect(p, c)
  <2> PICK c \in Conns : Connect(p, c) \/ Receive(p, c) \/ Disconnect(p, c)
    BY <1>1
  <2> USE DEF Suspend, stopVars, itemVars, TypeOK
  <2>1. CASE Connect(p, c)
    BY <2>1 DEF Connect
  <2>2. CASE Receive(p, c)
    BY <2>2 DEF Receive
  <2>3. CASE Disconnect(p, c)
    BY <2>3 DEF Disconnect
  <2> QED
    BY <2>1, <2>2, <2>3
<1>2. CASE ConnectInsert(p)
  BY <1>2, ReturnTypes DEF ConnectInsert, TargetInv, stopVars, itemVars, TypeOK
<1>3. CASE ReceiveItem(p)
  <2> PICK c \in Conns : c = target[p]
    BY <1>3 DEF ReceiveItem, TargetInv
  <2>1. Tail(queue[c]) \in Seq(Nat) /\ Append(delivered[c], Head(queue[c])) \in Seq(Nat)
    BY <1>3, MoveHead DEF ReceiveItem, TypeOK
  <2>2. delivered' \in [Conns -> Seq(Nat)]
    BY <1>3, <2>1 DEF ReceiveItem, TypeOK
  <2>3. Release(c, {p}, shutdown[c], Tail(queue[c])) /\ Return(p)
    BY <1>3 DEF ReceiveItem
  <2>4. UNCHANGED <<writer, task, cause, platform, script, done>>
    BY <1>3 DEF ReceiveItem
  <2> QED
    BY <2>1, <2>2, <2>3, <2>4, ReleaseTypes, ReturnTypes DEF TypeOK
<1>4. CASE ReceiveTimeout(p) \/ ReceiveRemove(p) \/ Cancel(p)
  <2> PICK c \in Conns : c = target[p]
    BY <1>4 DEF ReceiveTimeout, ReceiveRemove, Cancel, TargetInv
  <2>1. PICK H : Release(c, H, shutdown[c], queue[c])
    BY <1>4 DEF ReceiveTimeout, ReceiveRemove, Cancel
  <2>2. queue[c] \in Seq(Nat)
    BY DEF TypeOK
  <2>3. /\ Return(p)
        /\ UNCHANGED <<task, cause, platform, script, done, delivered>>
        /\ writer' \subseteq writer
    BY <1>4 DEF ReceiveTimeout, ReceiveRemove, Cancel
  <2> QED
    BY <2>1, <2>2, <2>3, ReleaseTypes, ReturnTypes DEF TypeOK
<1>5. CASE ReceiveClosed(p)
  BY <1>5 DEF ReceiveClosed, TargetInv, Suspend, stopVars, itemVars, TypeOK
<1>6. CASE DisconnectShutdown(p)
  <2> PICK c \in Conns : c = target[p]
    BY <1>6 DEF DisconnectShutdown, TargetInv
  <2>1. <<>> \in Seq(Nat)
    OBVIOUS
  <2> QED
    BY <1>6, <2>1, ReturnTypes DEF DisconnectShutdown, TypeOK
<1> QED
  BY <1>1, <1>2, <1>3, <1>4, <1>5, <1>6 DEF CallerStep

(* A frame's outputs are a sequence of names, whatever the platform.       *)
LEMMA FrameOutputs ==
  ASSUME TypeOK, NEW f \in Frames[platform]
  PROVE  Outputs(platform, f) \in Seq(Names)
<1>1. Outputs(platform, f) \in Seq(STRING) /\ STRING \subseteq Names
  BY PlatformAssumption DEF TypeOK, Names
<1> QED
  BY <1>1, SeqMonotonic

(* How a task ends its connection: it says why, and announces it last, or  *)
(* it is silent about it and goes on to next.                              *)
LEMMA FinishEffect ==
  ASSUME TypeOK, NEW c \in Conns, NEW why \in Ends, NEW next \in TaskStates,
         Finish(c, why, next)
  PROVE  /\ cause' = [cause EXCEPT ![c] = why]
         /\ \/ /\ why \in Announced[platform]
               /\ script' = [script EXCEPT ![c] = Append(script[c], StreamClosed)]
               /\ task' = [task EXCEPT ![c] = "announcing"]
            \/ /\ why \notin Announced[platform]
               /\ script' = script
               /\ task' = [task EXCEPT ![c] = next]
         /\ script' \in [Conns -> Seq(Names)]
<1>0. StreamClosed \in Names /\ script \in [Conns -> Seq(Names)]
  BY DEF TypeOK, Names
<1>1. Append(script[c], StreamClosed) \in Seq(Names)
  BY <1>0, AppendProperties
<1> QED
  BY <1>0, <1>1 DEF Finish, Because, Goto

LEMMA TypeTaskStep ==
  ASSUME TypeOK, NEW c \in Conns, TaskStep(c)
  PROVE  TypeOK'
<1>1. CASE DialFailed(c) \/ GreetingFailed(c) \/ \E why \in Ends : StreamLost(c, why)
  <2>1. PICK why \in Ends, next \in {"ended", "closing"} : Finish(c, why, next)
    <3>1. CASE DialFailed(c)
      BY <3>1 DEF DialFailed, Ends
    <3>2. CASE GreetingFailed(c)
      BY <3>2 DEF GreetingFailed, Ends
    <3>3. CASE \E why \in Ends : StreamLost(c, why)
      BY <3>3 DEF StreamLost
    <3> QED
      BY <1>1, <3>1, <3>2, <3>3
  <2>2. UNCHANGED <<callerVars, stopVars, done, queue, delivered>>
    BY <1>1 DEF DialFailed, GreetingFailed, StreamLost
  <2> QED
    <3>1. /\ cause' = [cause EXCEPT ![c] = why]
          /\ script' \in [Conns -> Seq(Names)]
          /\ \E step \in {"announcing", "ended", "closing"} : task' = [task EXCEPT ![c] = step]
      BY <2>1, FinishEffect DEF TaskStates
    <3> QED
      BY <2>2, <3>1 DEF TypeOK, Names, callerVars, stopVars
<1>2. CASE DialAccepted(c) \/ GreetingDone(c) \/ ForwardDone(c) \/ AnnounceDone(c) \/ SocketClosed(c)
  BY <1>2 DEF DialAccepted, GreetingDone, ForwardDone, AnnounceDone, SocketClosed, Goto, TypeOK,
              callerVars, stopVars, itemVars
<1>3. CASE ReceiverGone(c) \/ StreamShutdown(c) \/ Aborted(c)
  BY <1>3, ZenonT(40) DEF ReceiverGone, StreamShutdown, Aborted, Goto, Because, TypeOK, Ends, callerVars,
              stopVars, itemVars
<1>4. CASE \E f \in Frames[platform] : Frame(c, f)
  <2> PICK f \in Frames[platform] : Frame(c, f)
    BY <1>4
  <2>1. script[c] \o Outputs(platform, f) \in Seq(Names)
    BY FrameOutputs, ConcatProperties DEF TypeOK, Names
  <2> QED
    BY <2>1 DEF Frame, Names, Goto, TypeOK, callerVars, stopVars
<1>5. CASE SendReply(c)
  BY <1>5 DEF SendReply, TypeOK, callerVars, stopVars
<1>6. CASE Forward(c)
  <2>1. Append(queue[c], done[c] + 1) \in Seq(Nat) /\ done[c] + 1 \in Nat
    BY AppendProperties DEF TypeOK
  <2> QED
    BY <1>6, <2>1 DEF Forward, TypeOK, callerVars, stopVars
<1> QED
  BY <1>1, <1>2, <1>3, <1>4, <1>5, <1>6 DEF TaskStep

-----------------------------------------------------------------------------
(* What a caller's step does to the connection it works on.                *)

(* It takes at most the next item from the channel.                        *)
Unread(c) == UNCHANGED <<queue[c], delivered[c]>>

Reads(c) ==
  /\ queue[c] # <<>>
  /\ delivered'[c] = Append(delivered[c], Head(queue[c]))

(* It brings a connection up, keeps its state alive, or drops the state,   *)
(* and with it the channel, and aborts the task.                           *)
Creates(c, X) ==
  /\ holders[c] = {} /\ X # {}
  /\ task[c] = "none" /\ task'[c] = "dialing"
  /\ aborting' = aborting
  /\ Unread(c)

Keeps(c, X) ==
  /\ holders[c] # {} /\ X # {}
  /\ task' = task
  /\ aborting[c] => aborting'[c]
  /\ Unread(c) \/ (Reads(c) /\ queue'[c] = Tail(queue[c]))

Drops(c, X) ==
  /\ holders[c] # {} /\ X = {}
  /\ task' = task
  /\ aborting'[c]
  /\ queue'[c] = <<>>
  /\ delivered'[c] = delivered[c] \/ Reads(c)

Touches(c, X) ==
  /\ holders' = [holders EXCEPT ![c] = X]
  /\ \A d \in Conns \ {c} :
       UNCHANGED <<aborting[d], task[d], queue[d], delivered[d]>>
  /\ UNCHANGED <<platform, cause, script, done>>
  /\ Creates(c, X) \/ Keeps(c, X) \/ Drops(c, X)

LEMMA ReleaseTouches ==
  ASSUME HandleInv, NEW p \in Callers, NEW c \in Conns, NEW H, p \in holders[c], NEW q,
         Release(c, H, shutdown[c], q),
         UNCHANGED <<platform, task, cause, script, done>>,
         \/ q = queue[c] /\ delivered' = delivered
         \/ q = Tail(queue[c]) /\ queue[c] # <<>>
            /\ delivered' = [delivered EXCEPT ![c] = Append(delivered[c], Head(queue[c]))]
  PROVE  Touches(c, holders[c] \ H)
<1>1. aborting' = [aborting EXCEPT ![c] = aborting[c] \/ holders[c] \subseteq H]
  BY DEF Release
<1>2. aborting'[c] <=> (aborting[c] \/ holders[c] \subseteq H)
  BY <1>1, Zenon DEF HandleInv, TypeOK
<1>3. \A d \in Conns \ {c} : UNCHANGED <<aborting[d], task[d], queue[d], delivered[d]>>
  BY <1>1 DEF Release, HandleInv, TypeOK
<1>4. (holders[c] \ H = {}) <=> (holders[c] \subseteq H)
  OBVIOUS
<1>5. queue'[c] = IF holders[c] \subseteq H THEN <<>> ELSE q
  BY DEF Release, HandleInv, TypeOK
<1>6. delivered'[c] = delivered[c] \/ delivered'[c] = Append(delivered[c], Head(queue[c]))
  BY DEF HandleInv, TypeOK
<1>7. Unread(c) \/ (Reads(c) /\ queue'[c] = Tail(queue[c])) \/ holders[c] \subseteq H
  BY <1>5 DEF HandleInv, TypeOK, Unread, Reads
<1>8. delivered'[c] = delivered[c] \/ Reads(c)
  BY <1>6 DEF HandleInv, TypeOK, Reads
<1>9. holders' = [holders EXCEPT ![c] = holders[c] \ H]
  BY DEF Release
<1> QED
  BY <1>2, <1>3, <1>4, <1>5, <1>7, <1>8, <1>9 DEF Touches, Keeps, Drops

LEMMA CallerTouches ==
  ASSUME HandleInv, NEW p \in Callers, CallerStep(p)
  PROVE  \E c \in Conns : \E X : Touches(c, X)
<1>1. CASE \E c \in Conns : Connect(p, c) \/ Receive(p, c) \/ Disconnect(p, c)
  <2> PICK c \in Conns : Connect(p, c) \/ Receive(p, c) \/ Disconnect(p, c)
    BY <1>1
  <2>1. CASE Connect(p, c)
    <3>1. Touches(c, {p})
      BY <2>1 DEF Connect, Touches, Creates, Unread, HandleInv, TypeOK, TargetInv, stopVars,
                  itemVars
    <3> QED
      BY <3>1
  <2>2. CASE Receive(p, c)
    <3>1. Touches(c, holders[c] \union {p})
      BY <2>2 DEF Receive, Connections, Touches, Keeps, Unread, stopVars, itemVars
    <3> QED
      BY <3>1
  <2>3. CASE Disconnect(p, c)
    <3>1. Touches(c, (holders[c] \ {"map"}) \union {p})
      BY <2>3 DEF Disconnect, Connections, Touches, Keeps, Unread, stopVars, itemVars
    <3> QED
      BY <3>1
  <2> QED
    BY <2>1, <2>2, <2>3
<1>2. CASE ~ \E c \in Conns : Connect(p, c) \/ Receive(p, c) \/ Disconnect(p, c)
  <2>1. pc[p] # "idle"
    BY <1>2 DEF CallerStep, ConnectInsert, ReceiveItem, ReceiveTimeout, ReceiveClosed,
                ReceiveRemove, DisconnectShutdown, Cancel
  <2> PICK c \in Conns : c = target[p] /\ p \in holders[c]
    BY <2>1 DEF HandleInv, TargetInv, NothingOutlivesItsHandle
  <2>2. CASE ConnectInsert(p)
    <3>1. Touches(c, (holders[c] \ {p}) \union {"map"})
      BY <2>2 DEF ConnectInsert, Touches, Keeps, Unread, stopVars, itemVars
    <3> QED
      BY <3>1
  <2>3. CASE ReceiveClosed(p)
    <3>1. Touches(c, holders[c])
      BY <2>3 DEF ReceiveClosed, Touches, Keeps, Unread, stopVars, itemVars, HandleInv, TypeOK
    <3> QED
      BY <3>1
  <2>4. CASE DisconnectShutdown(p)
    <3>1. Touches(c, holders[c] \ {p})
      BY <2>4 DEF DisconnectShutdown, Touches, Keeps, Drops, Unread, HandleInv, TypeOK
    <3> QED
      BY <3>1
  <2>5. CASE ReceiveItem(p)
    BY <2>5, ReleaseTouches DEF ReceiveItem
  <2>6. CASE ReceiveTimeout(p) \/ Cancel(p)
    <3>1. Release(c, {p}, shutdown[c], queue[c])
      BY <2>6 DEF ReceiveTimeout, Cancel
    <3>2. UNCHANGED <<platform, task, cause, script, done, delivered>>
      BY <2>6 DEF ReceiveTimeout, Cancel
    <3> QED
      BY <3>1, <3>2, ReleaseTouches
  <2>7. CASE ReceiveRemove(p)
    BY <2>7, ReleaseTouches DEF ReceiveRemove
  <2> QED
    BY <1>2, <2>2, <2>3, <2>4, <2>5, <2>6, <2>7 DEF CallerStep
<1> QED
  BY <1>1, <1>2

(* And what it does to the references: its own, and the map's, to that one *)
(* connection.                                                             *)
Works(p, c, step, X) ==
  /\ pc[p] = "idle" \/ target[p] = c
  /\ Suspend(p, step, IF step = "idle" THEN NoConn ELSE c)
  /\ holders' = [holders EXCEPT ![c] = X]
  /\ p \in X <=> step # "idle"
  /\ \A q \in Callers \ {p} : q \in X <=> q \in holders[c]
  /\ task'[c] # "none"
  /\ \A d \in Conns \ {c} : task'[d] = task[d]

LEMMA CallerWorks ==
  ASSUME HandleInv, NEW p \in Callers, CallerStep(p)
  PROVE  \E c \in Conns : \E step, X : Works(p, c, step, X)
<1>0. "map" \notin Callers
  BY PlatformAssumption
<1>1. CASE \E c \in Conns : Connect(p, c)
  <2> PICK c \in Conns : Connect(p, c)
    BY <1>1
  <2>1. Works(p, c, "connecting", {p})
    BY DEF Connect, Works, HandleInv, TypeOK, TargetInv
  <2> QED
    BY <2>1
<1>2. CASE \E c \in Conns : Receive(p, c) \/ Disconnect(p, c)
  <2> PICK c \in Conns : Receive(p, c) \/ Disconnect(p, c)
    BY <1>2
  <2>1. holders[c] # {} /\ task[c] # "none" /\ task' = task /\ pc[p] = "idle"
    BY DEF Receive, Disconnect, Connections, HandleInv, TargetInv
  <2>2. CASE Receive(p, c)
    <3>1. Works(p, c, "receiving", holders[c] \union {p})
      BY <2>1, <2>2 DEF Receive, Works
    <3> QED
      BY <3>1
  <2>3. CASE Disconnect(p, c)
    <3>1. Works(p, c, "disconnecting", (holders[c] \ {"map"}) \union {p})
      BY <2>1, <2>3, <1>0 DEF Disconnect, Works
    <3> QED
      BY <3>1
  <2> QED
    BY <2>2, <2>3
<1>3. CASE ReceiveClosed(p)
  <2> PICK c \in Conns : c = target[p] /\ p \in holders[c]
    BY <1>3 DEF ReceiveClosed, HandleInv, TargetInv, NothingOutlivesItsHandle
  <2>1. Works(p, c, "removing", holders[c])
    BY <1>3 DEF ReceiveClosed, Works, HandleInv, TypeOK
  <2> QED
    BY <2>1
<1>4. CASE \/ ConnectInsert(p) \/ ReceiveItem(p) \/ ReceiveTimeout(p) \/ ReceiveRemove(p)
           \/ DisconnectShutdown(p) \/ Cancel(p)
  <2>1. pc[p] # "idle" /\ Return(p) /\ task' = task
    BY <1>4 DEF ConnectInsert, ReceiveItem, ReceiveTimeout, ReceiveRemove, DisconnectShutdown,
                Cancel
  <2> PICK c \in Conns : c = target[p] /\ task[c] # "none"
    BY <2>1 DEF HandleInv, TargetInv
  <2>2. PICK X :
          /\ holders' = [holders EXCEPT ![c] = X]
          /\ X \in {(holders[c] \ {p}) \union {"map"}, holders[c] \ {p}, holders[c] \ {p, "map"}}
    BY <1>4 DEF ConnectInsert, ReceiveItem, ReceiveTimeout, ReceiveRemove, DisconnectShutdown,
                Cancel, Release
  <2>3. p \notin X /\ \A q \in Callers \ {p} : q \in X <=> q \in holders[c]
    BY <2>2, <1>0
  <2>4. Works(p, c, "idle", X)
    BY <2>1, <2>2, <2>3 DEF Return, Works
  <2> QED
    BY <2>4
<1> QED
  BY <1>1, <1>2, <1>3, <1>4 DEF CallerStep

LEMMA HandleCallerStep ==
  ASSUME HandleInv, NEW p \in Callers, CallerStep(p)
  PROVE  TargetInv' /\ NothingOutlivesItsHandle'
<1> PICK c \in Conns : \E step, X : Works(p, c, step, X)
  BY CallerWorks
<1> PICK step, X : Works(p, c, step, X)
  OBVIOUS
<1>1. \A d \in Conns : holders'[d] = IF d = c THEN X ELSE holders[d]
  BY DEF Works, HandleInv, TypeOK
<1>2. \A q \in Callers :
        /\ pc'[q] = IF q = p THEN step ELSE pc[q]
        /\ target'[q] = IF q = p THEN IF step = "idle" THEN NoConn ELSE c ELSE target[q]
  BY DEF Works, Suspend, HandleInv, TypeOK
<1>3. TargetInv'
  BY <1>1, <1>2 DEF HandleInv, TargetInv, Works
<1>4. ASSUME NEW d \in Conns, NEW q \in Callers
      PROVE  (q \in holders'[d]) <=> (pc'[q] # "idle" /\ target'[q] = d)
  <2>1. (q \in holders[d]) <=> (pc[q] # "idle" /\ target[q] = d)
    BY DEF HandleInv, NothingOutlivesItsHandle
  <2> QED
    BY <2>1, <1>1, <1>2 DEF Works
<1>5. ASSUME NEW d \in Conns, Running(d)', d \notin Live' PROVE aborting'[d]
  <2> PICK e \in Conns : \E Y : Touches(e, Y)
    BY CallerTouches
  <2> PICK Y : Touches(e, Y)
    OBVIOUS
  <2>1. \A b \in Conns : holders'[b] = IF b = e THEN Y ELSE holders[b]
    BY DEF Touches, HandleInv, TypeOK
  <2>2. CASE d = e
    BY <1>5, <2>1, <2>2 DEF Touches, Creates, Keeps, Drops, Live
  <2>3. CASE d # e
    BY <1>5, <2>1, <2>3 DEF Touches, Running, HandleInv, NothingOutlivesItsHandle, Live
  <2> QED
    BY <2>2, <2>3
<1> QED
  BY <1>3, <1>4, <1>5 DEF NothingOutlivesItsHandle

(* A task's step leaves the callers, the references and what was delivered  *)
(* alone; it is a step of a spawned task that has not ended.               *)
LEMMA TaskStepFrame ==
  ASSUME TypeOK, NEW c \in Conns, TaskStep(c)
  PROVE  /\ UNCHANGED <<callerVars, aborting, delivered>>
         /\ Running(c)
         /\ \E step \in TaskStates \ {"none"} : task' = [task EXCEPT ![c] = step]
<1> USE DEF Goto, stopVars, itemVars, TaskStates, Running
<1>1. CASE DialFailed(c) \/ GreetingFailed(c) \/ \E why \in Ends : StreamLost(c, why)
  BY <1>1 DEF DialFailed, GreetingFailed, StreamLost, Finish
<1>2. CASE \/ DialAccepted(c) \/ GreetingDone(c) \/ ForwardDone(c) \/ AnnounceDone(c)
           \/ SocketClosed(c) \/ ReceiverGone(c) \/ StreamShutdown(c) \/ Aborted(c)
           \/ \E f \in Frames[platform] : Frame(c, f)
  BY <1>2 DEF DialAccepted, GreetingDone, ForwardDone, AnnounceDone, SocketClosed, ReceiverGone,
              StreamShutdown, Aborted, Frame
<1>3. CASE SendReply(c) \/ Forward(c)
  <2>1. task' = [task EXCEPT ![c] = task[c]] /\ task[c] \in {"forwarding", "announcing"}
    BY <1>3 DEF SendReply, Forward, TypeOK
  <2> QED
    BY <1>3, <2>1 DEF SendReply, Forward
<1> QED
  BY <1>1, <1>2, <1>3 DEF TaskStep

LEMMA HandleStep == HandleInv /\ [Next]_vars => HandleInv'
<1> SUFFICES ASSUME HandleInv, [Next]_vars PROVE HandleInv'
  OBVIOUS
<1>1. ASSUME NEW p \in Callers, CallerStep(p) PROVE HandleInv'
  BY <1>1, TypeCallerStep, HandleCallerStep DEF HandleInv
<1>2. ASSUME NEW c \in Conns, TaskStep(c) PROVE HandleInv'
  <2>1. TypeOK'
    BY <1>2, TypeTaskStep DEF HandleInv
  <2>2. /\ UNCHANGED <<holders, pc, target, aborting>>
        /\ task[c] # "none" /\ Running(c)
        /\ \E step \in TaskStates \ {"none"} : task' = [task EXCEPT ![c] = step]
    BY <1>2, TaskStepFrame DEF HandleInv, callerVars, Running
  <2>3. TargetInv'
    BY <2>2 DEF HandleInv, TypeOK, TargetInv
  <2>4. \A d \in Conns : Running(d)' => Running(d)
    BY <2>2 DEF HandleInv, TypeOK, Running
  <2>5. NothingOutlivesItsHandle'
    BY <2>2, <2>4 DEF HandleInv, NothingOutlivesItsHandle, Live
  <2> QED
    BY <2>1, <2>3, <2>5 DEF HandleInv
<1>3. CASE UNCHANGED vars
  BY <1>3 DEF HandleInv, TypeOK, TargetInv, NothingOutlivesItsHandle, Running, Live, vars,
              callerVars, stopVars, itemVars
<1> QED
  BY <1>1, <1>2, <1>3 DEF Next

LEMMA HandleInvariant == Spec => []HandleInv
BY HandleInit, HandleStep, PTL DEF Spec

(* Every variable keeps its type: a channel only ever holds positions of   *)
(* the script.                                                             *)
THEOREM TypeCorrect == Spec => []TypeOK
<1>1. HandleInv => TypeOK
  BY DEF HandleInv
<1> QED
  BY <1>1, HandleInvariant, PTL

(* A caller holds a connection exactly while it works on it, and a task     *)
(* whose connection nobody holds has been told to abort.                   *)
THEOREM HandlesReturned == Spec => []NothingOutlivesItsHandle
<1>1. HandleInv => NothingOutlivesItsHandle
  BY DEF HandleInv
<1> QED
  BY <1>1, HandleInvariant, PTL

-----------------------------------------------------------------------------
(* Order.                                                                  *)

(* got numbers items of the first n outputs of scr, each once and in order, *)
(* and all of them while the connection is held.                           *)
Orderly(got, scr, n, held) ==
  /\ n <= Len(scr)
  /\ \A i \in 1..Len(got) : got[i] \in 1..n /\ scr[got[i]] # Reply
  /\ \A i, j \in 1..Len(got) : i < j => got[i] < got[j]
  /\ held => \A k \in 1..n : scr[k] # Reply => \E i \in 1..Len(got) : got[i] = k

OrderInv ==
  \A c \in Conns :
    /\ Orderly(Accepted(c), script[c], done[c], c \in Live)
    /\ task[c] = "none" => done[c] = 0 /\ script[c] = <<>>

(* Taking the head of the channel accepts nothing new.                     *)
LEMMA TakeHead ==
  ASSUME NEW d \in Seq(Nat), NEW q \in Seq(Nat), q # <<>>
  PROVE  Append(d, Head(q)) \o Tail(q) = d \o q
<1>1. /\ Append(d, Head(q)) \in Seq(Nat) /\ Tail(q) \in Seq(Nat)
      /\ Len(Tail(q)) = Len(q) - 1 /\ Len(q) \in Nat \ {0}
  BY MoveHead, HeadTailProperties, EmptySeq
<1>2. \A i \in 1..(Len(d) + 1) :
        Append(d, Head(q))[i] = IF i = Len(d) + 1 THEN q[1] ELSE d[i]
  BY <1>1
<1>3. Len(Append(d, Head(q))) = Len(d) + 1
  OBVIOUS
<1>4. \A i \in 1..Len(Tail(q)) : Tail(q)[i] = q[i + 1]
  BY HeadTailProperties
<1>5. Append(d, Head(q)) \o Tail(q) \in Seq(Nat) /\ d \o q \in Seq(Nat)
  BY <1>1, ConcatProperties
<1>6. Len(Append(d, Head(q)) \o Tail(q)) = Len(d \o q)
  BY <1>1, <1>3, ConcatProperties
<1>7. ASSUME NEW i \in 1..Len(d \o q)
      PROVE  (Append(d, Head(q)) \o Tail(q))[i] = (d \o q)[i]
  <2>1. i \in 1..(Len(d) + Len(q)) /\ Len(d) \in Nat
    BY ConcatProperties
  <2>2. (d \o q)[i] = IF i <= Len(d) THEN d[i] ELSE q[i - Len(d)]
    BY <2>1, ConcatProperties
  <2>3. (Append(d, Head(q)) \o Tail(q))[i] =
          IF i <= Len(d) + 1 THEN Append(d, Head(q))[i] ELSE Tail(q)[i - (Len(d) + 1)]
    BY <1>1, <1>3, <2>1, ConcatProperties, SMTT(30)
  <2>4. CASE i <= Len(d) + 1
    BY <1>2, <2>1, <2>2, <2>3, <2>4
  <2>5. CASE i > Len(d) + 1
    <3>1. i - (Len(d) + 1) \in 1..Len(Tail(q)) /\ i - (Len(d) + 1) + 1 = i - Len(d)
      BY <1>1, <2>1, <2>5
    <3>2. Tail(q)[i - (Len(d) + 1)] = q[i - Len(d)]
      BY <1>4, <3>1
    <3>3. ~(i <= Len(d)) /\ ~(i <= Len(d) + 1)
      BY <2>1, <2>5
    <3> QED
      BY <2>2, <2>3, <3>2, <3>3, Zenon
  <2>6. i <= Len(d) + 1 \/ i > Len(d) + 1
    BY <2>1
  <2> QED
    BY <2>4, <2>5, <2>6, Zenon
<1> QED
  BY <1>5, <1>6, <1>7, SeqEqual

(* What was delivered stays in order when the channel goes.                *)
LEMMA CutOrderly ==
  ASSUME NEW d \in Seq(Nat), NEW q \in Seq(Nat), NEW scr, NEW n, NEW held,
         Orderly(d \o q, scr, n, held)
  PROVE  Orderly(d \o <<>>, scr, n, FALSE)
<1>1. d \o <<>> = d
  BY ConcatEmptySeq
<1>2. Len(d \o q) = Len(d) + Len(q) /\ Len(d) \in Nat /\ Len(q) \in Nat
  BY ConcatProperties
<1>3. \A i \in 1..Len(d) : i \in 1..Len(d \o q) /\ (d \o q)[i] = d[i]
  BY <1>2, ConcatProperties
<1> QED
  BY <1>1, <1>3 DEF Orderly

(* An item is put into the channel when its turn has come.                 *)
LEMMA PutOrderly ==
  ASSUME NEW d \in Seq(Nat), NEW q \in Seq(Nat), NEW scr \in Seq(Names), NEW n \in Nat, NEW held,
         Orderly(d \o q, scr, n, held), n < Len(scr), scr[n + 1] # Reply
  PROVE  Orderly(d \o Append(q, n + 1), scr, n + 1, held)
<1> DEFINE got == d \o q
           new == d \o Append(q, n + 1)
<1>1. got \in Seq(Nat) /\ Len(got) = Len(d) + Len(q) /\ Len(d) \in Nat /\ Len(q) \in Nat
  BY ConcatProperties
<1>2. Append(q, n + 1) \in Seq(Nat) /\ Len(Append(q, n + 1)) = Len(q) + 1
  OBVIOUS
<1>3. Len(new) = Len(got) + 1
  BY <1>1, <1>2, ConcatProperties
<1>4. ASSUME NEW i \in 1..(Len(got) + 1)
      PROVE  new[i] = IF i = Len(got) + 1 THEN n + 1 ELSE got[i]
  <2>1. new[i] = IF i <= Len(d) THEN d[i] ELSE Append(q, n + 1)[i - Len(d)]
    BY <1>1, <1>2, <1>3, ConcatProperties, SMTT(30)
  <2>2. i # Len(got) + 1 => got[i] = IF i <= Len(d) THEN d[i] ELSE q[i - Len(d)]
    BY <1>1, ConcatProperties
  <2>3. i > Len(d) => i - Len(d) \in 1..(Len(q) + 1)
    BY <1>1
  <2> QED
    BY <1>1, <2>1, <2>2, <2>3
<1>5. /\ n <= Len(scr)
      /\ \A i \in 1..Len(got) : got[i] \in 1..n /\ scr[got[i]] # Reply
      /\ \A i, j \in 1..Len(got) : i < j => got[i] < got[j]
      /\ held => \A k \in 1..n : scr[k] # Reply => \E i \in 1..Len(got) : got[i] = k
  BY DEF Orderly
<1>6. Len(got) \in Nat
  BY <1>1
<1> HIDE DEF got, new
<1>7. n + 1 <= Len(scr)
  BY LenProperties
<1>8. ASSUME NEW i \in 1..Len(new)
      PROVE  \/ i = Len(got) + 1 /\ new[i] = n + 1
             \/ i \in 1..Len(got) /\ new[i] = got[i] /\ got[i] \in 1..n /\ scr[got[i]] # Reply
  <2>1. i \in 1..(Len(got) + 1)
    BY <1>3
  <2>2. new[i] = IF i = Len(got) + 1 THEN n + 1 ELSE got[i]
    BY <1>4, <2>1
  <2>3. i = Len(got) + 1 \/ i \in 1..Len(got)
    BY <1>6, <2>1
  <2> QED
    BY <1>5, <1>6, <2>2, <2>3
<1>9. \A i, j \in 1..Len(new) : i < j => new[i] < new[j]
  <2> SUFFICES ASSUME NEW i \in 1..Len(new), NEW j \in 1..Len(new), i < j
               PROVE  new[i] < new[j]
    OBVIOUS
  <2>1. i \in 1..Len(got) /\ new[i] = got[i] /\ got[i] \in 1..n
    BY <1>3, <1>6, <1>8
  <2>2. CASE j = Len(got) + 1 /\ new[j] = n + 1
    BY <2>1, <2>2
  <2>3. CASE j \in 1..Len(got) /\ new[j] = got[j]
    BY <1>5, <2>1, <2>3
  <2> QED
    BY <1>8, <2>2, <2>3
<1>10. held => \A k \in 1..(n + 1) : scr[k] # Reply => \E i \in 1..Len(new) : new[i] = k
  <2> SUFFICES ASSUME held, NEW k \in 1..(n + 1), scr[k] # Reply
               PROVE  \E i \in 1..Len(new) : new[i] = k
    OBVIOUS
  <2>1. CASE k = n + 1
    BY <1>3, <1>4, <1>6, <2>1
  <2>2. CASE k # n + 1
    <3>1. PICK i \in 1..Len(got) : got[i] = k
      BY <1>5, <2>2
    <3>2. i \in 1..(Len(got) + 1) /\ i # Len(got) + 1
      BY <1>6
    <3>3. new[i] = k
      BY <1>4, <3>1, <3>2
    <3> QED
      BY <1>3, <3>2, <3>3
  <2> QED
    BY <2>1, <2>2
<1>11. \A i \in 1..Len(new) : new[i] \in 1..(n + 1) /\ scr[new[i]] # Reply
  BY <1>8
<1> QED
  BY <1>7, <1>9, <1>10, <1>11 DEF Orderly, new

LEMMA ReplyOrderly ==
  ASSUME NEW got, NEW scr \in Seq(Names), NEW n \in Nat, NEW held,
         Orderly(got, scr, n, held), n < Len(scr), scr[n + 1] = Reply
  PROVE  Orderly(got, scr, n + 1, held)
<1>1. n + 1 <= Len(scr)
  BY LenProperties
<1>2. \A k \in 1..(n + 1) : k \in 1..n \/ k = n + 1
  OBVIOUS
<1>3. \A k \in 1..n : k \in 1..(n + 1)
  OBVIOUS
<1> QED
  BY <1>1, <1>2, <1>3 DEF Orderly

(* More outputs change nothing about those carried out.                    *)
LEMMA ScriptOrderly ==
  ASSUME NEW got, NEW scr \in Seq(Names), NEW more \in Seq(Names), NEW n \in Nat, NEW held,
         Orderly(got, scr, n, held)
  PROVE  Orderly(got, scr \o more, n, held)
<1>1. Len(scr \o more) = Len(scr) + Len(more) /\ Len(scr) \in Nat /\ Len(more) \in Nat
  BY ConcatProperties
<1>2. n <= Len(scr)
  BY DEF Orderly
<1>3. \A k \in 1..n : (scr \o more)[k] = scr[k]
  BY <1>1, <1>2, ConcatProperties
<1> QED
  BY <1>1, <1>2, <1>3 DEF Orderly

LEMMA OrderInit == Init => OrderInv
<1> SUFFICES ASSUME Init, NEW c \in Conns
             PROVE  /\ Orderly(Accepted(c), script[c], done[c], c \in Live)
                    /\ task[c] = "none" => done[c] = 0 /\ script[c] = <<>>
  BY DEF OrderInv
<1>1. delivered[c] = <<>> /\ queue[c] = <<>> /\ script[c] = <<>> /\ done[c] = 0
  BY DEF Init
<1>2. Accepted(c) = <<>>
  BY <1>1 DEF Accepted
<1> QED
  BY <1>1, <1>2 DEF Orderly

LEMMA OrderCallerStep ==
  ASSUME HandleInv, OrderInv, NEW p \in Callers, CallerStep(p)
  PROVE  OrderInv'
<1> PICK c \in Conns : \E X : Touches(c, X)
  BY CallerTouches
<1> PICK X : Touches(c, X)
  OBVIOUS
<1>1. \A d \in Conns : holders'[d] = IF d = c THEN X ELSE holders[d]
  BY DEF Touches, HandleInv, TypeOK
<1>2. ASSUME NEW d \in Conns \ {c}
      PROVE  /\ Orderly(Accepted(d)', script'[d], done'[d], d \in Live')
             /\ task'[d] = "none" => done'[d] = 0 /\ script'[d] = <<>>
  BY <1>1 DEF Touches, OrderInv, Accepted, Live
<1>3. delivered[c] \in Seq(Nat) /\ queue[c] \in Seq(Nat)
  BY DEF HandleInv, TypeOK
<1>4. Orderly(delivered[c] \o queue[c], script[c], done[c], c \in Live)
  BY DEF OrderInv, Accepted
<1>5. UNCHANGED <<script, done>>
  BY DEF Touches
<1>6. task'[c] # "none"
  <2>1. holders[c] # {} => task[c] # "none"
    BY DEF HandleInv, TargetInv
  <2> QED
    BY <2>1 DEF Touches, Creates, Keeps, Drops
<1>7. Reads(c) => Append(delivered[c], Head(queue[c])) \o Tail(queue[c]) = delivered[c] \o queue[c]
  BY <1>3, TakeHead DEF Reads
<1>8. Orderly(delivered'[c] \o queue'[c], script[c], done[c], c \in Live')
  <2>1. CASE Creates(c, X)
    <3>1. done[c] = 0
      BY <2>1 DEF Creates, OrderInv
    <3>2. delivered'[c] \o queue'[c] = delivered[c] \o queue[c]
      BY <2>1 DEF Creates, Unread
    <3>3. \A k \in 1..done[c] : FALSE
      BY <3>1
    <3>4. Orderly(delivered[c] \o queue[c], script[c], done[c], c \in Live')
      BY <1>4, <3>3 DEF Orderly
    <3> QED
      BY <3>2, <3>4
  <2>2. CASE Keeps(c, X)
    <3>1. c \in Live /\ c \in Live'
      BY <1>1, <2>2 DEF Keeps, Live
    <3>2. delivered'[c] \o queue'[c] = delivered[c] \o queue[c]
      BY <1>7, <2>2 DEF Keeps, Unread, Reads
    <3> QED
      BY <1>4, <3>1, <3>2
  <2>3. CASE Drops(c, X)
    <3>1. c \notin Live' /\ queue'[c] = <<>>
      BY <1>1, <2>3 DEF Drops, Live
    <3>2. CASE delivered'[c] = delivered[c]
      <4>1. Orderly(delivered'[c] \o queue'[c], script[c], done[c], FALSE)
        BY <1>3, <1>4, <3>1, <3>2, CutOrderly
      <4> QED
        BY <3>1, <4>1 DEF Orderly
    <3>3. CASE Reads(c)
      <4> DEFINE d == Append(delivered[c], Head(queue[c]))
      <4>1. d \in Seq(Nat) /\ Tail(queue[c]) \in Seq(Nat)
        BY <1>3, <3>3, MoveHead DEF Reads
      <4>2. Orderly(d \o Tail(queue[c]), script[c], done[c], c \in Live)
        BY <1>4, <1>7, <3>3
      <4>3. Orderly(d \o <<>>, script[c], done[c], FALSE)
        BY <4>1, <4>2, CutOrderly
      <4>4. Orderly(delivered'[c] \o queue'[c], script[c], done[c], FALSE)
        BY <3>1, <3>3, <4>3 DEF Reads
      <4> QED
        BY <3>1, <4>4 DEF Orderly
    <3> QED
      BY <2>3, <3>2, <3>3 DEF Drops
  <2> QED
    BY <2>1, <2>2, <2>3 DEF Touches
<1>9. ASSUME NEW d \in Conns
      PROVE  /\ Orderly(Accepted(d)', script'[d], done'[d], d \in Live')
             /\ task'[d] = "none" => done'[d] = 0 /\ script'[d] = <<>>
  <2>1. CASE d = c
    BY <1>5, <1>6, <1>8, <2>1 DEF Accepted
  <2>2. CASE d # c
    BY <1>2, <2>2
  <2> QED
    BY <2>1, <2>2
<1> QED
  BY <1>9 DEF OrderInv

(* What a task's step does to its outputs: nothing, more of them, the next  *)
(* is a reply and sent, or it is an item and put into the channel.         *)
Advances(c) ==
  \/ UNCHANGED <<script, done, queue>>
  \/ \E more \in Seq(Names) :
       script' = [script EXCEPT ![c] = script[c] \o more] /\ UNCHANGED <<done, queue>>
  \/ /\ OutputsLeft(c)
     /\ done' = [done EXCEPT ![c] = done[c] + 1] /\ UNCHANGED script
     /\ \/ NextOutput(c) = Reply /\ UNCHANGED queue
        \/ /\ NextOutput(c) # Reply
           /\ queue' = [queue EXCEPT ![c] = Append(queue[c], done[c] + 1)]

LEMMA TaskAdvances ==
  ASSUME TypeOK, NEW c \in Conns, TaskStep(c)
  PROVE  Advances(c)
<1>1. CASE DialFailed(c) \/ GreetingFailed(c) \/ \E why \in Ends : StreamLost(c, why)
  <2>1. /\ script' = script \/ script' = [script EXCEPT ![c] = Append(script[c], StreamClosed)]
        /\ UNCHANGED <<done, queue>>
    BY <1>1 DEF DialFailed, GreetingFailed, StreamLost, Finish
  <2>2. script[c] \in Seq(Names) /\ StreamClosed \in Names
    BY DEF TypeOK, Names
  <2>3. Append(script[c], StreamClosed) = script[c] \o <<StreamClosed>>
    BY <2>2, AppendIsConcat
  <2>4. <<StreamClosed>> \in Seq(Names)
    BY <2>2
  <2> QED
    BY <2>1, <2>3, <2>4 DEF Advances
<1>2. CASE \/ DialAccepted(c) \/ GreetingDone(c) \/ ForwardDone(c) \/ AnnounceDone(c)
           \/ SocketClosed(c) \/ ReceiverGone(c) \/ StreamShutdown(c) \/ Aborted(c)
  BY <1>2 DEF DialAccepted, GreetingDone, ForwardDone, AnnounceDone, SocketClosed, ReceiverGone,
              StreamShutdown, Aborted, itemVars, Advances
<1>3. CASE \E f \in Frames[platform] : Frame(c, f)
  BY <1>3, FrameOutputs DEF Frame, Advances
<1>4. CASE SendReply(c) \/ Forward(c)
  BY <1>4 DEF SendReply, Forward, Advances
<1> QED
  BY <1>1, <1>2, <1>3, <1>4 DEF TaskStep

LEMMA OrderTaskStep ==
  ASSUME HandleInv, OrderInv, NEW c \in Conns, TaskStep(c)
  PROVE  OrderInv'
<1>1. /\ UNCHANGED <<holders, delivered>>
      /\ Running(c)
      /\ \E step \in TaskStates \ {"none"} : task' = [task EXCEPT ![c] = step]
  BY TaskStepFrame DEF HandleInv, callerVars
<1>2. Advances(c)
  BY TaskAdvances DEF HandleInv
<1>3. /\ delivered[c] \in Seq(Nat) /\ queue[c] \in Seq(Nat)
      /\ script[c] \in Seq(Names) /\ done[c] \in Nat
  BY DEF HandleInv, TypeOK, Names
<1>4. Orderly(delivered[c] \o queue[c], script[c], done[c], c \in Live)
  BY DEF OrderInv, Accepted
<1>5. Orderly(delivered[c] \o queue'[c], script'[c], done'[c], c \in Live)
  <2>1. CASE UNCHANGED <<script, done, queue>>
    BY <1>4, <2>1
  <2>2. CASE \E more \in Seq(Names) :
               script' = [script EXCEPT ![c] = script[c] \o more] /\ UNCHANGED <<done, queue>>
    <3> PICK more \in Seq(Names) :
               script' = [script EXCEPT ![c] = script[c] \o more] /\ UNCHANGED <<done, queue>>
      BY <2>2
    <3>1. script'[c] = script[c] \o more
      BY DEF HandleInv, TypeOK
    <3> QED
      BY <1>3, <1>4, <3>1, ScriptOrderly
  <2>3. CASE /\ OutputsLeft(c)
             /\ done' = [done EXCEPT ![c] = done[c] + 1] /\ UNCHANGED script
             /\ \/ NextOutput(c) = Reply /\ UNCHANGED queue
                \/ /\ NextOutput(c) # Reply
                   /\ queue' = [queue EXCEPT ![c] = Append(queue[c], done[c] + 1)]
    <3>1. done'[c] = done[c] + 1 /\ done[c] < Len(script[c])
      BY <2>3 DEF HandleInv, TypeOK, OutputsLeft
    <3>2. CASE NextOutput(c) = Reply /\ UNCHANGED queue
      BY <1>3, <1>4, <2>3, <3>1, <3>2, ReplyOrderly DEF NextOutput
    <3>3. CASE /\ NextOutput(c) # Reply
               /\ queue' = [queue EXCEPT ![c] = Append(queue[c], done[c] + 1)]
      <4>1. queue'[c] = Append(queue[c], done[c] + 1)
        BY <3>3 DEF HandleInv, TypeOK
      <4> QED
        BY <1>3, <1>4, <2>3, <3>1, <3>3, <4>1, PutOrderly DEF NextOutput
    <3> QED
      BY <2>3, <3>2, <3>3
  <2> QED
    BY <1>2, <2>1, <2>2, <2>3 DEF Advances
<1>6. ASSUME NEW d \in Conns
      PROVE  /\ Orderly(Accepted(d)', script'[d], done'[d], d \in Live')
             /\ task'[d] = "none" => done'[d] = 0 /\ script'[d] = <<>>
  <2>1. Live' = Live
    BY <1>1 DEF Live
  <2>2. CASE d = c
    BY <1>1, <1>5, <2>1, <2>2 DEF Accepted, HandleInv, TypeOK
  <2>3. CASE d # c
    <3>1. UNCHANGED <<script[d], done[d], queue[d], task[d], delivered[d]>>
      BY <1>1, <1>2, <2>3 DEF Advances, HandleInv, TypeOK
    <3> QED
      BY <2>1, <3>1 DEF OrderInv, Accepted
  <2> QED
    BY <2>2, <2>3
<1> QED
  BY <1>6 DEF OrderInv

LEMMA OrderInvariant == Spec => []OrderInv
<1>1. HandleInv /\ OrderInv /\ [Next]_vars => OrderInv'
  <2>1. CASE UNCHANGED vars
    BY <2>1 DEF OrderInv, Accepted, Live, vars, callerVars, itemVars
  <2> QED
    BY <2>1, OrderCallerStep, OrderTaskStep DEF Next
<1> QED
  BY <1>1, OrderInit, HandleInvariant, PTL DEF Spec

(* The items of a frame, of consecutive frames and the announced end reach  *)
(* the consumer once each and in order, for every platform, every frame and *)
(* every channel capacity.                                                 *)
THEOREM FeedInOrder == Spec => []DeliveredInOrder
<1>1. OrderInv => DeliveredInOrder
  BY DEF OrderInv, Orderly, DeliveredInOrder
<1> QED
  BY <1>1, OrderInvariant, PTL

-----------------------------------------------------------------------------
(* The end of a connection.                                                *)

(* Between frames every output is carried out, unless the task is being    *)
(* aborted or nobody holds the connection; an announced end is the last    *)
(* output; a receiver that removes the entry found the channel empty and   *)
(* the task ended.                                                         *)
CarriedOut(c) ==
  task[c] = "none" \/ (c \in Live /\ ~aborting[c] /\ task[c] \notin {"forwarding", "announcing"})
    => done[c] = Len(script[c])

LastAnnounced(c) ==
  cause[c] \in Announced[platform] =>
    /\ task[c] \in {"announcing", "closing", "ended"}
    /\ script[c] # <<>> /\ script[c][Len(script[c])] = StreamClosed

EndInv ==
  /\ \A c \in Conns : CarriedOut(c) /\ LastAnnounced(c)
  /\ \A p \in Callers :
       pc[p] = "removing" => queue[target[p]] = <<>> /\ task[target[p]] = "ended"

LEMMA NotAnnounced ==
  ASSUME TypeOK
  PROVE  \A why \in {"none", "send_failed", "stream_ended", "shutdown", "receiver_gone", "aborted"} :
           why \notin Announced[platform]
BY PlatformAssumption DEF TypeOK

LEMMA EndInit == Init => EndInv
<1> SUFFICES ASSUME Init PROVE EndInv
  OBVIOUS
<1>1. TypeOK
  BY HandleInit DEF HandleInv
<1>2. \A c \in Conns : LastAnnounced(c)
  BY <1>1, NotAnnounced DEF Init, LastAnnounced
<1>3. \A c \in Conns : CarriedOut(c)
  BY DEF Init, CarriedOut
<1> QED
  BY <1>2, <1>3 DEF Init, EndInv

LEMMA EndCallerStep ==
  ASSUME HandleInv, EndInv, NEW p \in Callers, CallerStep(p)
  PROVE  EndInv'
<1> PICK c \in Conns : \E X : Touches(c, X)
  BY CallerTouches
<1> PICK X : Touches(c, X)
  OBVIOUS
<1>1. /\ \A d \in Conns : holders'[d] = IF d = c THEN X ELSE holders[d]
      /\ UNCHANGED <<platform, cause, script, done>>
  BY DEF Touches, HandleInv, TypeOK
<1>2. ASSUME NEW d \in Conns PROVE CarriedOut(d)'
  <2>1. task'[d] = task[d] \/ (task[d] = "none" /\ task'[d] = "dialing")
    BY DEF Touches, Creates, Keeps, Drops
  <2>2. d \in Live' /\ ~aborting'[d] => (d \in Live /\ ~aborting[d]) \/ task[d] = "none"
    BY <1>1 DEF Touches, Creates, Keeps, Drops, Live
  <2>3. CarriedOut(d)
    BY DEF EndInv
  <2> QED
    BY <1>1, <2>1, <2>2, <2>3 DEF CarriedOut
<1>3. ASSUME NEW d \in Conns PROVE LastAnnounced(d)'
  <2>1. task'[d] = task[d] \/ (task[d] = "none" /\ task'[d] = "dialing")
    BY DEF Touches, Creates, Keeps, Drops
  <2>2. LastAnnounced(d)
    BY DEF EndInv
  <2> QED
    BY <1>1, <2>1, <2>2 DEF LastAnnounced
<1>4. ASSUME NEW q \in Callers, pc'[q] = "removing"
      PROVE  queue'[target'[q]] = <<>> /\ task'[target'[q]] = "ended"
  <2>1. CASE pc[q] = "removing" /\ target'[q] = target[q]
    <3> PICK d \in Conns : d = target[q]
      BY <2>1 DEF HandleInv, TargetInv
    <3>1. queue[d] = <<>> /\ task[d] = "ended"
      BY <2>1 DEF EndInv
    <3>2. queue'[d] = queue[d] \/ queue[d] # <<>> \/ queue'[d] = <<>>
      BY DEF Touches, Creates, Keeps, Drops, Unread, Reads
    <3>3. task'[d] = task[d] \/ task[d] = "none"
      BY DEF Touches, Creates, Keeps, Drops
    <3> QED
      BY <2>1, <3>1, <3>2, <3>3
  <2>2. CASE ~(pc[q] = "removing" /\ target'[q] = target[q])
    <3>1. q = p /\ ReceiveClosed(p)
      <4>1. q = p
        <5>1. \A r \in Callers \ {p} : pc'[r] = pc[r] /\ target'[r] = target[r]
          BY CallerWorks DEF Works, Suspend, HandleInv, TypeOK
        <5> QED
          BY <1>4, <2>2, <5>1
      <4>2. CASE \E d \in Conns : Connect(p, d) \/ Receive(p, d) \/ Disconnect(p, d)
        BY <1>4, <4>1, <4>2 DEF Connect, Receive, Disconnect, Suspend, HandleInv, TypeOK
      <4>3. CASE \/ ConnectInsert(p) \/ ReceiveItem(p) \/ ReceiveTimeout(p) \/ ReceiveRemove(p)
                 \/ DisconnectShutdown(p) \/ Cancel(p)
        <5>1. Return(p)
          BY <4>3 DEF ConnectInsert, ReceiveItem, ReceiveTimeout, ReceiveRemove,
                      DisconnectShutdown, Cancel
        <5> QED
          BY <1>4, <4>1, <5>1 DEF Return, Suspend, HandleInv, TypeOK
      <4> QED
        BY <4>1, <4>2, <4>3 DEF CallerStep
    <3> QED
      BY <3>1 DEF ReceiveClosed, Suspend, HandleInv, TypeOK, itemVars
  <2> QED
    BY <2>1, <2>2
<1> QED
  BY <1>2, <1>3, <1>4 DEF EndInv

(* Finish keeps an announced end last.                                     *)
LEMMA FinishKeepsEnd ==
  ASSUME HandleInv, EndInv, NEW c \in Conns, NEW why \in Ends, NEW next \in {"ended", "closing"},
         task[c] \in {"dialing", "greeting", "stream"},
         Finish(c, why, next), UNCHANGED <<platform, holders, aborting, done>>
  PROVE  CarriedOut(c)' /\ LastAnnounced(c)'
<1>1. CarriedOut(c) /\ script[c] \in Seq(Names) /\ StreamClosed \in Names
  BY DEF EndInv, HandleInv, TypeOK, Names
<1>2. cause'[c] = why
  BY FinishEffect DEF HandleInv, TypeOK, TaskStates
<1>3. CASE /\ why \in Announced[platform]
           /\ script' = [script EXCEPT ![c] = Append(script[c], StreamClosed)]
           /\ task' = [task EXCEPT ![c] = "announcing"]
  <2>1. task'[c] = "announcing" /\ script'[c] = Append(script[c], StreamClosed)
    BY <1>3 DEF HandleInv, TypeOK
  <2>2. /\ script'[c] # <<>>
        /\ script'[c][Len(script'[c])] = StreamClosed
    BY <1>1, <2>1, AppendProperties
  <2> QED
    BY <2>1, <2>2 DEF CarriedOut, LastAnnounced
<1>4. CASE /\ why \notin Announced[platform]
           /\ script' = script
           /\ task' = [task EXCEPT ![c] = next]
  <2>1. LastAnnounced(c)'
    BY <1>2, <1>4 DEF LastAnnounced
  <2>2. CarriedOut(c)'
    <3>1. task'[c] = next
      BY <1>4 DEF HandleInv, TypeOK
    <3>2. (c \in Live /\ ~aborting[c]) => done[c] = Len(script[c])
      BY <1>1 DEF CarriedOut
    <3> QED
      BY <1>4, <3>1, <3>2 DEF CarriedOut, Live
  <2> QED
    BY <2>1, <2>2
<1> QED
  BY <1>3, <1>4, FinishEffect DEF HandleInv, TaskStates

LEMMA EndOfTaskStep ==
  ASSUME HandleInv, OrderInv, EndInv, NEW c \in Conns, TaskStep(c)
  PROVE  CarriedOut(c)' /\ LastAnnounced(c)'
<1>0. CarriedOut(c) /\ LastAnnounced(c) /\ done[c] <= Len(script[c])
  BY DEF EndInv, OrderInv, Orderly
<1> USE DEF callerVars, stopVars, itemVars
<1>1. CASE DialFailed(c) \/ GreetingFailed(c) \/ \E why \in Ends : StreamLost(c, why)
  <2>1. PICK why \in Ends, next \in {"ended", "closing"} : Finish(c, why, next)
    <3>1. CASE DialFailed(c)
      BY <3>1 DEF DialFailed, Ends
    <3>2. CASE GreetingFailed(c)
      BY <3>2 DEF GreetingFailed, Ends
    <3>3. CASE \E why \in Ends : StreamLost(c, why)
      BY <3>3 DEF StreamLost
    <3> QED
      BY <1>1, <3>1, <3>2, <3>3
  <2>2. /\ task[c] \in {"dialing", "greeting", "stream"}
        /\ UNCHANGED <<platform, holders, aborting, done>>
    BY <1>1 DEF DialFailed, GreetingFailed, StreamLost
  <2> QED
    BY <2>1, <2>2, FinishKeepsEnd
<1>2. CASE DialAccepted(c) \/ GreetingDone(c) \/ ForwardDone(c) \/ AnnounceDone(c) \/ SocketClosed(c)
  <2>1. /\ UNCHANGED <<platform, holders, aborting, cause, script, done>>
        /\ task' = [task EXCEPT ![c] = task'[c]]
    BY <1>2 DEF DialAccepted, GreetingDone, ForwardDone, AnnounceDone, SocketClosed, Goto,
                HandleInv, TypeOK
  <2>2. /\ task'[c] \in {"greeting", "stream", "closing", "ended"}
        /\ task'[c] \in {"greeting", "stream"} => task[c] \in {"dialing", "greeting", "forwarding"}
        /\ task[c] \in {"forwarding", "announcing"} => ~OutputsLeft(c) \/ c \notin Live
        /\ task[c] # "none"
    BY <1>2 DEF DialAccepted, GreetingDone, ForwardDone, AnnounceDone, SocketClosed, Goto,
                HandleInv, TypeOK
  <2>3. LastAnnounced(c)'
    BY <1>0, <2>1, <2>2 DEF LastAnnounced
  <2>4. ~OutputsLeft(c) => done[c] = Len(script[c])
    BY <1>0, LenProperties DEF OutputsLeft, HandleInv, TypeOK
  <2>5. CarriedOut(c)'
    BY <1>0, <2>1, <2>2, <2>4 DEF CarriedOut, Live
  <2> QED
    BY <2>3, <2>5
<1>3. CASE ReceiverGone(c) \/ StreamShutdown(c) \/ Aborted(c)
  <2>1. /\ UNCHANGED <<platform, holders, aborting, script, done>>
        /\ cause'[c] \in {"receiver_gone", "shutdown", "aborted"}
        /\ task'[c] # "none"
        /\ task[c] = "stream" \/ c \notin Live \/ aborting[c]
    BY <1>3 DEF ReceiverGone, StreamShutdown, Aborted, Because, Goto, HandleInv, TypeOK
  <2>2. LastAnnounced(c)'
    BY <2>1, NotAnnounced DEF LastAnnounced, HandleInv
  <2>3. CarriedOut(c)'
    BY <1>0, <2>1 DEF CarriedOut, Live
  <2> QED
    BY <2>2, <2>3
<1>4. CASE \E f \in Frames[platform] : Frame(c, f)
  <2>1. task[c] = "stream" /\ task'[c] = "forwarding" /\ UNCHANGED <<platform, cause>>
    BY <1>4 DEF Frame, Goto, HandleInv, TypeOK
  <2> QED
    BY <1>0, <2>1 DEF LastAnnounced, CarriedOut
<1>5. CASE SendReply(c) \/ Forward(c)
  <2>1. /\ task[c] \in {"forwarding", "announcing"}
        /\ UNCHANGED <<platform, cause, task, script>>
    BY <1>5 DEF SendReply, Forward
  <2> QED
    BY <1>0, <2>1 DEF LastAnnounced, CarriedOut
<1> QED
  BY <1>1, <1>2, <1>3, <1>4, <1>5 DEF TaskStep

LEMMA EndTaskStep ==
  ASSUME HandleInv, OrderInv, EndInv, NEW c \in Conns, TaskStep(c)
  PROVE  EndInv'
<1>1. /\ UNCHANGED <<platform, holders, pc, target, aborting>>
      /\ Running(c)
      /\ \E step \in TaskStates \ {"none"} : task' = [task EXCEPT ![c] = step]
  BY TaskStepFrame DEF HandleInv, callerVars
<1>2. \A d \in Conns \ {c} :
        UNCHANGED <<task[d], cause[d], script[d], done[d], queue[d]>>
  <2>0. Advances(c)
    BY TaskAdvances DEF HandleInv
  <2>1. \A d \in Conns \ {c} : UNCHANGED <<task[d], script[d], done[d], queue[d]>>
    BY <1>1, <2>0 DEF Advances, HandleInv, TypeOK
  <2>2. cause' = cause \/ \E why : cause' = [cause EXCEPT ![c] = why]
    BY DEF TaskStep, DialFailed, DialAccepted, GreetingFailed, GreetingDone, Frame, SendReply,
           Forward, ReceiverGone, ForwardDone, AnnounceDone, StreamLost, StreamShutdown,
           SocketClosed, Aborted, Finish, Because
  <2> QED
    BY <2>1, <2>2 DEF HandleInv, TypeOK
<1>3. ASSUME NEW d \in Conns PROVE CarriedOut(d)' /\ LastAnnounced(d)'
  <2>1. CASE d = c
    BY <2>1, EndOfTaskStep
  <2>2. CASE d # c
    BY <1>1, <1>2, <2>2 DEF EndInv, CarriedOut, LastAnnounced, Live
  <2> QED
    BY <2>1, <2>2
<1>4. ASSUME NEW q \in Callers, pc'[q] = "removing"
      PROVE  queue'[target'[q]] = <<>> /\ task'[target'[q]] = "ended"
  <2> PICK d \in Conns : d = target[q]
    BY <1>1, <1>4 DEF HandleInv, TargetInv
  <2>1. queue[d] = <<>> /\ task[d] = "ended"
    BY <1>1, <1>4 DEF EndInv
  <2>2. d # c
    BY <1>1, <2>1 DEF Running
  <2> QED
    BY <1>1, <1>2, <2>1, <2>2
<1> QED
  BY <1>3, <1>4 DEF EndInv

LEMMA EndInvariant == Spec => []EndInv
<1>1. HandleInv /\ OrderInv /\ EndInv /\ [Next]_vars => EndInv'
  <2>1. CASE UNCHANGED vars
    BY <2>1 DEF EndInv, CarriedOut, LastAnnounced, Live, vars, callerVars, stopVars, itemVars
  <2> QED
    BY <2>1, EndCallerStep, EndTaskStep DEF Next
<1> QED
  BY <1>1, EndInit, HandleInvariant, OrderInvariant, PTL DEF Spec

(* When receive is about to report that the channel is closed, on a task    *)
(* that was not aborted, every item was delivered and an announced end was *)
(* the last of them.                                                       *)
THEOREM AnnouncedBeforeClosed == Spec => []EndAnnouncedBeforeClosed
<1>1. HandleInv /\ OrderInv /\ EndInv => EndAnnouncedBeforeClosed
  <2> SUFFICES ASSUME HandleInv, OrderInv, EndInv, NEW p \in Callers,
                      pc[p] = "removing", ~aborting[target[p]]
               PROVE  LET c == target[p]
                          n == Len(delivered[c])
                      IN  /\ \A k \in 1..Len(script[c]) :
                               script[c][k] # Reply => \E i \in 1..n : delivered[c][i] = k
                          /\ cause[c] \in Announced[platform] =>
                               n > 0 /\ script[c][delivered[c][n]] = StreamClosed
    BY DEF EndAnnouncedBeforeClosed
  <2> PICK c \in Conns : c = target[p]
    BY DEF HandleInv, TargetInv
  <2>1. c \in Live
    BY DEF HandleInv, NothingOutlivesItsHandle, Live
  <2>2. queue[c] = <<>> /\ task[c] = "ended"
    BY DEF EndInv
  <2>3. done[c] = Len(script[c])
    BY <2>1, <2>2 DEF EndInv, CarriedOut
  <2>4. delivered[c] \in Seq(Nat) /\ Len(delivered[c]) \in Nat /\ Len(script[c]) \in Nat
    BY LenProperties DEF HandleInv, TypeOK
  <2>5. Accepted(c) = delivered[c]
    BY <2>2, <2>4, ConcatEmptySeq DEF Accepted
  <2>6. Orderly(delivered[c], script[c], done[c], TRUE)
    BY <2>1, <2>5 DEF OrderInv, Orderly
  <2>7. \A k \in 1..Len(script[c]) :
          script[c][k] # Reply => \E i \in 1..Len(delivered[c]) : delivered[c][i] = k
    BY <2>3, <2>6 DEF Orderly
  <2>8. ASSUME cause[c] \in Announced[platform]
        PROVE  /\ Len(delivered[c]) > 0
               /\ script[c][delivered[c][Len(delivered[c])]] = StreamClosed
    <3>1. script[c] # <<>> /\ script[c][Len(script[c])] = StreamClosed
      BY <2>8 DEF EndInv, LastAnnounced
    <3>2. Len(script[c]) \in 1..Len(script[c])
      BY <3>1, EmptySeq DEF HandleInv, TypeOK
    <3>3. PICK i \in 1..Len(delivered[c]) : delivered[c][i] = Len(script[c])
      BY <2>7, <3>1, <3>2 DEF Reply, StreamClosed
    <3>4. Len(delivered[c]) \in 1..Len(delivered[c])
      BY <2>4
    <3>5. delivered[c][Len(delivered[c])] = Len(script[c])
      <4>1. delivered[c][Len(delivered[c])] \in 1..Len(script[c])
        BY <2>3, <2>6, <3>4 DEF Orderly
      <4>2. i = Len(delivered[c]) \/ delivered[c][i] < delivered[c][Len(delivered[c])]
        BY <2>4, <2>6, <3>4 DEF Orderly
      <4> QED
        BY <2>4, <3>3, <4>1, <4>2
    <3> QED
      BY <2>4, <3>1, <3>4, <3>5
  <2> QED
    BY <2>7, <2>8
<1> QED
  BY <1>1, HandleInvariant, OrderInvariant, EndInvariant, PTL

-----------------------------------------------------------------------------
(* Disconnect.                                                             *)

(* None can be inserted that is being disconnected or was told to abort: a  *)
(* connection that is being brought up has only its own caller.  With one  *)
(* handle per connection, nobody receives from it either.                  *)
Stopping(c) ==
  aborting[c] \/ \E p \in Callers : pc[p] = "disconnecting" /\ target[p] = c

Excluded == IF SharedHandle THEN {"connecting"} ELSE {"connecting", "receiving"}

SilentInv ==
  /\ \A c \in Conns : Stopping(c) =>
       /\ task[c] # "none"
       /\ "map" \notin holders[c]
       /\ \A p \in Callers : target[p] = c => pc[p] \notin Excluded
  /\ \A p \in Callers : pc[p] = "connecting" => holders[target[p]] = {p}

LEMMA SilentBegin ==
  ASSUME HandleInv, SilentInv, NEW p \in Callers, NEW c \in Conns,
         Connect(p, c) \/ Receive(p, c) \/ Disconnect(p, c)
  PROVE  SilentInv'
<1>0. "map" \notin Callers
  BY PlatformAssumption
<1> USE DEF SilentInv, Stopping, Excluded, Suspend, HandleInv, TypeOK, TargetInv, stopVars
<1>1. CASE Connect(p, c)
  <2>1. ASSUME NEW d \in Conns, Stopping(d)'
        PROVE  /\ task'[d] # "none"
               /\ "map" \notin holders'[d]
               /\ \A q \in Callers : target'[q] = d => pc'[q] \notin Excluded
    BY <1>0, <1>1, <2>1 DEF Connect
  <2>2. ASSUME NEW q \in Callers, pc'[q] = "connecting" PROVE holders'[target'[q]] = {q}
    BY <1>1, <2>2 DEF Connect
  <2> QED
    BY <2>1, <2>2
<1>2. CASE Receive(p, c)
  <2>1. ~Stopping(c)
    BY <1>2 DEF Receive, Connections
  <2>2. ASSUME NEW d \in Conns, Stopping(d)'
        PROVE  /\ task'[d] # "none"
               /\ "map" \notin holders'[d]
               /\ \A q \in Callers : target'[q] = d => pc'[q] \notin Excluded
    <3>1. Stopping(d)
      BY <1>2, <2>2 DEF Receive
    <3> QED
      BY <1>0, <1>2, <2>1, <3>1 DEF Receive
  <2>3. ASSUME NEW q \in Callers, pc'[q] = "connecting" PROVE holders'[target'[q]] = {q}
    BY <1>0, <1>2, <2>3 DEF Receive, Connections
  <2> QED
    BY <2>2, <2>3
<1>3. CASE Disconnect(p, c)
  <2>1. \A q \in Callers : target[q] = c => pc[q] \notin Excluded
    BY <1>0, <1>3 DEF Disconnect, Connections, BeingReceived
  <2>2. ASSUME NEW d \in Conns, Stopping(d)'
        PROVE  /\ task'[d] # "none"
               /\ "map" \notin holders'[d]
               /\ \A q \in Callers : target'[q] = d => pc'[q] \notin Excluded
    <3>1. CASE d = c
      <4>1. task[c] # "none"
        BY <1>3 DEF Disconnect, Connections
      <4> QED
        BY <1>0, <1>3, <2>1, <3>1, <4>1 DEF Disconnect
    <3>2. CASE d # c
      <4>1. Stopping(d)
        BY <1>3, <2>2, <3>2 DEF Disconnect
      <4> QED
        BY <1>3, <3>2, <4>1 DEF Disconnect
    <3> QED
      BY <3>1, <3>2
  <2>3. ASSUME NEW q \in Callers, pc'[q] = "connecting" PROVE holders'[target'[q]] = {q}
    BY <1>0, <1>3, <2>3 DEF Disconnect, Connections
  <2> QED
    BY <2>2, <2>3
<1> QED
  BY <1>1, <1>2, <1>3

(* A caller that goes on or returns stops a connection only by being its    *)
(* disconnect or its last holder.                                          *)
LEMMA StopCause ==
  ASSUME HandleInv, NEW p \in Callers,
         ~ \E c \in Conns : Connect(p, c) \/ Receive(p, c) \/ Disconnect(p, c),
         CallerStep(p), NEW d \in Conns, aborting'[d]
  PROVE  \/ aborting[d] \/ holders'[d] = {}
         \/ (pc[p] = "disconnecting" /\ target[p] = d)
<1>1. CASE ConnectInsert(p) \/ ReceiveClosed(p)
  BY <1>1 DEF ConnectInsert, ReceiveClosed, stopVars
<1>2. CASE DisconnectShutdown(p)
  BY <1>2 DEF DisconnectShutdown, HandleInv, TypeOK, TargetInv
<1>3. CASE ReceiveItem(p) \/ ReceiveTimeout(p) \/ ReceiveRemove(p) \/ Cancel(p)
  <2> PICK c \in Conns : c = target[p]
    BY <1>3 DEF ReceiveItem, ReceiveTimeout, ReceiveRemove, Cancel, HandleInv, TargetInv
  <2>1. PICK H, q : Release(c, H, shutdown[c], q)
    BY <1>3 DEF ReceiveItem, ReceiveTimeout, ReceiveRemove, Cancel
  <2>2. aborting' = [aborting EXCEPT ![c] = aborting[c] \/ holders[c] \subseteq H]
    BY <2>1 DEF Release
  <2>3. d # c => aborting'[d] = aborting[d]
    BY <2>2 DEF HandleInv, TypeOK
  <2>4. d = c => (aborting'[c] <=> (aborting[c] \/ holders[c] \subseteq H))
    BY <2>2, Zenon DEF HandleInv, TypeOK
  <2>5. holders[c] \subseteq H => holders'[c] = {}
    BY <2>1 DEF Release, HandleInv, TypeOK
  <2> QED
    BY <2>3, <2>4, <2>5
<1> QED
  BY <1>1, <1>2, <1>3 DEF CallerStep

LEMMA SilentGoOn ==
  ASSUME HandleInv, SilentInv, NEW p \in Callers,
         ~ \E c \in Conns : Connect(p, c) \/ Receive(p, c) \/ Disconnect(p, c),
         CallerStep(p)
  PROVE  SilentInv'
<1>0. "map" \notin Callers /\ pc[p] # "idle"
  BY PlatformAssumption DEF CallerStep, ConnectInsert, ReceiveItem, ReceiveTimeout, ReceiveClosed,
                            ReceiveRemove, DisconnectShutdown, Cancel
<1> PICK c \in Conns : c = target[p]
  BY <1>0 DEF HandleInv, TargetInv
<1>1. /\ task' = task
      /\ \A d \in Conns \ {c} : holders'[d] = holders[d]
      /\ holders'[c] \subseteq holders[c] \/ (ConnectInsert(p) /\ "map" \in holders'[c])
      /\ \A q \in Callers \ {p} : pc'[q] = pc[q] /\ target'[q] = target[q]
      /\ pc'[p] \in {"idle", "removing"}
  BY DEF CallerStep, ConnectInsert, ReceiveItem, ReceiveTimeout, ReceiveClosed, ReceiveRemove,
         DisconnectShutdown, Cancel, Release, Return, Suspend, HandleInv, TypeOK
<1>2. HandleInv'
  BY TypeCallerStep, HandleCallerStep DEF HandleInv
<1>3. ASSUME NEW d \in Conns, Stopping(d)'
      PROVE  /\ task'[d] # "none"
             /\ "map" \notin holders'[d]
             /\ \A q \in Callers : target'[q] = d => pc'[q] \notin Excluded
  <2>1. CASE holders'[d] = {}
    <3>1. \A q \in Callers : target'[q] = d => pc'[q] = "idle"
      BY <1>2, <2>1 DEF HandleInv, NothingOutlivesItsHandle
    <3>2. ~ \E q \in Callers : pc'[q] = "disconnecting" /\ target'[q] = d
      BY <3>1
    <3>3. task[d] # "none"
      <4>1. CASE d = c
        BY <1>0, <4>1 DEF HandleInv, TargetInv
      <4>2. CASE d # c
        <5>1. aborting'[d] /\ ~(pc[p] = "disconnecting" /\ target[p] = d)
          BY <1>3, <3>2, <4>2 DEF Stopping
        <5>2. \/ aborting[d] \/ task[d] # "none"
          <6>1. aborting' = aborting \/ \E v : aborting' = [aborting EXCEPT ![c] = v]
            BY DEF CallerStep, ConnectInsert, ReceiveItem, ReceiveTimeout, ReceiveClosed,
                   ReceiveRemove, DisconnectShutdown, Cancel, Release, stopVars
          <6> QED
            BY <4>2, <5>1, <6>1 DEF HandleInv, TypeOK
        <5> QED
          BY <5>2 DEF SilentInv, Stopping
      <4> QED
        BY <4>1, <4>2
    <3> QED
      BY <1>1, <2>1, <3>1, <3>3 DEF Excluded
  <2>2. CASE holders'[d] # {}
    <3>1. Stopping(d)
      <4>1. CASE aborting'[d]
        BY <2>2, <4>1, StopCause DEF Stopping
      <4>2. CASE ~aborting'[d]
        BY <1>1, <1>3, <4>2 DEF Stopping
      <4> QED
        BY <4>1, <4>2
    <3>2. "map" \notin holders'[d]
      <4>1. ~(d = c /\ ConnectInsert(p))
        BY <3>1 DEF SilentInv, ConnectInsert, Excluded
      <4> QED
        BY <1>1, <3>1, <4>1 DEF SilentInv
    <3> QED
      BY <1>1, <3>1, <3>2 DEF SilentInv, Excluded
  <2> QED
    BY <2>1, <2>2
<1>4. ASSUME NEW q \in Callers, pc'[q] = "connecting" PROVE holders'[target'[q]] = {q}
  <2>1. q # p /\ pc[q] = "connecting" /\ target'[q] = target[q]
    BY <1>1, <1>4
  <2> PICK d \in Conns : d = target[q]
    BY <2>1 DEF HandleInv, TargetInv
  <2>2. holders[d] = {q}
    BY <2>1 DEF SilentInv
  <2>3. p \in holders[c]
    BY <1>0 DEF HandleInv, NothingOutlivesItsHandle
  <2>4. d # c
    BY <2>1, <2>2, <2>3
  <2> QED
    BY <1>1, <2>1, <2>2, <2>4
<1> QED
  BY <1>3, <1>4 DEF SilentInv

LEMMA SilentTaskStep ==
  ASSUME HandleInv, SilentInv, NEW c \in Conns, TaskStep(c)
  PROVE  SilentInv'
<1>1. /\ UNCHANGED <<holders, pc, target, aborting>>
      /\ \E step \in TaskStates \ {"none"} : task' = [task EXCEPT ![c] = step]
  BY TaskStepFrame DEF HandleInv, callerVars
<1> QED
  BY <1>1 DEF SilentInv, Stopping, HandleInv, TypeOK

LEMMA SilentInvariant == Spec => []SilentInv
<1>1. Init => SilentInv
  BY DEF Init, SilentInv, Stopping
<1>2. HandleInv /\ SilentInv /\ [Next]_vars => SilentInv'
  <2>1. CASE UNCHANGED vars
    BY <2>1 DEF SilentInv, Stopping, vars, callerVars, stopVars
  <2> QED
    BY <2>1, SilentBegin, SilentGoOn, SilentTaskStep DEF Next
<1> QED
  BY <1>1, <1>2, HandleInvariant, PTL DEF Spec

(* With one handle per connection, a disconnect that returned is final:     *)
(* whatever was still in the channel, nothing more is delivered.           *)
THEOREM DisconnectFinal == ~SharedHandle /\ Spec => DisconnectIsFinal
<1> SUFFICES ASSUME ~SharedHandle PROVE Spec => DisconnectIsFinal
  OBVIOUS
<1>1. HandleInv /\ SilentInv /\ [Next]_vars
        => [\A c \in Conns : aborting[c] => delivered'[c] = delivered[c]]_vars
  <2> SUFFICES ASSUME HandleInv, SilentInv, Next, NEW c \in Conns, aborting[c]
               PROVE  delivered'[c] = delivered[c]
    OBVIOUS
  <2>1. ASSUME NEW p \in Callers, CallerStep(p) PROVE delivered'[c] = delivered[c]
    <3>1. CASE ReceiveItem(p)
      <4>1. target[p] # c
        BY <3>1 DEF ReceiveItem, SilentInv, Stopping, Excluded
      <4> QED
        BY <3>1, <4>1 DEF ReceiveItem, HandleInv, TypeOK, TargetInv
    <3>2. CASE ~ReceiveItem(p)
      BY <2>1, <3>2 DEF CallerStep, Connect, Receive, Disconnect, ConnectInsert, ReceiveTimeout,
                        ReceiveClosed, ReceiveRemove, DisconnectShutdown, Cancel, itemVars
    <3> QED
      BY <3>1, <3>2
  <2>2. ASSUME NEW d \in Conns, TaskStep(d) PROVE delivered'[c] = delivered[c]
    BY <2>2, TaskStepFrame DEF HandleInv
  <2> QED
    BY <2>1, <2>2 DEF Next
<1> QED
  BY <1>1, HandleInvariant, SilentInvariant, PTL DEF Spec, DisconnectIsFinal

-----------------------------------------------------------------------------
(* The items of a script.                                                  *)

LEMMA LeastOf ==
  ASSUME NEW T \in SUBSET Nat, T # {}
  PROVE  \E n \in T : \A m \in T : n <= m
<1>1. PICK n \in T : \A m \in T : ~(<<m, n>> \in OpToRel(<, Nat))
  BY NatLessThanWellFounded, WFMin
<1>2. \A m \in T : ~(m < n)
  BY <1>1 DEF OpToRel
<1> QED
  BY <1>2

(* Two sequences that list the items of a script in order, one as far as m  *)
(* and one further, agree as long as the first goes.                       *)
LEMMA OrderlyAgree ==
  ASSUME NEW a \in Seq(Nat), NEW b \in Seq(Nat), NEW scr, NEW more, NEW m \in Nat, NEW n \in Nat,
         Orderly(a, scr, m, TRUE), Orderly(b, more, n, TRUE), m <= n,
         \A k \in 1..m : more[k] = scr[k]
  PROVE  \A i \in 1..Len(a) : i \in 1..Len(b) /\ a[i] = b[i]
<1> DEFINE T == {i \in 1..Len(a) : ~(i \in 1..Len(b) /\ a[i] = b[i])}
<1> SUFFICES ASSUME T # {} PROVE FALSE
  OBVIOUS
<1>0. T \in SUBSET Nat
  OBVIOUS
<1>1. PICK i \in T : \A j \in T : i <= j
  <2> HIDE DEF T
  <2> QED
    BY <1>0, LeastOf
<1>2. i \in 1..Len(a) /\ ~(i \in 1..Len(b) /\ a[i] = b[i])
  OBVIOUS
<1>3. Len(a) \in Nat /\ Len(b) \in Nat
  OBVIOUS
<1>4. \A j \in 1..Len(a) : j < i => j \in 1..Len(b) /\ a[j] = b[j]
  BY <1>1, <1>3
<1> HIDE DEF T
<1>5. a[i] \in 1..m /\ more[a[i]] # Reply /\ a[i] \in 1..n
  <2>1. a[i] \in 1..m /\ scr[a[i]] # Reply
    BY <1>2 DEF Orderly
  <2> QED
    BY <2>1
<1>6. PICK l \in 1..Len(b) : b[l] = a[i]
  BY <1>5 DEF Orderly
<1>7. CASE l < i
  <2>1. l \in 1..Len(a) /\ a[l] = b[l]
    BY <1>2, <1>3, <1>4, <1>7
  <2>2. a[l] < a[i]
    BY <1>2, <1>7, <2>1 DEF Orderly
  <2> QED
    BY <1>5, <1>6, <2>1, <2>2
<1>8. CASE l = i
  BY <1>2, <1>6, <1>8
<1>9. CASE l > i
  <2>1. i \in 1..Len(b)
    BY <1>2, <1>3, <1>9
  <2>2. b[i] < b[l] /\ b[i] \in 1..n /\ more[b[i]] # Reply
    BY <1>9, <2>1 DEF Orderly
  <2>3. b[i] \in 1..m /\ scr[b[i]] # Reply
    BY <1>5, <1>6, <2>2, SMTT(30)
  <2>4. PICK j \in 1..Len(a) : a[j] = b[i]
    BY <2>3 DEF Orderly
  <2>5. j < i
    <3>1. i < j => a[i] < a[j]
      BY <1>2, <2>4 DEF Orderly
    <3>2. a[j] < a[i] /\ a[j] \in Nat /\ a[i] \in Nat
      BY <1>5, <1>6, <2>2, <2>4, SMTT(30)
    <3> QED
      BY <1>2, <1>3, <3>1, <3>2, SMTT(30)
  <2>6. j \in 1..Len(b) /\ a[j] = b[j]
    BY <1>4, <2>5
  <2>7. b[j] < b[i]
    BY <2>1, <2>5, <2>6 DEF Orderly
  <2> QED
    BY <2>2, <2>4, <2>6, <2>7
<1> QED
  BY <1>2, <1>3, <1>7, <1>8, <1>9

LEMMA OrderlyUnique ==
  ASSUME NEW a \in Seq(Nat), NEW b \in Seq(Nat), NEW scr, NEW n \in Nat,
         Orderly(a, scr, n, TRUE), Orderly(b, scr, n, TRUE)
  PROVE  a = b
<1>1. /\ \A i \in 1..Len(a) : i \in 1..Len(b) /\ a[i] = b[i]
      /\ \A i \in 1..Len(b) : i \in 1..Len(a) /\ b[i] = a[i]
  <2>1. n <= n /\ \A k \in 1..n : scr[k] = scr[k]
    OBVIOUS
  <2> QED
    BY <2>1, OrderlyAgree
<1>2. Len(a) \in Nat /\ Len(b) \in Nat
  OBVIOUS
<1>3. Len(a) = Len(b)
  BY <1>1, <1>2
<1> QED
  BY <1>1, <1>3, SeqEqual

(* One more output.                                                        *)
LEMMA OrderlyNext ==
  ASSUME NEW scr \in Seq(Names), NEW n \in Nat, n < Len(scr),
         NEW e \in Seq(Nat), Orderly(e, scr, n, TRUE)
  PROVE  /\ scr[n + 1] = Reply => Orderly(e, scr, n + 1, TRUE)
         /\ scr[n + 1] # Reply => Orderly(Append(e, n + 1), scr, n + 1, TRUE)
<1>1. <<>> \o e = e /\ <<>> \o Append(e, n + 1) = Append(e, n + 1) /\ <<>> \in Seq(Nat)
  BY ConcatEmptySeq, AppendProperties
<1> QED
  BY <1>1, ReplyOrderly, PutOrderly

LEMMA OrderlyNone ==
  ASSUME NEW scr \in Seq(Names)
  PROVE  Orderly(<<>>, scr, 0, TRUE)
BY LenProperties DEF Orderly

(* The recursion of ItemsOf lists them.                                    *)
LEMMA ItemsListed ==
  ASSUME NEW scr \in Seq(Names)
  PROVE  ItemsOf(scr) \in Seq(Nat) /\ Orderly(ItemsOf(scr), scr, Len(scr), TRUE)
<1> DEFINE L == Len(scr)
           Step(f) == [n \in 0..L |->
                         IF n = 0 THEN <<>>
                         ELSE IF scr[n] = Reply THEN f[n - 1] ELSE Append(f[n - 1], n)]
           upto == CHOOSE f : f = Step(f)
           Lists(e, n) == e \in Seq(Nat) /\ Orderly(e, scr, n, TRUE)
           chosen == [n \in 0..L |-> CHOOSE e : Lists(e, n)]
<1>1. ItemsOf(scr) = upto[L]
  BY Zenon DEF ItemsOf
<1>2. L \in Nat
  BY LenProperties
<1>3. Lists(<<>>, 0)
  <2>1. <<>> \in Seq(Nat)
    OBVIOUS
  <2> QED
    BY <2>1, OrderlyNone
<1>4. ASSUME NEW n \in 1..L, NEW e, Lists(e, n - 1)
      PROVE  Lists(IF scr[n] = Reply THEN e ELSE Append(e, n), n)
  <2>1. n - 1 \in Nat /\ n - 1 < Len(scr) /\ (n - 1) + 1 = n /\ n \in Nat
    BY <1>2
  <2>2. e \in Seq(Nat) /\ Append(e, n) \in Seq(Nat) /\ Orderly(e, scr, n - 1, TRUE)
    BY <1>4, <2>1, AppendProperties
  <2>3. /\ scr[(n - 1) + 1] = Reply => Orderly(e, scr, (n - 1) + 1, TRUE)
        /\ scr[(n - 1) + 1] # Reply => Orderly(Append(e, (n - 1) + 1), scr, (n - 1) + 1, TRUE)
    BY <2>1, <2>2, OrderlyNext
  <2> QED
    BY <2>1, <2>2, <2>3
<1>5. ASSUME NEW a, NEW b, NEW n \in 0..L, Lists(a, n), Lists(b, n) PROVE a = b
  <2>1. n \in Nat
    BY <1>2
  <2> QED
    BY <1>5, <2>1, OrderlyUnique
<1> HIDE DEF L, Lists
<1>6. ASSUME NEW f, f = Step(f) PROVE \A n \in 0..L : Lists(f[n], n)
  <2> DEFINE T == {n \in 0..L : ~Lists(f[n], n)}
  <2> SUFFICES ASSUME T # {} PROVE FALSE
    OBVIOUS
  <2>0. T \in SUBSET Nat
    BY <1>2
  <2>1. PICK n \in T : \A m \in T : n <= m
    <3> HIDE DEF T
    <3> QED
      BY <2>0, LeastOf
  <2>2. n \in 0..L /\ ~Lists(f[n], n)
    OBVIOUS
  <2>3. f[n] = IF n = 0 THEN <<>>
               ELSE IF scr[n] = Reply THEN f[n - 1] ELSE Append(f[n - 1], n)
    BY <1>6, <2>2
  <2>4. n # 0
    BY <1>3, <2>2, <2>3
  <2>5. n \in 1..L /\ n - 1 \in 0..L /\ ~(n <= n - 1)
    BY <1>2, <2>2, <2>4
  <2>6. Lists(f[n - 1], n - 1)
    BY <2>1, <2>5
  <2> QED
    BY <1>4, <2>2, <2>3, <2>4, <2>5, <2>6
<1>7. \A n \in 0..L : \E e : Lists(e, n)
  <2> DEFINE T == {n \in 0..L : ~ \E e : Lists(e, n)}
  <2> SUFFICES ASSUME T # {} PROVE FALSE
    OBVIOUS
  <2>0. T \in SUBSET Nat
    BY <1>2
  <2>1. PICK n \in T : \A m \in T : n <= m
    <3> HIDE DEF T
    <3> QED
      BY <2>0, LeastOf
  <2>2. n \in 0..L /\ ~ \E e : Lists(e, n)
    OBVIOUS
  <2>3. n \in 1..L /\ n - 1 \in 0..L /\ ~(n <= n - 1)
    BY <1>2, <1>3, <2>2
  <2>4. PICK e : Lists(e, n - 1)
    BY <2>1, <2>3
  <2> QED
    BY <1>4, <2>2, <2>3, <2>4
<1>8. \A n \in 0..L : Lists(chosen[n], n)
  BY <1>7
<1>9. chosen = Step(chosen)
  <2> HIDE DEF chosen
  <2>1. ASSUME NEW n \in 0..L
        PROVE  chosen[n] = IF n = 0 THEN <<>>
                           ELSE IF scr[n] = Reply THEN chosen[n - 1] ELSE Append(chosen[n - 1], n)
    <3>1. CASE n = 0
      BY <1>3, <1>5, <1>8, <3>1
    <3>2. CASE n # 0
      <4>1. n \in 1..L /\ n - 1 \in 0..L
        BY <1>2, <3>2
      <4>2. Lists(IF scr[n] = Reply THEN chosen[n - 1] ELSE Append(chosen[n - 1], n), n)
        BY <1>4, <1>8, <4>1
      <4> QED
        BY <1>5, <1>8, <3>2, <4>2
    <3> QED
      BY <3>1, <3>2
  <2>2. chosen = [n \in 0..L |-> chosen[n]]
    BY DEF chosen
  <2> QED
    BY <2>1, <2>2
<1>10. upto = Step(upto)
  BY <1>9
<1> HIDE DEF upto, Step
<1>11. Lists(upto[L], L)
  BY <1>2, <1>6, <1>10
<1> QED
  BY <1>1, <1>11 DEF L, Lists

-----------------------------------------------------------------------------
(* Phases.                                                                 *)

Bringing(c) == \E p \in Callers : pc[p] = "connecting" /\ target[p] = c

(* The phase of a connection, told by who holds it.                        *)
Told(c) ==
  /\ FeedPhase(c) = "none" <=> task[c] = "none"
  /\ FeedPhase(c) = "gone" <=> task[c] # "none" /\ holders[c] = {}
  /\ FeedPhase(c) = "open" <=> "map" \in holders[c]
  /\ FeedPhase(c) = "connecting" <=> Bringing(c)
  /\ FeedPhase(c) = "stopping" <=>
       holders[c] # {} /\ "map" \notin holders[c] /\ ~Bringing(c)
  /\ FeedPhase(c) \in {"none", "gone", "open", "connecting", "stopping"}

LEMMA PhaseTold == HandleInv /\ SilentInv => \A c \in Conns : Told(c)
<1> SUFFICES ASSUME HandleInv, SilentInv, NEW c \in Conns PROVE Told(c)
  OBVIOUS
<1>0. "map" \notin Callers
  BY PlatformAssumption
<1>1. task[c] = "none" => holders[c] = {}
  BY DEF HandleInv, TargetInv
<1>2. Bringing(c) <=> \E p \in holders[c] \ {"map"} : pc[p] = "connecting"
  <2>1. \A p \in Callers : pc[p] = "connecting" /\ target[p] = c => p \in holders[c] \ {"map"}
    BY <1>0 DEF HandleInv, NothingOutlivesItsHandle
  <2>2. \A p \in holders[c] \ {"map"} : p \in Callers /\ target[p] = c
    BY DEF HandleInv, TypeOK, NothingOutlivesItsHandle
  <2> QED
    BY <2>1, <2>2 DEF Bringing
<1>3. Bringing(c) => "map" \notin holders[c] /\ holders[c] # {}
  BY <1>0 DEF Bringing, SilentInv
<1>4. FeedPhase(c) =
        IF task[c] = "none" THEN "none"
        ELSE IF holders[c] = {} THEN "gone"
        ELSE IF "map" \in holders[c] THEN "open"
        ELSE IF Bringing(c) THEN "connecting" ELSE "stopping"
  <2> DEFINE none == task[c] = "none"
             gone == task[c] # "none" /\ c \notin Live
             open == c \in Connections
             connecting == \E p \in holders[c] \ {"map"} : pc[p] = "connecting"
  <2>1. FeedPhase(c) = CASE none -> "none" [] gone -> "gone" [] open -> "open"
                         [] connecting -> "connecting" [] OTHER -> "stopping"
    BY Zenon DEF FeedPhase
  <2>2. /\ gone <=> task[c] # "none" /\ holders[c] = {}
        /\ open <=> "map" \in holders[c]
        /\ none => ~gone /\ ~open /\ ~connecting
        /\ gone => ~open /\ ~connecting
        /\ open => ~connecting
    BY <1>1, <1>2, <1>3 DEF Live, Connections
  <2>3. none <=> task[c] = "none"
    OBVIOUS
  <2>4. connecting <=> Bringing(c)
    BY <1>2
  <2> HIDE DEF none, gone, open, connecting
  <2>5. /\ none => FeedPhase(c) = "none"
        /\ gone => FeedPhase(c) = "gone"
        /\ open => FeedPhase(c) = "open"
        /\ connecting => FeedPhase(c) = "connecting"
        /\ ~none /\ ~gone /\ ~open /\ ~connecting => FeedPhase(c) = "stopping"
    BY <2>1, <2>2, Zenon
  <2> QED
    BY <2>2, <2>3, <2>4, <2>5
<1> QED
  BY <1>1, <1>3, <1>4 DEF Told

LEMMA PhaseToldNext == HandleInv' /\ SilentInv' => \A c \in Conns : Told(c)'
<1>1. HandleInv' /\ SilentInv' => (\A c \in Conns : Told(c))'
  BY PhaseTold, PTL
<1> QED
  BY <1>1

(* A connection that nobody starts or ends to hold or to bring up.         *)
LEMMA PhaseKept ==
  ASSUME NEW c \in Conns, Told(c), Told(c)',
         task'[c] = "none" <=> task[c] = "none",
         holders'[c] = {} <=> holders[c] = {},
         "map" \in holders'[c] <=> "map" \in holders[c],
         Bringing(c)' <=> Bringing(c)
  PROVE  FeedPhase(c)' = FeedPhase(c)
BY DEF Told

(* A step that changes the phase of one connection is a move of the feed.   *)
PhaseMoves(c, from, to) ==
  /\ FeedPhase(c) = from
  /\ FeedPhase(c)' = to
  /\ \A d \in Conns \ {c} : FeedPhase(d)' = FeedPhase(d)

LEMMA MoveMaps ==
  ASSUME NEW c \in Conns, NEW from, NEW to, PhaseMoves(c, from, to)
  PROVE  /\ Feed!Move(c, from, to)
         /\ from = to => UNCHANGED [d \in Conns |-> FeedPhase(d)]
BY DEF PhaseMoves, Feed!Move

(* A caller's step concerns one connection; the others keep their phase.    *)
Concerns(p, c) ==
  /\ pc[p] = "idle" \/ target[p] = c
  /\ pc'[p] = "idle" \/ target'[p] = c
  /\ \A q \in Callers \ {p} : pc'[q] = pc[q] /\ target'[q] = target[q]
  /\ \A d \in Conns \ {c} : holders'[d] = holders[d] /\ task'[d] = task[d]

LEMMA OthersKeepPhase ==
  ASSUME \A d \in Conns : Told(d) /\ Told(d)',
         NEW p \in Callers, NEW c \in Conns, Concerns(p, c)
  PROVE  \A d \in Conns \ {c} : FeedPhase(d)' = FeedPhase(d)
<1> SUFFICES ASSUME NEW d \in Conns \ {c} PROVE FeedPhase(d)' = FeedPhase(d)
  OBVIOUS
<1>1. Bringing(d)' <=> Bringing(d)
  BY DEF Bringing, Concerns
<1>2. holders'[d] = holders[d] /\ task'[d] = task[d]
  BY DEF Concerns
<1> QED
  BY <1>1, <1>2, PhaseKept

LEMMA CallerConcerns ==
  ASSUME HandleInv, NEW p \in Callers, CallerStep(p)
  PROVE  \E c \in Conns :
           /\ Concerns(p, c)
           /\ \/ Connect(p, c) \/ Receive(p, c) \/ Disconnect(p, c)
              \/ pc[p] # "idle" /\ target[p] = c
<1>1. CASE \E c \in Conns : Connect(p, c) \/ Receive(p, c) \/ Disconnect(p, c)
  <2> PICK c \in Conns : Connect(p, c) \/ Receive(p, c) \/ Disconnect(p, c)
    BY <1>1
  <2>1. Concerns(p, c)
    BY DEF Connect, Receive, Disconnect, Concerns, Suspend, HandleInv, TypeOK
  <2> QED
    BY <2>1
<1>2. CASE ~ \E c \in Conns : Connect(p, c) \/ Receive(p, c) \/ Disconnect(p, c)
  <2>1. pc[p] # "idle"
    BY <1>2 DEF CallerStep, ConnectInsert, ReceiveItem, ReceiveTimeout, ReceiveClosed,
                ReceiveRemove, DisconnectShutdown, Cancel
  <2> PICK c \in Conns : c = target[p]
    BY <2>1 DEF HandleInv, TargetInv
  <2>2. Concerns(p, c)
    BY <1>2, <2>1 DEF CallerStep, ConnectInsert, ReceiveItem, ReceiveTimeout, ReceiveClosed,
           ReceiveRemove, DisconnectShutdown, Cancel, Release, Return, Suspend, Concerns,
           HandleInv, TypeOK
  <2> QED
    BY <2>1, <2>2
<1> QED
  BY <1>1, <1>2

FeedInv == HandleInv /\ OrderInv /\ EndInv /\ SilentInv

(* A caller that lets go of a connection it was not bringing up.           *)
LEMMA LettingGo ==
  ASSUME FeedInv, FeedInv', NEW p \in Callers, NEW c \in Conns, Concerns(p, c), target[p] = c,
         pc[p] \notin {"idle", "connecting"}, pc'[p] = "idle",
         NEW H, p \in H, holders'[c] = holders[c] \ H, task'[c] = task[c]
  PROVE  /\ FeedPhase(c) = IF "map" \in holders[c] THEN "open" ELSE "stopping"
         /\ FeedPhase(c)' = IF holders[c] \subseteq H THEN "gone"
                            ELSE IF "map" \in holders'[c] THEN "open" ELSE "stopping"
<1>1. Told(c) /\ Told(c)'
  BY PhaseTold, PhaseToldNext DEF FeedInv
<1>2. p \in holders[c] /\ task[c] # "none"
  BY DEF FeedInv, HandleInv, NothingOutlivesItsHandle, TargetInv
<1>3. ~Bringing(c)
  BY <1>2 DEF Bringing, FeedInv, SilentInv
<1>4. ~Bringing(c)'
  BY <1>3 DEF Bringing, Concerns
<1>5. holders'[c] = {} <=> holders[c] \subseteq H
  OBVIOUS
<1> QED
  BY <1>1, <1>2, <1>3, <1>4, <1>5 DEF Told

(* Callers that begin.                                                     *)
LEMMA FeedBegins ==
  ASSUME FeedInv, FeedInv', NEW p \in Callers, NEW c \in Conns, Concerns(p, c),
         Connect(p, c) \/ Receive(p, c) \/ Disconnect(p, c)
  PROVE  [Feed!Next]_Feed!vars
<1>0. "map" \notin Callers /\ \A d \in Conns : Told(d) /\ Told(d)'
  BY PlatformAssumption, PhaseTold, PhaseToldNext DEF FeedInv
<1>1. /\ \A d \in Conns \ {c} : FeedPhase(d)' = FeedPhase(d)
      /\ UNCHANGED <<delivered, script>>
  BY <1>0, OthersKeepPhase DEF Connect, Receive, Disconnect, itemVars
<1> USE DEF FeedInv, HandleInv, TypeOK, Suspend
<1>2. CASE Connect(p, c)
  <2>1. FeedPhase(c) = "none"
    BY <1>0, <1>2 DEF Connect, Told
  <2>2. FeedPhase(c)' = "connecting"
    BY <1>0, <1>2 DEF Connect, Told, Bringing
  <2>3. PhaseMoves(c, "none", "connecting")
    BY <1>1, <2>1, <2>2 DEF PhaseMoves
  <2>4. Feed!Open(c)
    BY <1>1, <2>3, MoveMaps DEF Feed!Open
  <2> QED
    BY <2>4 DEF Feed!Next
<1>3. CASE Receive(p, c)
  <2>1. FeedPhase(c) = "open" /\ FeedPhase(c)' = "open"
    BY <1>0, <1>3 DEF Receive, Told, Connections
  <2>2. PhaseMoves(c, "open", "open")
    BY <1>1, <2>1 DEF PhaseMoves
  <2> QED
    BY <1>1, <2>2, MoveMaps DEF Feed!vars
<1>4. CASE Disconnect(p, c)
  <2>1. FeedPhase(c) = "open"
    BY <1>0, <1>4 DEF Disconnect, Told, Connections
  <2>2. p \in holders'[c] /\ "map" \notin holders'[c] /\ pc'[p] # "connecting"
    BY <1>0, <1>4 DEF Disconnect
  <2>3. ~Bringing(c)'
    BY <2>2 DEF Bringing, SilentInv
  <2>4. FeedPhase(c)' = "stopping"
    BY <1>0, <2>2, <2>3 DEF Told
  <2>5. PhaseMoves(c, "open", "stopping")
    BY <1>1, <2>1, <2>4 DEF PhaseMoves
  <2>6. Feed!Stop(c)
    BY <1>1, <2>5, MoveMaps DEF Feed!Stop
  <2> QED
    BY <2>6 DEF Feed!Next
<1> QED
  BY <1>2, <1>3, <1>4

(* connect goes on, or its future is dropped half way.                     *)
LEMMA FeedConnects ==
  ASSUME FeedInv, FeedInv', NEW p \in Callers, NEW c \in Conns, Concerns(p, c), target[p] = c,
         pc[p] = "connecting", ConnectInsert(p) \/ Cancel(p)
  PROVE  [Feed!Next]_Feed!vars
<1>0. "map" \notin Callers /\ \A d \in Conns : Told(d) /\ Told(d)'
  BY PlatformAssumption, PhaseTold, PhaseToldNext DEF FeedInv
<1>1. /\ \A d \in Conns \ {c} : FeedPhase(d)' = FeedPhase(d)
      /\ UNCHANGED <<delivered, script>>
  BY <1>0, OthersKeepPhase DEF ConnectInsert, Cancel, itemVars
<1>2. FeedPhase(c) = "connecting" /\ holders[c] = {p} /\ task[c] # "none"
  BY <1>0 DEF Told, Bringing, FeedInv, SilentInv, HandleInv, TargetInv
<1> USE DEF FeedInv, HandleInv, TypeOK
<1>3. CASE ConnectInsert(p)
  <2>1. FeedPhase(c)' = "open"
    BY <1>0, <1>3 DEF ConnectInsert, Told
  <2>2. PhaseMoves(c, "connecting", "open")
    BY <1>1, <1>2, <2>1 DEF PhaseMoves
  <2>3. Feed!Ready(c)
    BY <1>1, <2>2, MoveMaps DEF Feed!Ready
  <2> QED
    BY <2>3 DEF Feed!Next
<1>4. CASE Cancel(p)
  <2>1. holders'[c] = {} /\ task' = task
    BY <1>2, <1>4 DEF Cancel, Release
  <2>2. FeedPhase(c)' = "gone"
    BY <1>0, <1>2, <2>1 DEF Told
  <2>3. PhaseMoves(c, "connecting", "gone")
    BY <1>1, <1>2, <2>2 DEF PhaseMoves
  <2>4. Feed!Abandon(c)
    BY <1>1, <2>3, MoveMaps DEF Feed!Abandon
  <2> QED
    BY <2>4 DEF Feed!Next
<1> QED
  BY <1>3, <1>4

(* A receive that timed out, a dropped future and the end of a disconnect   *)
(* let go; so does the receive that found the channel closed.              *)
LEMMA FeedLetsGo ==
  ASSUME FeedInv, FeedInv', NEW p \in Callers, NEW c \in Conns, Concerns(p, c), target[p] = c,
         pc[p] \notin {"idle", "connecting"},
         ReceiveTimeout(p) \/ DisconnectShutdown(p) \/ Cancel(p)
  PROVE  [Feed!Next]_Feed!vars
<1>1. /\ \A d \in Conns \ {c} : FeedPhase(d)' = FeedPhase(d)
      /\ UNCHANGED <<delivered, script>>
  BY PhaseTold, PhaseToldNext, OthersKeepPhase
  DEF FeedInv, ReceiveTimeout, DisconnectShutdown, Cancel
<1>2. pc'[p] = "idle" /\ holders'[c] = holders[c] \ {p} /\ task' = task
  BY DEF ReceiveTimeout, DisconnectShutdown, Cancel, Release, Return, Suspend, FeedInv,
         HandleInv, TypeOK
<1>3. /\ FeedPhase(c) = IF "map" \in holders[c] THEN "open" ELSE "stopping"
      /\ FeedPhase(c)' = IF holders[c] \subseteq {p} THEN "gone"
                         ELSE IF "map" \in holders'[c] THEN "open" ELSE "stopping"
  BY <1>2, LettingGo
<1>4. "map" \notin Callers
  BY PlatformAssumption
<1>5. CASE FeedPhase(c) = FeedPhase(c)'
  BY <1>1, <1>5, MoveMaps DEF PhaseMoves, Feed!vars
<1>6. CASE FeedPhase(c) # FeedPhase(c)'
  <2>1. PhaseMoves(c, "stopping", "gone")
    BY <1>1, <1>2, <1>3, <1>4, <1>6 DEF PhaseMoves
  <2>2. Feed!Drop(c)
    BY <1>1, <2>1, MoveMaps DEF Feed!Drop
  <2> QED
    BY <2>2 DEF Feed!Next
<1> QED
  BY <1>5, <1>6

(* receive waits for the write lock: nothing to be seen.                   *)
LEMMA FeedCloses ==
  ASSUME FeedInv, FeedInv', NEW p \in Callers, NEW c \in Conns, Concerns(p, c), target[p] = c,
         ReceiveClosed(p)
  PROVE  [Feed!Next]_Feed!vars
<1>1. /\ \A d \in Conns \ {c} : FeedPhase(d)' = FeedPhase(d)
      /\ UNCHANGED <<delivered, script, holders, task>>
  BY PhaseTold, PhaseToldNext, OthersKeepPhase
  DEF FeedInv, ReceiveClosed, itemVars
<1>2. Bringing(c)' <=> Bringing(c)
  BY DEF ReceiveClosed, Suspend, Bringing, FeedInv, HandleInv, TypeOK
<1>3. FeedPhase(c)' = FeedPhase(c)
  BY <1>1, <1>2, PhaseTold, PhaseToldNext, PhaseKept DEF FeedInv
<1> QED
  BY <1>1, <1>3, MoveMaps DEF PhaseMoves, Feed!vars

(* While the connection is held, what was accepted is how its items begin.  *)
LEMMA AcceptedBegins ==
  ASSUME FeedInv, NEW c \in Live
  PROVE  \A i \in 1..Len(Accepted(c)) :
           i \in 1..Len(ItemsOf(script[c])) /\ Accepted(c)[i] = ItemsOf(script[c])[i]
<1>1. /\ c \in Conns /\ script[c] \in Seq(Names) /\ done[c] \in Nat
      /\ delivered[c] \in Seq(Nat) /\ queue[c] \in Seq(Nat)
  BY DEF Live, FeedInv, HandleInv, TypeOK, Names
<1> DEFINE A == Accepted(c)
           S == script[c]
           I == ItemsOf(S)
           D == done[c]
<1>2. A \in Seq(Nat) /\ Orderly(A, S, D, TRUE) /\ D <= Len(S)
  BY <1>1, ConcatProperties DEF Accepted, FeedInv, OrderInv, Orderly
<1>3. I \in Seq(Nat) /\ Orderly(I, S, Len(S), TRUE) /\ Len(S) \in Nat /\ D \in Nat
  BY <1>1, ItemsListed, LenProperties
<1>4. \A k \in 1..D : S[k] = S[k]
  OBVIOUS
<1> HIDE DEF A, S, I, D
<1>5. \A i \in 1..Len(A) : i \in 1..Len(I) /\ A[i] = I[i]
  BY <1>2, <1>3, <1>4, OrderlyAgree
<1> QED
  BY <1>5 DEF A, I, S

(* The head of the channel is the item after the last one delivered.       *)
LEMMA HeadIsNext ==
  ASSUME FeedInv, NEW c \in Live, queue[c] # <<>>
  PROVE  /\ Len(delivered[c]) < Len(ItemsOf(script[c]))
         /\ Head(queue[c]) = ItemsOf(script[c])[Len(delivered[c]) + 1]
<1>1. /\ c \in Conns /\ script[c] \in Seq(Names)
      /\ delivered[c] \in Seq(Nat) /\ queue[c] \in Seq(Nat)
  BY DEF Live, FeedInv, HandleInv, TypeOK, Names
<1> DEFINE d == delivered[c]
           q == queue[c]
           I == ItemsOf(script[c])
<1>2. \A i \in 1..Len(d \o q) : i \in 1..Len(I) /\ (d \o q)[i] = I[i]
  BY AcceptedBegins DEF Accepted
<1>3. d \in Seq(Nat) /\ q \in Seq(Nat) /\ q # <<>> /\ I \in Seq(Nat)
  BY <1>1, ItemsListed
<1> HIDE DEF d, q, I
<1>4. /\ Len(d) \in Nat /\ Len(q) \in Nat \ {0} /\ Len(I) \in Nat
      /\ Len(d \o q) = Len(d) + Len(q) /\ Head(q) = q[1]
  BY <1>3, EmptySeq, LenProperties, HeadTailProperties, ConcatProperties
<1>5. Len(d) + 1 \in 1..Len(d \o q) /\ Len(d) + 1 \in 1..(Len(d) + Len(q))
  BY <1>4
<1>6. (d \o q)[Len(d) + 1] = q[(Len(d) + 1) - Len(d)]
  BY <1>3, <1>4, <1>5, ConcatProperties
<1>7. (Len(d) + 1) - Len(d) = 1
  BY <1>4
<1>8. Len(d) + 1 \in 1..Len(I) /\ q[1] = I[Len(d) + 1]
  BY <1>2, <1>5, <1>6, <1>7
<1>9. Len(d) < Len(I)
  BY <1>4, <1>8
<1> QED
  BY <1>4, <1>8, <1>9 DEF d, q, I

LEMMA FeedDelivers ==
  ASSUME FeedInv, FeedInv', NEW p \in Callers, NEW c \in Conns, Concerns(p, c), target[p] = c,
         ReceiveItem(p)
  PROVE  [Feed!Next]_Feed!vars
<1>1. /\ \A d \in Conns \ {c} : FeedPhase(d)' = FeedPhase(d)
      /\ UNCHANGED script
  BY PhaseTold, PhaseToldNext, OthersKeepPhase DEF FeedInv, ReceiveItem
<1>2. pc[p] \notin {"idle", "connecting"} /\ pc'[p] = "idle"
      /\ holders'[c] = holders[c] \ {p} /\ task' = task
  BY DEF ReceiveItem, Release, Return, Suspend, FeedInv, HandleInv, TypeOK
<1>3. /\ FeedPhase(c) = IF "map" \in holders[c] THEN "open" ELSE "stopping"
      /\ FeedPhase(c)' = IF holders[c] \subseteq {p} THEN "gone"
                         ELSE IF "map" \in holders'[c] THEN "open" ELSE "stopping"
  BY <1>2, LettingGo
<1>4. "map" \notin Callers
  BY PlatformAssumption
<1>5. \/ PhaseMoves(c, "open", "open") \/ PhaseMoves(c, "stopping", "stopping")
      \/ PhaseMoves(c, "stopping", "gone")
  BY <1>1, <1>2, <1>3, <1>4 DEF PhaseMoves
<1>6. /\ Len(delivered[c]) < Len(ItemsOf(script[c]))
      /\ Head(queue[c]) = ItemsOf(script[c])[Len(delivered[c]) + 1]
  <2>1. c \in Live /\ queue[c] # <<>>
    BY <1>2 DEF ReceiveItem, Live, FeedInv, HandleInv, NothingOutlivesItsHandle
  <2> QED
    BY <2>1, HeadIsNext
<1>7. delivered' = [delivered EXCEPT ![c] = Append(@, ItemsOf(script[c])[Len(@) + 1])]
  BY <1>6 DEF ReceiveItem
<1>8. Feed!Deliver(c)
  BY <1>1, <1>5, <1>6, <1>7, MoveMaps DEF Feed!Deliver, Feed!Move
<1> QED
  BY <1>8 DEF Feed!Next

(* The entry goes: the connection is finished when nobody else holds it,    *)
(* and nothing was left; an aborted one had no entry any more.             *)
LEMMA FeedRemoves ==
  ASSUME FeedInv, FeedInv', NEW p \in Callers, NEW c \in Conns, Concerns(p, c), target[p] = c,
         ReceiveRemove(p)
  PROVE  [Feed!Next]_Feed!vars
<1>1. /\ \A d \in Conns \ {c} : FeedPhase(d)' = FeedPhase(d)
      /\ UNCHANGED <<delivered, script>>
  BY PhaseTold, PhaseToldNext, OthersKeepPhase DEF FeedInv, ReceiveRemove
<1>2. pc[p] \notin {"idle", "connecting"} /\ pc'[p] = "idle"
      /\ holders'[c] = holders[c] \ {p, "map"} /\ task' = task
  BY DEF ReceiveRemove, Release, Return, Suspend, FeedInv, HandleInv, TypeOK
<1>3. /\ FeedPhase(c) = IF "map" \in holders[c] THEN "open" ELSE "stopping"
      /\ FeedPhase(c)' = IF holders[c] \subseteq {p, "map"} THEN "gone" ELSE "stopping"
  <2> DEFINE H == {p, "map"}
  <2>1. p \in H /\ holders'[c] = holders[c] \ H /\ task'[c] = task[c] /\ "map" \notin holders'[c]
    BY <1>2
  <2> HIDE DEF H
  <2>2. /\ FeedPhase(c) = IF "map" \in holders[c] THEN "open" ELSE "stopping"
        /\ FeedPhase(c)' = IF holders[c] \subseteq H THEN "gone"
                           ELSE IF "map" \in holders'[c] THEN "open" ELSE "stopping"
    BY <1>2, <2>1, LettingGo
  <2> QED
    BY <2>1, <2>2 DEF H
<1>4. CASE "map" \in holders[c]
  <2>1. delivered[c] = ItemsOf(script[c])
    <3>1. ~aborting[c] /\ c \in Live
      BY <1>4 DEF FeedInv, SilentInv, Stopping, Live
    <3>2. queue[c] = <<>> /\ task[c] = "ended"
      BY DEF ReceiveRemove, FeedInv, EndInv
    <3>3. done[c] = Len(script[c])
      BY <3>1, <3>2 DEF FeedInv, EndInv, CarriedOut
    <3>4. /\ delivered[c] \in Seq(Nat) /\ script[c] \in Seq(Names) /\ done[c] \in Nat
      BY DEF FeedInv, HandleInv, TypeOK, Names
    <3>5. Accepted(c) = delivered[c]
      BY <3>2, <3>4, ConcatEmptySeq DEF Accepted
    <3>6. Orderly(delivered[c], script[c], Len(script[c]), TRUE)
      BY <3>1, <3>3, <3>5 DEF FeedInv, OrderInv, Orderly
    <3>7. ItemsOf(script[c]) \in Seq(Nat) /\ Orderly(ItemsOf(script[c]), script[c], Len(script[c]), TRUE)
      BY <3>4, ItemsListed
    <3>8. Len(script[c]) \in Nat
      BY <3>4, LenProperties
    <3> QED
      BY <3>4, <3>6, <3>7, <3>8, OrderlyUnique
  <2>2. PhaseMoves(c, "open", "gone") \/ PhaseMoves(c, "open", "stopping")
    BY <1>1, <1>3, <1>4 DEF PhaseMoves
  <2>3. Feed!Finish(c) \/ Feed!Stop(c)
    BY <1>1, <2>1, <2>2, MoveMaps DEF Feed!Finish, Feed!Stop
  <2> QED
    BY <2>3 DEF Feed!Next
<1>5. CASE "map" \notin holders[c]
  <2>1. PhaseMoves(c, "stopping", "gone") \/ PhaseMoves(c, "stopping", "stopping")
    BY <1>1, <1>3, <1>5 DEF PhaseMoves
  <2>2. Feed!Drop(c) \/ UNCHANGED Feed!vars
    BY <1>1, <2>1, MoveMaps DEF Feed!Drop, Feed!vars
  <2> QED
    BY <2>2 DEF Feed!Next
<1> QED
  BY <1>4, <1>5

LEMMA FeedCallerStep ==
  ASSUME FeedInv, FeedInv', NEW p \in Callers, CallerStep(p)
  PROVE  [Feed!Next]_Feed!vars
<1> PICK c \in Conns :
      /\ Concerns(p, c)
      /\ \/ Connect(p, c) \/ Receive(p, c) \/ Disconnect(p, c)
         \/ pc[p] # "idle" /\ target[p] = c
  BY CallerConcerns DEF FeedInv
<1>1. CASE Connect(p, c) \/ Receive(p, c) \/ Disconnect(p, c)
  BY <1>1, FeedBegins
<1>2. CASE pc[p] # "idle" /\ target[p] = c
  <2>1. CASE pc[p] = "connecting"
    <3>1. ConnectInsert(p) \/ Cancel(p)
      BY <2>1 DEF CallerStep, Connect, Receive, Disconnect, ReceiveItem, ReceiveTimeout,
                  ReceiveClosed, ReceiveRemove, DisconnectShutdown
    <3> QED
      BY <1>2, <2>1, <3>1, FeedConnects
  <2>2. CASE pc[p] # "connecting"
    <3>1. \/ ReceiveTimeout(p) \/ DisconnectShutdown(p) \/ Cancel(p)
          \/ ReceiveItem(p) \/ ReceiveClosed(p) \/ ReceiveRemove(p)
      BY <1>2, <2>2 DEF CallerStep, Connect, Receive, Disconnect, ConnectInsert
    <3> QED
      BY <1>2, <2>2, <3>1, FeedLetsGo, FeedDelivers, FeedCloses, FeedRemoves
  <2> QED
    BY <2>1, <2>2
<1> QED
  BY <1>1, <1>2

(* The task's side: a longer script is what the source emits.              *)
LEMMA ItemsGrow ==
  ASSUME NEW scr \in Seq(Names), NEW more \in Seq(Names)
  PROVE  Feed!IsPrefix(ItemsOf(scr), ItemsOf(scr \o more))
<1> DEFINE both == scr \o more
           I == ItemsOf(scr)
           J == ItemsOf(both)
<1>1. /\ both \in Seq(Names) /\ Len(scr) \in Nat /\ Len(both) \in Nat /\ Len(scr) <= Len(both)
      /\ \A k \in 1..Len(scr) : both[k] = scr[k]
  <2>1. /\ Len(scr) \in Nat /\ Len(more) \in Nat /\ Len(both) = Len(scr) + Len(more)
        /\ both \in Seq(Names)
    BY ConcatProperties
  <2>2. \A k \in 1..Len(scr) : both[k] = scr[k]
    BY <2>1, ConcatProperties
  <2> HIDE DEF both
  <2> QED
    BY <2>1, <2>2
<1> HIDE DEF both
<1>2. /\ I \in Seq(Nat) /\ Orderly(I, scr, Len(scr), TRUE)
      /\ J \in Seq(Nat) /\ Orderly(J, both, Len(both), TRUE)
  BY <1>1, ItemsListed
<1> HIDE DEF I, J
<1>3. \A i \in 1..Len(I) : i \in 1..Len(J) /\ I[i] = J[i]
  BY <1>1, <1>2, OrderlyAgree
<1>4. Len(I) \in Nat /\ Len(J) \in Nat /\ Len(I) <= Len(J)
  <2>1. Len(I) \in Nat /\ Len(J) \in Nat
    BY <1>2
  <2>2. Len(I) > 0 => Len(I) \in 1..Len(J)
    BY <1>3, <2>1
  <2> QED
    BY <2>1, <2>2
<1>5. SubSeq(I, 1, Len(I)) = [i \in 1..Len(I) |-> I[i]]
  BY <1>2
<1>6. SubSeq(J, 1, Len(I)) = [i \in 1..Len(I) |-> J[i]]
  BY <1>2, <1>4
<1>7. SubSeq(I, 1, Len(I)) = SubSeq(J, 1, Len(I))
  BY <1>3, <1>5, <1>6
<1> QED
  BY <1>2, <1>4, <1>7 DEF Feed!IsPrefix, I, J, both

LEMMA FeedTaskStep ==
  ASSUME FeedInv, FeedInv', NEW c \in Conns, TaskStep(c)
  PROVE  [Feed!Next]_Feed!vars
<1>1. /\ UNCHANGED <<holders, pc, target, delivered>> /\ Running(c)
      /\ \E step \in TaskStates \ {"none"} : task' = [task EXCEPT ![c] = step]
  BY TaskStepFrame DEF FeedInv, HandleInv, callerVars
<1>2. \A d \in Conns : task'[d] = "none" <=> task[d] = "none"
  BY <1>1 DEF Running, FeedInv, HandleInv, TypeOK
<1>3. \A d \in Conns : FeedPhase(d)' = FeedPhase(d)
  <2> SUFFICES ASSUME NEW d \in Conns PROVE FeedPhase(d)' = FeedPhase(d)
    OBVIOUS
  <2>1. Bringing(d)' <=> Bringing(d)
    BY <1>1 DEF Bringing
  <2> QED
    BY <1>1, <1>2, <2>1, PhaseTold, PhaseToldNext, PhaseKept DEF FeedInv
<1>4. FeedPhase(c) # "none"
  BY <1>1, PhaseTold DEF Told, Running, FeedInv
<1>5. Advances(c)
  BY TaskAdvances DEF FeedInv, HandleInv
<1>6. script[c] \in Seq(Names) /\ script \in [Conns -> Seq(Names)]
  BY DEF FeedInv, HandleInv, TypeOK, Names
<1>7. \A d \in Conns \ {c} : script'[d] = script[d]
  BY <1>5, <1>6 DEF Advances
<1>8. \E more \in Seq(Names) : script'[c] = script[c] \o more
  <2>1. <<>> \in Seq(Names) /\ script[c] \o <<>> = script[c]
    BY <1>6, ConcatEmptySeq
  <2>2. script' = script \/ \E more \in Seq(Names) : script'[c] = script[c] \o more
    BY <1>5, <1>6 DEF Advances
  <2> QED
    BY <2>1, <2>2
<1>9. Feed!IsPrefix(ItemsOf(script[c]), ItemsOf(script'[c]))
  BY <1>6, <1>8, ItemsGrow
<1>10. Feed!Emit(c)
  <2>1. [d \in Conns |-> FeedPhase(d)][c] # "none"
    BY <1>4
  <2>2. Feed!IsPrefix([d \in Conns |-> ItemsOf(script[d])][c],
                      [d \in Conns |-> ItemsOf(script[d])]'[c])
    BY <1>9
  <2>3. \A d \in Conns \ {c} :
          [e \in Conns |-> ItemsOf(script[e])]'[d] = [e \in Conns |-> ItemsOf(script[e])][d]
    BY <1>7
  <2>4. UNCHANGED <<[d \in Conns |-> FeedPhase(d)], delivered>>
    BY <1>1, <1>3
  <2> QED
    BY <2>1, <2>2, <2>3, <2>4 DEF Feed!Emit
<1> QED
  BY <1>10 DEF Feed!Next

LEMMA FeedInit == Init => Feed!Init
<1> SUFFICES ASSUME Init PROVE Feed!Init
  OBVIOUS
<1>1. ASSUME NEW c \in Conns PROVE FeedPhase(c) = "none"
  <2>1. task[c] = "none" /\ holders[c] = {}
    BY DEF Init
  <2>2. HandleInv /\ SilentInv
    BY HandleInit DEF Init, SilentInv, Stopping
  <2> QED
    BY <2>1, <2>2, PhaseTold DEF Told
<1>2. ItemsOf(<<>>) = <<>>
  <2>1. <<>> \in Seq(Names) /\ Len(<<>>) = 0 /\ <<>> \in Seq(Nat)
    OBVIOUS
  <2>2. Orderly(<<>>, <<>>, 0, TRUE)
    BY <2>1, OrderlyNone
  <2>3. ItemsOf(<<>>) \in Seq(Nat) /\ Orderly(ItemsOf(<<>>), <<>>, 0, TRUE)
    BY <2>1, ItemsListed
  <2> QED
    BY <2>1, <2>2, <2>3, OrderlyUnique
<1>3. [c \in Conns |-> FeedPhase(c)] = [c \in Conns |-> "none"]
  BY <1>1
<1>4. [c \in Conns |-> ItemsOf(script[c])] = [c \in Conns |-> <<>>]
  BY <1>2 DEF Init
<1>5. delivered = [c \in Conns |-> <<>>]
  BY DEF Init
<1> QED
  BY <1>3, <1>4, <1>5 DEF Feed!Init

(* What the consumer sees of a platform's provider is a feed, for every      *)
(* platform and whatever its frames nest or ask to be answered.            *)
THEOREM PlatformIsAFeed == Spec => ImplementsFeed
<1>1. FeedInv /\ FeedInv' /\ [Next]_vars => [Feed!Next]_Feed!vars
  <2> SUFFICES ASSUME FeedInv, FeedInv', [Next]_vars PROVE [Feed!Next]_Feed!vars
    OBVIOUS
  <2>1. CASE UNCHANGED vars
    <3>1. UNCHANGED <<holders, pc, target, task, script, delivered>>
      BY <2>1 DEF vars, callerVars, itemVars
    <3>2. ASSUME NEW d \in Conns PROVE FeedPhase(d)' = FeedPhase(d)
      <4>1. Bringing(d)' <=> Bringing(d)
        BY <3>1 DEF Bringing
      <4> QED
        BY <3>1, <4>1, PhaseTold, PhaseToldNext, PhaseKept DEF FeedInv
    <3> QED
      BY <3>1, <3>2 DEF Feed!vars
  <2> QED
    BY <2>1, FeedCallerStep, FeedTaskStep DEF Next
<1>2. Spec => []FeedInv
  BY HandleInvariant, OrderInvariant, EndInvariant, SilentInvariant, PTL DEF FeedInv
<1> QED
  BY <1>1, <1>2, FeedInit, PTL DEF Spec, ImplementsFeed, Feed!Spec

=============================================================================
