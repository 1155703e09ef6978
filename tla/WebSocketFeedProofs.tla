------------------------ MODULE WebSocketFeedProofs ------------------------
(***************************************************************************)
(* The reconnecting provider is a feed: every behaviour of                 *)
(* WebSocketProvider, seen through the refinement mapping of WebSocketFeed,*)
(* is a behaviour of DanmakuFeed, for every value of the constants.        *)
(***************************************************************************)
EXTENDS WebSocketFeed, WebSocketStopProofs

-----------------------------------------------------------------------------
(* What is in the channel was decoded, also after an abort threw away what  *)
(* was still to be forwarded.                                              *)
ReachedInv ==
  \A c \in Live : Len(delivered[c]) + Len(queue[c]) <= produced[c]

LEMMA ItemLengths ==
  ASSUME HolderInv, NEW c \in Conns
  PROVE  /\ Len(delivered[c]) \in Nat /\ Len(queue[c]) \in Nat /\ Len(pending[c]) \in Nat
         /\ produced[c] \in Nat
BY LenProperties DEF HolderInv, TypeOK, ItemTypes, Items

(* An abort is the only way to lose what is pending.                       *)
LEMMA InFlightReached ==
  ASSUME HolderInv, OrderInv, NEW c \in Live, task[c] # "ended" \/ ~aborting[c]
  PROVE  Len(delivered[c]) + Len(queue[c]) <= produced[c]
<1>1. c \in Conns /\ InFlight(c) = produced[c]
  BY DEF OrderInv, OrderOf, Live
<1> DEFINE D == Len(delivered[c])
           Q == Len(queue[c])
           P == Len(pending[c])
<1>2. D \in Nat /\ Q \in Nat /\ P \in Nat
  BY <1>1, ItemLengths
<1>3. D + Q + P = produced[c]
  BY <1>1 DEF InFlight
<1> HIDE DEF D, Q, P
<1>4. D + Q <= produced[c]
  BY <1>2, <1>3
<1> QED
  BY <1>4 DEF D, Q

LEMMA ReachedStep ==
  ASSUME HolderInv, OrderInv, ReachedInv, HolderInv', OrderInv', Next
  PROVE  ReachedInv'
<1> SUFFICES ASSUME NEW c \in Conns, c \in Live'
             PROVE  Len(delivered'[c]) + Len(queue'[c]) <= produced'[c]
  BY DEF ReachedInv, Live
<1>1. CASE task'[c] # "ended" \/ ~aborting'[c]
  <2>1. (HolderInv /\ OrderInv /\ c \in Live /\ (task[c] # "ended" \/ ~aborting[c])
          => Len(delivered[c]) + Len(queue[c]) <= produced[c])'
    BY InFlightReached, PTL
  <2> QED
    BY <1>1, <2>1
<1>2. ASSUME NEW p \in Callers, CallerStep(p), task'[c] = "ended"
      PROVE  Len(delivered'[c]) + Len(queue'[c]) <= produced'[c]
  <2>1. c \in Live /\ task[c] = "ended"
    <3> PICK d \in Conns : \E X : Touches(d, X)
      BY <1>2, CallerTouches
    <3> PICK X : Touches(d, X)
      OBVIOUS
    <3>1. task[c] = "ended"
      BY <1>2 DEF Touches, Creates, Keeps, Drops
    <3>2. holders[c] # {}
      BY <3>1 DEF Touches, Creates, Keeps, Drops, Live, HolderInv, TypeOK, CallerTypes
    <3> QED
      BY <3>1, <3>2 DEF Live
  <2>2. Len(delivered[c]) + Len(queue[c]) <= produced[c]
    BY <2>1 DEF ReachedInv
  <2>3. CASE ~ReceiveItem(p) \/ target[p] # c
    <3>1. /\ delivered'[c] = delivered[c] /\ queue'[c] = queue[c] /\ produced'[c] = produced[c]
      BY <1>2, <2>3, OtherCallerItems
      DEF ReceiveItem, KeepUnlessDropped, HolderInv, TypeOK, ItemTypes, TargetInv
    <3> QED
      BY <2>2, <3>1
  <2>4. CASE ReceiveItem(p) /\ target[p] = c
    <3>1. /\ delivered'[c] = Append(delivered[c], Head(queue[c])) /\ queue[c] # <<>>
          /\ queue'[c] = Tail(queue[c]) /\ produced'[c] = produced[c]
      BY <2>4 DEF ReceiveItem, KeepUnlessDropped, Release, Live, HolderInv, TypeOK, CallerTypes,
                  ItemTypes
    <3> DEFINE D == delivered[c]
               Q == queue[c]
    <3>2. D \in Items /\ Q \in Items /\ Q # <<>>
      BY <3>1 DEF HolderInv, TypeOK, ItemTypes
    <3> HIDE DEF D, Q
    <3>3. /\ Len(Q) \in Nat \ {0} /\ Len(D) \in Nat /\ Len(Tail(Q)) = Len(Q) - 1
          /\ Len(Append(D, Head(Q))) = Len(D) + 1
      BY <3>2, EmptySeq, LenProperties, HeadTailProperties, AppendProperties DEF Items
    <3>4. Len(Append(D, Head(Q))) + Len(Tail(Q)) = Len(D) + Len(Q)
      BY <3>3
    <3> QED
      BY <2>2, <3>1, <3>4 DEF D, Q
  <2> QED
    BY <2>3, <2>4
<1>3. ASSUME NEW d \in Conns, DialStep(d) \/ StreamStep(d), task'[c] = "ended"
      PROVE  Len(delivered'[c]) + Len(queue'[c]) <= produced'[c]
  <2>1. c \in Live /\ UNCHANGED delivered
    BY <1>3, TaskStepFrame DEF HolderInv, callerVars, Live
  <2>2. Len(delivered[c]) + Len(queue[c]) <= produced[c]
    BY <2>1 DEF ReachedInv
  <2>3. queue'[c] = queue[c] /\ produced'[c] = produced[c]
    <3>1. CASE d # c
      BY <1>3, <3>1, TaskStepItems DEF HolderInv
    <3>2. CASE d = c
      <4>1. ~Forward(c) /\ ~ \E n \in Batches : Decoded(c, n)
        BY <1>3, <3>2 DEF Forward, Decoded, Goto, taskVars, HolderInv, TypeOK, TaskTypes
      <4> QED
        BY <1>3, <3>2, <4>1 DEF DialStep, StreamStep, TopShutdown, Dial, DialInvalid, DialFailed,
               GiveUp, DialAccepted, HandshakeFailed, HandshakeDone, BackoffElapsed,
               BackoffShutdown, StreamLost, SendResponse, SendResponseFailed, Frame, PushReply,
               ForwardDone, StreamShutdown, StreamClosed, Aborted, itemVars
    <3> QED
      BY <3>1, <3>2
  <2> QED
    BY <2>1, <2>2, <2>3
<1> QED
  BY <1>1, <1>2, <1>3 DEF Next

LEMMA ReachedInvariant == Spec => []ReachedInv
<1>1. Init => ReachedInv
  BY DEF Init, ReachedInv, Live
<1>2. HolderInv /\ OrderInv /\ ReachedInv /\ HolderInv' /\ OrderInv' /\ [Next]_vars => ReachedInv'
  <2>1. CASE UNCHANGED vars
    BY <2>1 DEF ReachedInv, Live, vars, callerVars, itemVars
  <2> QED
    BY <2>1, ReachedStep
<1> QED
  BY <1>1, <1>2, OrderInvariant, PTL DEF Spec

-----------------------------------------------------------------------------
(* Phases.                                                                 *)

Bringing(c) == \E p \in Callers : pc[p] = "connecting" /\ target[p] = c

(* The phase of a connection, told by who holds it.                        *)
Told(c) ==
  /\ FeedPhase(c) = "none" <=> task[c] = "none"
  /\ FeedPhase(c) = "gone" <=> task[c] # "none" /\ holders[c] = {}
  /\ FeedPhase(c) = "open" <=> "map" \in holders[c]
  /\ FeedPhase(c) = "connecting" <=> Bringing(c)
  /\ FeedPhase(c) = "stopping" <=>
       holders[c] # {} /\ "map" \notin holders[c] /\ ~Bringing(c)
  /\ FeedPhase(c) \in {"none", "gone", "open", "connecting", "stopping"}

LEMMA PhaseTold == HolderInv /\ SilentInv => \A c \in Conns : Told(c)
<1> SUFFICES ASSUME HolderInv, SilentInv, NEW c \in Conns PROVE Told(c)
  OBVIOUS
<1>0. "map" \notin Callers
  BY ConstantsAssumption
<1>1. task[c] = "none" => holders[c] = {}
  BY DEF HolderInv, TargetInv
<1>2. Bringing(c) <=> \E p \in holders[c] \ {"map"} : pc[p] = "connecting"
  BY <1>0 DEF Bringing, HolderInv, TypeOK, CallerTypes, NoLeakedReference
<1>3. Bringing(c) => "map" \notin holders[c] /\ holders[c] # {}
  BY <1>0 DEF Bringing, SilentInv
<1>4. FeedPhase(c) =
        IF task[c] = "none" THEN "none"
        ELSE IF holders[c] = {} THEN "gone"
        ELSE IF "map" \in holders[c] THEN "open"
        ELSE IF Bringing(c) THEN "connecting" ELSE "stopping"
  <2> DEFINE none == task[c] = "none"
             gone == task[c] # "none" /\ c \notin Live
             open == c \in Connections
             connecting == \E p \in holders[c] \ {"map"} : pc[p] = "connecting"
  <2>1. FeedPhase(c) = CASE none -> "none" [] gone -> "gone" [] open -> "open"
                         [] connecting -> "connecting" [] OTHER -> "stopping"
    BY Zenon DEF FeedPhase
  <2>2. /\ gone <=> task[c] # "none" /\ holders[c] = {}
        /\ open <=> "map" \in holders[c]
        /\ none => ~gone /\ ~open /\ ~connecting
        /\ gone => ~open /\ ~connecting
        /\ open => ~connecting
    BY <1>1, <1>2, <1>3 DEF Live, Connections
  <2>3. none <=> task[c] = "none"
    OBVIOUS
  <2>4. connecting <=> Bringing(c)
    BY <1>2
  <2> HIDE DEF none, gone, open, connecting
  <2>5. /\ none => FeedPhase(c) = "none"
        /\ gone => FeedPhase(c) = "gone"
        /\ open => FeedPhase(c) = "open"
        /\ connecting => FeedPhase(c) = "connecting"
        /\ ~none /\ ~gone /\ ~open /\ ~connecting => FeedPhase(c) = "stopping"
    BY <2>1, <2>2, Zenon
  <2> QED
    BY <2>2, <2>3, <2>4, <2>5
<1> QED
  BY <1>1, <1>3, <1>4 DEF Told

LEMMA PhaseToldNext == HolderInv' /\ SilentInv' => \A c \in Conns : Told(c)'
<1>1. HolderInv' /\ SilentInv' => (\A c \in Conns : Told(c))'
  BY PhaseTold, PTL
<1> QED
  BY <1>1

(* A connection that nobody starts or ends to hold or to bring up.         *)
LEMMA PhaseKept ==
  ASSUME NEW c \in Conns, Told(c), Told(c)',
         task'[c] = "none" <=> task[c] = "none",
         holders'[c] = {} <=> holders[c] = {},
         "map" \in holders'[c] <=> "map" \in holders[c],
         Bringing(c)' <=> Bringing(c)
  PROVE  FeedPhase(c)' = FeedPhase(c)
BY DEF Told

(* A step that changes the phase of one connection is a move of the feed.   *)
PhaseMoves(c, from, to) ==
  /\ FeedPhase(c) = from
  /\ FeedPhase(c)' = to
  /\ \A d \in Conns \ {c} : FeedPhase(d)' = FeedPhase(d)

LEMMA MoveMaps ==
  ASSUME NEW c \in Conns, NEW from, NEW to, PhaseMoves(c, from, to)
  PROVE  /\ Feed!Move(c, from, to)
         /\ from = to => UNCHANGED [d \in Conns |-> FeedPhase(d)]
BY DEF PhaseMoves, Feed!Move

(* A caller's step concerns one connection; the others keep their phase.    *)
Concerns(p, c) ==
  /\ pc[p] = "idle" \/ target[p] = c
  /\ pc'[p] = "idle" \/ target'[p] = c
  /\ \A q \in Callers \ {p} : pc'[q] = pc[q] /\ target'[q] = target[q]
  /\ \A d \in Conns \ {c} : holders'[d] = holders[d] /\ task'[d] = task[d]

LEMMA OthersKeepPhase ==
  ASSUME \A d \in Conns : Told(d) /\ Told(d)',
         NEW p \in Callers, NEW c \in Conns, Concerns(p, c)
  PROVE  \A d \in Conns \ {c} : FeedPhase(d)' = FeedPhase(d)
<1> SUFFICES ASSUME NEW d \in Conns \ {c} PROVE FeedPhase(d)' = FeedPhase(d)
  OBVIOUS
<1>1. Bringing(d)' <=> Bringing(d)
  BY DEF Bringing, Concerns
<1>2. holders'[d] = holders[d] /\ task'[d] = task[d]
  BY DEF Concerns
<1> QED
  BY <1>1, <1>2, PhaseKept

LEMMA CallerConcerns ==
  ASSUME HolderInv, NEW p \in Callers, CallerStep(p)
  PROVE  \E c \in Conns :
           /\ Concerns(p, c)
           /\ \/ Connect(p, c) \/ Receive(p, c) \/ Disconnect(p, c)
              \/ pc[p] # "idle" /\ target[p] = c
<1>1. CASE \E c \in Conns : Connect(p, c) \/ Receive(p, c) \/ Disconnect(p, c)
  <2> PICK c \in Conns : Connect(p, c) \/ Receive(p, c) \/ Disconnect(p, c)
    BY <1>1
  <2>1. Concerns(p, c)
    BY DEF Connect, Receive, Disconnect, Concerns, Suspend, taskVars, HolderInv, TypeOK,
           CallerTypes, TaskTypes
  <2> QED
    BY <2>1
<1>2. CASE ~ \E c \in Conns : Connect(p, c) \/ Receive(p, c) \/ Disconnect(p, c)
  <2>1. pc[p] # "idle"
    BY <1>2 DEF CallerStep, ConnectInsert, ReceiveItem, ReceiveTimeout, ReceiveClosed,
                ReceiveRemove, DisconnectShutdown, Cancel
  <2> PICK c \in Conns : c = target[p]
    BY <2>1 DEF HolderInv, TargetInv
  <2>2. Concerns(p, c)
    BY <1>2, <2>1 DEF CallerStep, ConnectInsert, ReceiveItem, ReceiveTimeout, ReceiveClosed,
           ReceiveRemove, DisconnectShutdown, Cancel, Release, Return, Suspend, Concerns, taskVars,
           HolderInv, TypeOK, CallerTypes, TaskTypes
  <2> QED
    BY <2>1, <2>2
<1> QED
  BY <1>1, <1>2

FeedInv ==
  /\ HolderInv /\ OrderInv /\ SilentInv /\ ReachedInv
  /\ DeliveredInOrder /\ ClosedMeansDrained

(* A caller that lets go of a connection it was not bringing up.           *)
LEMMA LettingGo ==
  ASSUME FeedInv, FeedInv', NEW p \in Callers, NEW c \in Conns, Concerns(p, c), target[p] = c,
         pc[p] \notin {"idle", "connecting"}, pc'[p] = "idle",
         NEW H, p \in H, holders'[c] = holders[c] \ H, task'[c] = task[c]
  PROVE  /\ FeedPhase(c) = IF "map" \in holders[c] THEN "open" ELSE "stopping"
         /\ FeedPhase(c)' = IF holders[c] \subseteq H THEN "gone"
                            ELSE IF "map" \in holders'[c] THEN "open" ELSE "stopping"
<1>1. Told(c) /\ Told(c)'
  BY PhaseTold, PhaseToldNext DEF FeedInv
<1>2. p \in holders[c] /\ task[c] # "none"
  BY DEF FeedInv, HolderInv, NoLeakedReference, TargetInv
<1>3. ~Bringing(c)
  BY <1>2 DEF Bringing, FeedInv, SilentInv
<1>4. ~Bringing(c)'
  BY <1>3 DEF Bringing, Concerns
<1>5. holders'[c] = {} <=> holders[c] \subseteq H
  OBVIOUS
<1> QED
  BY <1>1, <1>2, <1>3, <1>4, <1>5 DEF Told

(* Callers that begin.                                                     *)
LEMMA FeedBegins ==
  ASSUME FeedInv, FeedInv', NEW p \in Callers, NEW c \in Conns, Concerns(p, c),
         Connect(p, c) \/ Receive(p, c) \/ Disconnect(p, c)
  PROVE  [Feed!Next]_Feed!vars
<1>0. "map" \notin Callers /\ \A d \in Conns : Told(d) /\ Told(d)'
  BY ConstantsAssumption, PhaseTold, PhaseToldNext DEF FeedInv
<1>1. /\ \A d \in Conns \ {c} : FeedPhase(d)' = FeedPhase(d)
      /\ UNCHANGED <<delivered, produced>>
  BY <1>0, OthersKeepPhase DEF Connect, Receive, Disconnect, itemVars
<1> USE DEF FeedInv, HolderInv, TypeOK, CallerTypes, TaskTypes, Suspend
<1>2. CASE Connect(p, c)
  <2>1. FeedPhase(c) = "none"
    BY <1>0, <1>2 DEF Connect, Told
  <2>2. FeedPhase(c)' = "connecting"
    BY <1>0, <1>2 DEF Connect, Told, Bringing
  <2>3. PhaseMoves(c, "none", "connecting")
    BY <1>1, <2>1, <2>2 DEF PhaseMoves
  <2>4. Feed!Open(c)
    BY <1>1, <2>3, MoveMaps DEF Feed!Open
  <2> QED
    BY <2>4 DEF Feed!Next
<1>3. CASE Receive(p, c)
  <2>1. FeedPhase(c) = "open" /\ FeedPhase(c)' = "open"
    BY <1>0, <1>3 DEF Receive, Told, Connections
  <2>2. PhaseMoves(c, "open", "open")
    BY <1>1, <2>1 DEF PhaseMoves
  <2> QED
    BY <1>1, <2>2, MoveMaps DEF Feed!vars
<1>4. CASE Disconnect(p, c)
  <2>1. FeedPhase(c) = "open"
    BY <1>0, <1>4 DEF Disconnect, Told, Connections
  <2>2. p \in holders'[c] /\ "map" \notin holders'[c] /\ pc'[p] # "connecting"
    BY <1>0, <1>4 DEF Disconnect
  <2>3. ~Bringing(c)'
    BY <2>2 DEF Bringing, SilentInv
  <2>4. FeedPhase(c)' = "stopping"
    BY <1>0, <2>2, <2>3 DEF Told
  <2>5. PhaseMoves(c, "open", "stopping")
    BY <1>1, <2>1, <2>4 DEF PhaseMoves
  <2>6. Feed!Stop(c)
    BY <1>1, <2>5, MoveMaps DEF Feed!Stop
  <2> QED
    BY <2>6 DEF Feed!Next
<1> QED
  BY <1>2, <1>3, <1>4

(* connect goes on, or its future is dropped half way.                     *)
LEMMA FeedConnects ==
  ASSUME FeedInv, FeedInv', NEW p \in Callers, NEW c \in Conns, Concerns(p, c), target[p] = c,
         pc[p] = "connecting", ConnectInsert(p) \/ Cancel(p)
  PROVE  [Feed!Next]_Feed!vars
<1>0. "map" \notin Callers /\ \A d \in Conns : Told(d) /\ Told(d)'
  BY ConstantsAssumption, PhaseTold, PhaseToldNext DEF FeedInv
<1>1. /\ \A d \in Conns \ {c} : FeedPhase(d)' = FeedPhase(d)
      /\ UNCHANGED <<delivered, produced>>
  BY <1>0, OthersKeepPhase DEF ConnectInsert, Cancel, itemVars
<1>2. FeedPhase(c) = "connecting" /\ holders[c] = {p} /\ task[c] # "none"
  BY <1>0 DEF Told, Bringing, FeedInv, SilentInv, HolderInv, TargetInv
<1> USE DEF FeedInv, HolderInv, TypeOK, CallerTypes
<1>3. CASE ConnectInsert(p)
  <2>1. FeedPhase(c)' = "open"
    BY <1>0, <1>3 DEF ConnectInsert, Told
  <2>2. PhaseMoves(c, "connecting", "open")
    BY <1>1, <1>2, <2>1 DEF PhaseMoves
  <2>3. Feed!Ready(c)
    BY <1>1, <2>2, MoveMaps DEF Feed!Ready
  <2> QED
    BY <2>3 DEF Feed!Next
<1>4. CASE Cancel(p)
  <2>1. holders'[c] = {} /\ task' = task
    BY <1>2, <1>4 DEF Cancel, Release, taskVars
  <2>2. FeedPhase(c)' = "gone"
    BY <1>0, <1>2, <2>1 DEF Told
  <2>3. PhaseMoves(c, "connecting", "gone")
    BY <1>1, <1>2, <2>2 DEF PhaseMoves
  <2>4. Feed!Abandon(c)
    BY <1>1, <2>3, MoveMaps DEF Feed!Abandon
  <2> QED
    BY <2>4 DEF Feed!Next
<1> QED
  BY <1>3, <1>4

(* A receive that timed out, a dropped future and the end of a disconnect   *)
(* let go; so does the receive that found the channel closed.              *)
LEMMA FeedLetsGo ==
  ASSUME FeedInv, FeedInv', NEW p \in Callers, NEW c \in Conns, Concerns(p, c), target[p] = c,
         pc[p] \notin {"idle", "connecting"},
         ReceiveTimeout(p) \/ DisconnectShutdown(p) \/ Cancel(p)
  PROVE  [Feed!Next]_Feed!vars
<1>1. /\ \A d \in Conns \ {c} : FeedPhase(d)' = FeedPhase(d)
      /\ UNCHANGED <<delivered, produced>>
  BY PhaseTold, PhaseToldNext, OthersKeepPhase
  DEF FeedInv, ReceiveTimeout, DisconnectShutdown, Cancel
<1>2. pc'[p] = "idle" /\ holders'[c] = holders[c] \ {p} /\ task' = task
  BY DEF ReceiveTimeout, DisconnectShutdown, Cancel, Release, Return, Suspend, taskVars, FeedInv,
         HolderInv, TypeOK, CallerTypes
<1>3. /\ FeedPhase(c) = IF "map" \in holders[c] THEN "open" ELSE "stopping"
      /\ FeedPhase(c)' = IF holders[c] \subseteq {p} THEN "gone"
                         ELSE IF "map" \in holders'[c] THEN "open" ELSE "stopping"
  BY <1>2, LettingGo
<1>4. "map" \notin Callers
  BY ConstantsAssumption
<1>5. CASE FeedPhase(c) = FeedPhase(c)'
  BY <1>1, <1>5, MoveMaps DEF PhaseMoves, Feed!vars
<1>6. CASE FeedPhase(c) # FeedPhase(c)'
  <2>1. PhaseMoves(c, "stopping", "gone")
    BY <1>1, <1>2, <1>3, <1>4, <1>6 DEF PhaseMoves
  <2>2. Feed!Drop(c)
    BY <1>1, <2>1, MoveMaps DEF Feed!Drop
  <2> QED
    BY <2>2 DEF Feed!Next
<1> QED
  BY <1>5, <1>6

(* receive waits for the write lock: nothing to be seen.                   *)
LEMMA FeedCloses ==
  ASSUME FeedInv, FeedInv', NEW p \in Callers, NEW c \in Conns, Concerns(p, c), target[p] = c,
         ReceiveClosed(p)
  PROVE  [Feed!Next]_Feed!vars
<1>1. /\ \A d \in Conns \ {c} : FeedPhase(d)' = FeedPhase(d)
      /\ UNCHANGED <<delivered, produced, holders, task>>
  BY PhaseTold, PhaseToldNext, OthersKeepPhase
  DEF FeedInv, ReceiveClosed, itemVars, taskVars
<1>2. Bringing(c)' <=> Bringing(c)
  BY DEF ReceiveClosed, Suspend, Bringing, FeedInv, HolderInv, TypeOK, CallerTypes
<1>3. FeedPhase(c)' = FeedPhase(c)
  BY <1>1, <1>2, PhaseTold, PhaseToldNext, PhaseKept DEF FeedInv
<1> QED
  BY <1>1, <1>3, MoveMaps DEF PhaseMoves, Feed!vars

(* The head of the channel is the item the source emitted after the last    *)
(* one delivered.                                                          *)
LEMMA HeadIsNext ==
  ASSUME FeedInv, NEW c \in Live, queue[c] # <<>>
  PROVE  /\ Len(delivered[c]) < Len(Upto(produced[c]))
         /\ Head(queue[c]) = Upto(produced[c])[Len(delivered[c]) + 1]
<1>1. c \in Conns /\ Numbered(queue[c], Len(delivered[c]))
  BY DEF Live, FeedInv, OrderInv, OrderOf
<1> DEFINE D == Len(delivered[c])
           Q == queue[c]
           N == produced[c]
<1>2. D \in Nat /\ N \in Nat /\ Q \in Seq(Nat) /\ Q # <<>> /\ Numbered(Q, D) /\ D + Len(Q) <= N
  BY <1>1, ItemLengths DEF FeedInv, ReachedInv, HolderInv, TypeOK, ItemTypes, Items
<1> HIDE DEF D, Q, N
<1>3. Len(Q) \in Nat \ {0} /\ Head(Q) = Q[1]
  BY <1>2, EmptySeq, LenProperties, HeadTailProperties
<1>4. Q[1] = D + 1
  BY <1>2, <1>3 DEF Numbered
<1>5. Len(Upto(N)) = N /\ D + 1 \in 1..N
  BY <1>2, <1>3, SMT DEF Upto
<1>6. Upto(N)[D + 1] = D + 1
  BY <1>5 DEF Upto
<1>7. D < N
  BY <1>2, <1>3
<1> QED
  BY <1>3, <1>4, <1>5, <1>6, <1>7 DEF D, Q, N

LEMMA FeedDelivers ==
  ASSUME FeedInv, FeedInv', NEW p \in Callers, NEW c \in Conns, Concerns(p, c), target[p] = c,
         ReceiveItem(p)
  PROVE  [Feed!Next]_Feed!vars
<1>1. /\ \A d \in Conns \ {c} : FeedPhase(d)' = FeedPhase(d)
      /\ UNCHANGED produced
  BY PhaseTold, PhaseToldNext, OthersKeepPhase DEF FeedInv, ReceiveItem
<1>2. pc[p] \notin {"idle", "connecting"} /\ pc'[p] = "idle"
      /\ holders'[c] = holders[c] \ {p} /\ task' = task
  BY DEF ReceiveItem, Release, Return, Suspend, taskVars, FeedInv, HolderInv, TypeOK, CallerTypes
<1>3. /\ FeedPhase(c) = IF "map" \in holders[c] THEN "open" ELSE "stopping"
      /\ FeedPhase(c)' = IF holders[c] \subseteq {p} THEN "gone"
                         ELSE IF "map" \in holders'[c] THEN "open" ELSE "stopping"
  BY <1>2, LettingGo
<1>4. "map" \notin Callers
  BY ConstantsAssumption
<1>5. \/ PhaseMoves(c, "open", "open") \/ PhaseMoves(c, "stopping", "stopping")
      \/ PhaseMoves(c, "stopping", "gone")
  BY <1>1, <1>2, <1>3, <1>4 DEF PhaseMoves
<1>6. /\ Len(delivered[c]) < Len(Upto(produced[c]))
      /\ Head(queue[c]) = Upto(produced[c])[Len(delivered[c]) + 1]
  <2>1. c \in Live /\ queue[c] # <<>>
    BY <1>2 DEF ReceiveItem, Live, FeedInv, HolderInv, NoLeakedReference
  <2> QED
    BY <2>1, HeadIsNext
<1>7. delivered' = [delivered EXCEPT ![c] = Append(@, Upto(produced[c])[Len(@) + 1])]
  BY <1>6 DEF ReceiveItem
<1>8. Feed!Deliver(c)
  BY <1>1, <1>5, <1>6, <1>7, MoveMaps DEF Feed!Deliver, Feed!Move
<1> QED
  BY <1>8 DEF Feed!Next

(* The entry goes: the connection is finished when nobody else holds it,    *)
(* and nothing was left; an aborted one had no entry any more.             *)
LEMMA FeedRemoves ==
  ASSUME FeedInv, FeedInv', NEW p \in Callers, NEW c \in Conns, Concerns(p, c), target[p] = c,
         ReceiveRemove(p)
  PROVE  [Feed!Next]_Feed!vars
<1>1. /\ \A d \in Conns \ {c} : FeedPhase(d)' = FeedPhase(d)
      /\ UNCHANGED <<delivered, produced>>
  BY PhaseTold, PhaseToldNext, OthersKeepPhase DEF FeedInv, ReceiveRemove
<1>2. pc[p] \notin {"idle", "connecting"} /\ pc'[p] = "idle"
      /\ holders'[c] = holders[c] \ {p, "map"} /\ task' = task
  BY DEF ReceiveRemove, Release, Return, Suspend, taskVars, FeedInv, HolderInv, TypeOK, CallerTypes
<1>3. /\ FeedPhase(c) = IF "map" \in holders[c] THEN "open" ELSE "stopping"
      /\ FeedPhase(c)' = IF holders[c] \subseteq {p, "map"} THEN "gone" ELSE "stopping"
  <2> DEFINE H == {p, "map"}
  <2>1. p \in H /\ holders'[c] = holders[c] \ H /\ task'[c] = task[c] /\ "map" \notin holders'[c]
    BY <1>2
  <2> HIDE DEF H
  <2>2. /\ FeedPhase(c) = IF "map" \in holders[c] THEN "open" ELSE "stopping"
        /\ FeedPhase(c)' = IF holders[c] \subseteq H THEN "gone"
                           ELSE IF "map" \in holders'[c] THEN "open" ELSE "stopping"
    BY <1>2, <2>1, LettingGo
  <2> QED
    BY <2>1, <2>2 DEF H
<1>4. CASE "map" \in holders[c]
  <2>1. delivered[c] = Upto(produced[c])
    <3>1. ~aborting[c]
      BY <1>4 DEF FeedInv, SilentInv, Stopping
    <3>2. Len(delivered[c]) = produced[c]
      BY <3>1 DEF ReceiveRemove, FeedInv, ClosedMeansDrained
    <3> QED
      BY <3>2 DEF FeedInv, DeliveredInOrder
  <2>2. PhaseMoves(c, "open", "gone") \/ PhaseMoves(c, "open", "stopping")
    BY <1>1, <1>3, <1>4 DEF PhaseMoves
  <2>3. Feed!Finish(c) \/ Feed!Stop(c)
    BY <1>1, <2>1, <2>2, MoveMaps DEF Feed!Finish, Feed!Stop
  <2> QED
    BY <2>3 DEF Feed!Next
<1>5. CASE "map" \notin holders[c]
  <2>1. PhaseMoves(c, "stopping", "gone") \/ PhaseMoves(c, "stopping", "stopping")
    BY <1>1, <1>3, <1>5 DEF PhaseMoves
  <2>2. Feed!Drop(c) \/ UNCHANGED Feed!vars
    BY <1>1, <2>1, MoveMaps DEF Feed!Drop, Feed!vars
  <2> QED
    BY <2>2 DEF Feed!Next
<1> QED
  BY <1>4, <1>5

LEMMA FeedCallerStep ==
  ASSUME FeedInv, FeedInv', NEW p \in Callers, CallerStep(p)
  PROVE  [Feed!Next]_Feed!vars
<1> PICK c \in Conns :
      /\ Concerns(p, c)
      /\ \/ Connect(p, c) \/ Receive(p, c) \/ Disconnect(p, c)
         \/ pc[p] # "idle" /\ target[p] = c
  BY CallerConcerns DEF FeedInv
<1>1. CASE Connect(p, c) \/ Receive(p, c) \/ Disconnect(p, c)
  BY <1>1, FeedBegins
<1>2. CASE pc[p] # "idle" /\ target[p] = c
  <2>1. CASE pc[p] = "connecting"
    <3>1. ConnectInsert(p) \/ Cancel(p)
      BY <2>1 DEF CallerStep, Connect, Receive, Disconnect, ReceiveItem, ReceiveTimeout,
                  ReceiveClosed, ReceiveRemove, DisconnectShutdown
    <3> QED
      BY <1>2, <2>1, <3>1, FeedConnects
  <2>2. CASE pc[p] # "connecting"
    <3>1. \/ ReceiveTimeout(p) \/ DisconnectShutdown(p) \/ Cancel(p)
          \/ ReceiveItem(p) \/ ReceiveClosed(p) \/ ReceiveRemove(p)
      BY <1>2, <2>2 DEF CallerStep, Connect, Receive, Disconnect, ConnectInsert
    <3> QED
      BY <1>2, <2>2, <3>1, FeedLetsGo, FeedDelivers, FeedCloses, FeedRemoves
  <2> QED
    BY <2>1, <2>2
<1> QED
  BY <1>1, <1>2

(* The task's side: decoding a frame is what the source emits.             *)
LEMMA UptoGrows ==
  ASSUME NEW m \in Nat, NEW n \in Nat, m <= n
  PROVE  Feed!IsPrefix(Upto(m), Upto(n))
<1>1. Len(Upto(m)) = m /\ Len(Upto(n)) = n
  BY SMT DEF Upto
<1>2. SubSeq(Upto(m), 1, m) = [i \in 1..m |-> i]
  BY DEF Upto
<1>3. SubSeq(Upto(n), 1, m) = [i \in 1..m |-> i]
  BY DEF Upto
<1> QED
  BY <1>1, <1>2, <1>3 DEF Feed!IsPrefix

LEMMA FeedTaskStep ==
  ASSUME FeedInv, FeedInv', NEW c \in Conns, DialStep(c) \/ StreamStep(c)
  PROVE  [Feed!Next]_Feed!vars
<1>1. /\ UNCHANGED <<holders, pc, target, delivered>> /\ Running(c)
      /\ \E step \in TaskStates \ {"none"} : task' = [task EXCEPT ![c] = step]
  BY TaskStepFrame DEF FeedInv, HolderInv, callerVars
<1>2. \A d \in Conns : task'[d] = "none" <=> task[d] = "none"
  BY <1>1 DEF Running, FeedInv, HolderInv, TypeOK, TaskTypes
<1>3. \A d \in Conns : FeedPhase(d)' = FeedPhase(d)
  <2> SUFFICES ASSUME NEW d \in Conns PROVE FeedPhase(d)' = FeedPhase(d)
    OBVIOUS
  <2>1. Bringing(d)' <=> Bringing(d)
    BY <1>1 DEF Bringing
  <2> QED
    BY <1>1, <1>2, <2>1, PhaseTold, PhaseToldNext, PhaseKept DEF FeedInv
<1>4. FeedPhase(c) # "none"
  BY <1>1, PhaseTold DEF Told, Running, FeedInv
<1>5. \A d \in Conns \ {c} : produced'[d] = produced[d]
  BY TaskStepItems DEF FeedInv, HolderInv
<1>6. produced[c] \in Nat /\ produced'[c] \in Nat /\ produced[c] <= produced'[c]
  <2>1. produced[c] \in Nat /\ produced'[c] \in Nat
    BY DEF FeedInv, HolderInv, TypeOK, ItemTypes
  <2>2. CASE \E n \in Batches : Decoded(c, n)
    BY <2>1, <2>2, ConstantsAssumption DEF Decoded, FeedInv, HolderInv, TypeOK, ItemTypes
  <2>3. CASE ~ \E n \in Batches : Decoded(c, n)
    <3>1. produced' = produced
      BY <2>3 DEF DialStep, StreamStep, TopShutdown, Dial, DialInvalid, DialFailed,
             GiveUp, DialAccepted, HandshakeFailed, HandshakeDone, BackoffElapsed,
             BackoffShutdown, StreamLost, SendResponse, SendResponseFailed, Frame, PushReply,
             Forward, ForwardDone, StreamShutdown, StreamClosed, Aborted, itemVars
    <3> QED
      BY <2>1, <3>1
  <2> QED
    BY <2>2, <2>3
<1>7. Feed!IsPrefix(Upto(produced[c]), Upto(produced'[c]))
  BY <1>6, UptoGrows
<1>8. Feed!Emit(c)
  <2>1. [d \in Conns |-> FeedPhase(d)][c] # "none"
    BY <1>4
  <2>2. Feed!IsPrefix([d \in Conns |-> Upto(produced[d])][c],
                      [d \in Conns |-> Upto(produced[d])]'[c])
    BY <1>7
  <2>3. \A d \in Conns \ {c} :
          [e \in Conns |-> Upto(produced[e])]'[d] = [e \in Conns |-> Upto(produced[e])][d]
    BY <1>5
  <2>4. UNCHANGED <<[d \in Conns |-> FeedPhase(d)], delivered>>
    BY <1>1, <1>3
  <2> QED
    BY <2>1, <2>2, <2>3, <2>4 DEF Feed!Emit
<1> QED
  BY <1>8 DEF Feed!Next

-----------------------------------------------------------------------------
LEMMA FeedInit == Init => Feed!Init
<1> SUFFICES ASSUME Init PROVE Feed!Init
  OBVIOUS
<1>1. ASSUME NEW c \in Conns PROVE FeedPhase(c) = "none"
  <2>1. task[c] = "none" /\ holders[c] = {}
    BY DEF Init
  <2>2. HolderInv /\ SilentInv
    BY HolderInit DEF Init, SilentInv, Stopping
  <2> QED
    BY <2>1, <2>2, PhaseTold DEF Told
<1>2. Upto(0) = <<>>
  BY DEF Upto
<1>3. [c \in Conns |-> FeedPhase(c)] = [c \in Conns |-> "none"]
  BY <1>1
<1>4. [c \in Conns |-> Upto(produced[c])] = [c \in Conns |-> <<>>]
  BY <1>2 DEF Init
<1>5. delivered = [c \in Conns |-> <<>>]
  BY DEF Init
<1> QED
  BY <1>3, <1>4, <1>5 DEF Feed!Init

(* The reconnecting provider keeps what DanmakuFeed promises of a provider: *)
(* the next item each time, once and in order, and no closed connection    *)
(* while items are left, across reconnects, shared handles, dropped futures*)
(* and full channels.                                                      *)
THEOREM ReconnectingIsAFeed == Spec => ImplementsFeed
<1>1. FeedInv /\ FeedInv' /\ [Next]_vars => [Feed!Next]_Feed!vars
  <2> SUFFICES ASSUME FeedInv, FeedInv', [Next]_vars PROVE [Feed!Next]_Feed!vars
    OBVIOUS
  <2>1. CASE UNCHANGED vars
    <3>1. UNCHANGED <<holders, pc, target, task, produced, delivered>>
      BY <2>1 DEF vars, callerVars, taskVars, itemVars
    <3>2. ASSUME NEW d \in Conns PROVE FeedPhase(d)' = FeedPhase(d)
      <4>1. Bringing(d)' <=> Bringing(d)
        BY <3>1 DEF Bringing
      <4> QED
        BY <3>1, <4>1, PhaseTold, PhaseToldNext, PhaseKept DEF FeedInv
    <3> QED
      BY <3>1, <3>2 DEF Feed!vars
  <2> QED
    BY <2>1, FeedCallerStep, FeedTaskStep DEF Next
<1>2. Spec => []FeedInv
  BY OrderInvariant, SilentInvariant, ReachedInvariant, DeliveryInOrder, ClosedAfterLastItem,
     PTL DEF FeedInv
<1> QED
  BY <1>1, <1>2, FeedInit, PTL DEF Spec, ImplementsFeed, Feed!Spec

=============================================================================
