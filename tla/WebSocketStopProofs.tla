------------------------ MODULE WebSocketStopProofs ------------------------
(***************************************************************************)
(* Why a connection of WebSocketProvider stops: entries, back-off, giving  *)
(* up and disconnecting, for every limit, delay and number of attempts.    *)
(***************************************************************************)
EXTENDS WebSocketProviderProofs

-----------------------------------------------------------------------------
(* Entries.                                                                *)

(* An entry leaves the map only because a caller disconnects it or because  *)
(* receive found its task ended: a live stream never loses its entry.      *)
THEOREM EntriesRemovedForCause == Spec => EntryRemovedForCause
<1>1. HolderInv /\ RemovingInv /\ [Next]_vars
        => [\A c \in Connections \ Connections' :
              task[c] = "ended" \/ \E p \in writer' : target'[p] = c]_vars
  <2> SUFFICES ASSUME HolderInv, RemovingInv, Next, NEW c \in Connections \ Connections'
               PROVE  task[c] = "ended" \/ \E p \in writer' : target'[p] = c
    OBVIOUS
  <2>0. c \in Conns /\ "map" \in holders[c] /\ "map" \notin holders'[c] /\ "map" \notin Callers
    BY ConstantsAssumption DEF Connections
  <2> USE DEF HolderInv, TypeOK, CallerTypes, TargetInv
  <2>1. ASSUME NEW p \in Callers, NEW d \in Conns, Connect(p, d) \/ Receive(p, d) PROVE FALSE
    BY <2>0, <2>1 DEF Connect, Receive
  <2>2. ASSUME NEW p \in Callers, NEW d \in Conns, Disconnect(p, d)
        PROVE  writer' = {p} /\ target'[p] = c
    BY <2>0, <2>2 DEF Disconnect, Suspend
  <2>3. ASSUME NEW p \in Callers, ReceiveRemove(p) PROVE task[c] = "ended"
    <3>1. target[p] = c
      BY <2>0, <2>3 DEF ReceiveRemove, Release
    <3> QED
      BY <2>3, <3>1 DEF ReceiveRemove, RemovingInv
  <2>4. ASSUME NEW p \in Callers,
               \/ ConnectInsert(p) \/ ReceiveItem(p) \/ ReceiveTimeout(p) \/ ReceiveClosed(p)
               \/ DisconnectShutdown(p) \/ Cancel(p)
        PROVE  FALSE
    <3>1. \E d : holders' \in {holders, [holders EXCEPT ![d] = (holders[d] \ {p}) \union {"map"}],
                               [holders EXCEPT ![d] = holders[d] \ {p}]}
      BY <2>4 DEF ConnectInsert, ReceiveItem, ReceiveTimeout, ReceiveClosed, DisconnectShutdown,
                  Cancel, Release
    <3> QED
      BY <2>0, <3>1
  <2>5. ASSUME NEW d \in Conns, DialStep(d) \/ StreamStep(d) PROVE FALSE
    BY <2>0, <2>5, TaskStepFrame DEF callerVars
  <2> QED
    BY <2>1, <2>2, <2>3, <2>4, <2>5 DEF Next, CallerStep
<1> QED
  BY <1>1, HolderInvariant, RemovingInvariant, PTL DEF Spec, EntryRemovedForCause

-----------------------------------------------------------------------------
(* Back-off.                                                               *)

(* Doubling a power of two, counted as subsets: those of 1..n, with and    *)
(* without n + 1.                                                          *)
LEMMA PowerDoubles ==
  ASSUME NEW n \in Nat
  PROVE  2^n \in Nat /\ 2^(n + 1) = 2 * 2^n
<1> DEFINE S == SUBSET (1..n)
           T == {A \union {n + 1} : A \in S}
           f == [A \in S |-> A \union {n + 1}]
<1>1. IsFiniteSet(1..n) /\ Cardinality(1..n) = n
  BY FS_Interval
<1>2. IsFiniteSet(S) /\ Cardinality(S) = 2^n
  BY <1>1, FS_SUBSET
<1>3. IsFiniteSet(1..(n + 1)) /\ Cardinality(1..(n + 1)) = n + 1
  BY FS_Interval
<1>4. Cardinality(SUBSET (1..(n + 1))) = 2^(n + 1)
  BY <1>3, FS_SUBSET
<1>5. \A A \in S : n + 1 \notin A
  OBVIOUS
<1>6. f \in Bijection(S, T)
  <2>1. f \in Injection(S, T)
    <3>1. f \in [S -> T]
      OBVIOUS
    <3>2. ASSUME NEW A \in S, NEW B \in S, f[A] = f[B] PROVE A = B
      <4>1. A \union {n + 1} = B \union {n + 1}
        BY <3>2
      <4>2. A = (A \union {n + 1}) \ {n + 1} /\ B = (B \union {n + 1}) \ {n + 1}
        BY <1>5
      <4> QED
        BY <4>1, <4>2
    <3> QED
      BY <3>1, <3>2 DEF Injection, IsInjective
  <2>2. f \in Surjection(S, T)
    BY DEF Surjection
  <2> QED
    BY <2>1, <2>2 DEF Bijection
<1>7. IsFiniteSet(T) /\ Cardinality(T) = Cardinality(S)
  BY <1>2, <1>6, FS_Bijection DEF ExistsBijection
<1>8. S \intersect T = {}
  BY <1>5
<1>9. S \union T = SUBSET (1..(n + 1))
  <2>1. 1..(n + 1) = (1..n) \union {n + 1}
    OBVIOUS
  <2>2. ASSUME NEW B \in SUBSET (1..(n + 1)), B \notin S PROVE B \in T
    <3>1. n + 1 \in B /\ B \ {n + 1} \in S
      BY <2>1, <2>2
    <3>2. B = (B \ {n + 1}) \union {n + 1}
      BY <3>1
    <3> QED
      BY <3>1, <3>2
  <2>3. \A A \in S : A \subseteq 1..(n + 1) /\ A \union {n + 1} \subseteq 1..(n + 1)
    BY <2>1
  <2>4. \A B \in S \union T : B \in SUBSET (1..(n + 1))
    BY <2>3
  <2> HIDE DEF S, T
  <2> QED
    BY <2>2, <2>4
<1>10. Cardinality(S \union T) = Cardinality(S) + Cardinality(T) - Cardinality(S \intersect T)
  BY <1>2, <1>7, FS_Union
<1>11. Cardinality(S) \in Nat /\ Cardinality({}) = 0
  BY <1>2, FS_CardinalityType, FS_EmptySet
<1> HIDE DEF S, T, f
<1>12. 2^(n + 1) = Cardinality(S) + Cardinality(S) - 0
  BY <1>4, <1>7, <1>8, <1>9, <1>10, <1>11
<1> QED
  BY <1>2, <1>11, <1>12

LEMMA DelayDoubles ==
  ASSUME NEW k \in Nat \ {0}
  PROVE  Lesser(BackoffDelay(k) * 2, MaxDelay) = BackoffDelay(k + 1)
<1>0. BaseDelay \in Nat /\ MaxDelay \in Nat
  BY ConstantsAssumption
<1>1. CASE k = 1
  <2>1. 2^0 = 1 /\ 2^(0 + 1) = 2 * 2^0
    BY PowerDoubles, SMT
  <2>2. 2^1 = 2
    BY <2>1
  <2>3. BackoffDelay(k) = BaseDelay /\ BackoffDelay(k + 1) = Lesser(BaseDelay * 2^1, MaxDelay)
    BY <1>1 DEF BackoffDelay
  <2> QED
    BY <2>2, <2>3
<1>2. CASE k > 1
  <2>1. PICK x \in Nat : x = 2^(k - 1)
    BY <1>2, PowerDoubles
  <2>2. 2^k = 2 * x
    <3>1. k - 1 \in Nat /\ (k - 1) + 1 = k
      OBVIOUS
    <3> QED
      BY <2>1, <3>1, PowerDoubles
  <2>3. BackoffDelay(k) = Lesser(BaseDelay * x, MaxDelay)
    BY <1>2, <2>1 DEF BackoffDelay
  <2>4. BackoffDelay(k + 1) = Lesser(BaseDelay * (2 * x), MaxDelay)
    <3>1. ~(k + 1 <= 1) /\ (k + 1) - 1 = k
      BY <1>2
    <3> QED
      BY <2>2, <3>1 DEF BackoffDelay
  <2>5. PICK y \in Nat : y = BaseDelay * x
    BY <1>0
  <2>6. BaseDelay * (2 * x) = 2 * y
    BY <1>0, <2>5
  <2> QED
    BY <1>0, <2>3, <2>4, <2>5, <2>6 DEF Lesser
<1> QED
  BY <1>1, <1>2

(* While a task does not wait, delay is what its next wait will be; and a   *)
(* task that closes its stream was told to.                                *)
BackoffInv ==
  \A c \in Conns :
    /\ attempt[c] <= MaxReconnect
    /\ task[c] = "backoff" => attempt[c] > 0
    /\ delay[c] = BackoffDelay(IF task[c] = "backoff" THEN attempt[c] ELSE attempt[c] + 1)
    /\ task[c] = "closing" => shutdown[c] # "open"

LEMMA FirstDelay == BackoffDelay(0 + 1) = BaseDelay
BY DEF BackoffDelay

LEMMA BackoffCallerStep ==
  ASSUME HolderInv, BackoffInv, NEW p \in Callers, CallerStep(p)
  PROVE  BackoffInv'
<1>1. UNCHANGED <<attempt, delay>>
  BY DEF CallerStep, Connect, Receive, Disconnect, ConnectInsert, ReceiveItem, ReceiveTimeout,
         ReceiveClosed, ReceiveRemove, DisconnectShutdown, Cancel, taskVars
<1>2. \A c \in Conns : task'[c] = task[c] \/ (task[c] = "none" /\ task'[c] = "top")
  BY DEF CallerStep, Connect, Receive, Disconnect, ConnectInsert, ReceiveItem, ReceiveTimeout,
         ReceiveClosed, ReceiveRemove, DisconnectShutdown, Cancel, taskVars,
         HolderInv, TypeOK, TaskTypes
<1>3. ASSUME NEW c \in Conns, shutdown[c] # "open" PROVE shutdown'[c] # "open"
  BY <1>3 DEF CallerStep, Connect, Receive, Disconnect, ConnectInsert, ReceiveItem, ReceiveTimeout,
         ReceiveClosed, ReceiveRemove, DisconnectShutdown, Cancel, Release, stopVars,
         HolderInv, TypeOK, CallerTypes
<1> QED
  BY <1>1, <1>2, <1>3 DEF BackoffInv

LEMMA BackoffTaskStep ==
  ASSUME HolderInv, BackoffInv, NEW c \in Conns, DialStep(c) \/ StreamStep(c)
  PROVE  BackoffInv'
<1>0. /\ attempt[c] \in Nat /\ delay[c] \in Nat
      /\ BaseDelay \in Nat /\ MaxDelay \in Nat /\ MaxReconnect \in Nat
  BY ConstantsAssumption DEF HolderInv, TypeOK, TaskTypes
<1>1. ASSUME NEW d \in Conns \ {c}
      PROVE  UNCHANGED <<attempt[d], delay[d], task[d], shutdown[d]>>
  <2>1. \/ attempt' = attempt \/ \E v : attempt' = [attempt EXCEPT ![c] = v]
    BY DEF DialStep, StreamStep, TopShutdown, Dial, DialInvalid, DialFailed, GiveUp,
           DialAccepted, HandshakeFailed, HandshakeDone, BackoffElapsed, BackoffShutdown,
           StreamLost, SendResponse, SendResponseFailed, Frame, PushReply, Decoded, Forward,
           ForwardDone, StreamShutdown, StreamClosed, Aborted, End, taskVars
  <2>2. \/ delay' = delay \/ \E v : delay' = [delay EXCEPT ![c] = v]
    BY DEF DialStep, StreamStep, TopShutdown, Dial, DialInvalid, DialFailed, GiveUp,
           DialAccepted, HandshakeFailed, HandshakeDone, BackoffElapsed, BackoffShutdown,
           StreamLost, SendResponse, SendResponseFailed, Frame, PushReply, Decoded, Forward,
           ForwardDone, StreamShutdown, StreamClosed, Aborted, End, taskVars
  <2>3. \/ shutdown' = shutdown \/ \E v : shutdown' = [shutdown EXCEPT ![c] = v]
    BY DEF DialStep, StreamStep, TopShutdown, Dial, DialInvalid, DialFailed, GiveUp,
           DialAccepted, HandshakeFailed, HandshakeDone, BackoffElapsed, BackoffShutdown,
           StreamLost, SendResponse, SendResponseFailed, Frame, PushReply, Decoded, Forward,
           ForwardDone, StreamShutdown, StreamClosed, Aborted, stopVars
  <2>4. task'[d] = task[d]
    BY TaskStepFrame DEF HolderInv, TypeOK, TaskTypes
  <2> QED
    BY <2>1, <2>2, <2>3, <2>4 DEF HolderInv, TypeOK, TaskTypes, CallerTypes
<1>2. /\ attempt'[c] <= MaxReconnect
      /\ task'[c] = "backoff" => attempt'[c] > 0
      /\ delay'[c] = BackoffDelay(IF task'[c] = "backoff" THEN attempt'[c] ELSE attempt'[c] + 1)
      /\ task'[c] = "closing" => shutdown'[c] # "open"
  <2> USE DEF HolderInv, TypeOK, TaskTypes, CallerTypes, Goto
  <2>0. /\ attempt[c] <= MaxReconnect
        /\ task[c] = "backoff" => attempt[c] > 0
        /\ delay[c] = BackoffDelay(IF task[c] = "backoff" THEN attempt[c] ELSE attempt[c] + 1)
    BY DEF BackoffInv
  <2>1. CASE \/ TopShutdown(c) \/ GiveUp(c) \/ BackoffShutdown(c) \/ StreamClosed(c) \/ Aborted(c)
    <3>1. attempt'[c] = 0 /\ delay'[c] = BaseDelay /\ task'[c] = "ended"
      BY <2>1 DEF TopShutdown, GiveUp, BackoffShutdown, StreamClosed, Aborted, End
    <3> QED
      BY <1>0, <3>1, FirstDelay
  <2>2. CASE HandshakeDone(c)
    <3>1. attempt'[c] = 0 /\ delay'[c] = BaseDelay /\ task'[c] = "stream"
      BY <2>2 DEF HandshakeDone
    <3> QED
      BY <1>0, <3>1, FirstDelay
  <2>3. CASE DialFailed(c)
    <3>1. /\ attempt'[c] = attempt[c] + 1 /\ delay'[c] = delay[c] /\ task'[c] = "backoff"
          /\ task[c] = "dialing" /\ attempt[c] < MaxReconnect
      BY <2>3 DEF DialFailed, DialFails
    <3> QED
      BY <1>0, <2>0, <3>1
  <2>4. CASE BackoffElapsed(c)
    <3>1. /\ attempt'[c] = attempt[c] /\ task'[c] = "top" /\ task[c] = "backoff"
          /\ delay'[c] = Lesser(delay[c] * 2, MaxDelay)
      BY <2>4 DEF BackoffElapsed
    <3>2. delay[c] = BackoffDelay(attempt[c]) /\ attempt[c] \in Nat \ {0}
      BY <1>0, <2>0, <3>1
    <3>3. delay'[c] = BackoffDelay(attempt[c] + 1)
      BY <3>1, <3>2, DelayDoubles
    <3> QED
      BY <2>0, <3>1, <3>3
  <2>5. CASE \/ Dial(c) \/ DialInvalid(c) \/ DialAccepted(c) \/ HandshakeFailed(c)
             \/ StreamLost(c) \/ SendResponseFailed(c) \/ ForwardDone(c) \/ StreamShutdown(c)
             \/ (\E r \in Replies : Frame(c, r)) \/ (\E n \in Batches : Decoded(c, n))
    <3>1. /\ attempt'[c] = attempt[c] /\ delay'[c] = delay[c]
          /\ task[c] # "backoff" /\ task'[c] # "backoff"
          /\ task'[c] = "closing" => shutdown'[c] # "open"
      BY <2>5 DEF Dial, DialInvalid, DialAccepted, HandshakeFailed, StreamLost,
                  SendResponseFailed, ForwardDone, StreamShutdown, Frame, Decoded
    <3> QED
      BY <2>0, <3>1
  <2>6. CASE SendResponse(c) \/ PushReply(c) \/ Forward(c)
    <3>1. /\ UNCHANGED <<attempt, delay, task>>
          /\ task[c] \in {"stream", "decoding", "forwarding"}
      BY <2>6 DEF SendResponse, PushReply, Forward, taskVars
    <3> QED
      BY <2>0, <3>1
  <2> QED
    BY <2>1, <2>2, <2>3, <2>4, <2>5, <2>6 DEF DialStep, StreamStep
<1> QED
  BY <1>1, <1>2 DEF BackoffInv

LEMMA BackoffInvariant == Spec => []BackoffInv
<1>1. Init => BackoffInv
  BY ConstantsAssumption, FirstDelay DEF Init, BackoffInv
<1>2. HolderInv /\ BackoffInv /\ [Next]_vars => BackoffInv'
  <2>1. CASE UNCHANGED vars
    BY <2>1 DEF BackoffInv, vars, taskVars, stopVars
  <2> QED
    BY <2>1, BackoffCallerStep, BackoffTaskStep DEF Next
<1> QED
  BY <1>1, <1>2, HolderInvariant, PTL DEF Spec

(* Whatever fails and in whatever order, no more than MaxReconnect waits    *)
(* follow each other, the first is the base delay, and each is twice the   *)
(* one before it up to the maximum.                                        *)
THEOREM BackoffFollowsSchedule == Spec => []BackoffSchedule
<1>1. BackoffInv => BackoffSchedule
  BY DEF BackoffInv, BackoffSchedule
<1> QED
  BY <1>1, BackoffInvariant, PTL

(* A task the callers did not stop ends only after MaxReconnect failures in *)
(* a row.                                                                  *)
THEOREM GivesUpOnlyAtLimit == Spec => GivesUpOnlyExhausted
<1>1. HolderInv /\ BackoffInv /\ [Next]_vars
        => [\A c \in Conns :
              Running(c) /\ ~Running(c)' =>
                aborting[c] \/ shutdown[c] # "open" \/ attempt[c] = MaxReconnect]_vars
  <2> SUFFICES ASSUME HolderInv, BackoffInv, Next, NEW c \in Conns, Running(c), ~Running(c)'
               PROVE  aborting[c] \/ shutdown[c] # "open" \/ attempt[c] = MaxReconnect
    OBVIOUS
  <2>0. task[c] \notin {"none", "ended"} /\ task'[c] \in {"none", "ended"}
    BY DEF Running
  <2>1. ASSUME NEW p \in Callers, CallerStep(p) PROVE FALSE
    BY <2>0, <2>1 DEF CallerStep, Connect, Receive, Disconnect, ConnectInsert, ReceiveItem,
           ReceiveTimeout, ReceiveClosed, ReceiveRemove, DisconnectShutdown, Cancel, taskVars,
           HolderInv, TypeOK, TaskTypes
  <2>2. ASSUME NEW d \in Conns, DialStep(d) \/ StreamStep(d) PROVE d = c
    BY <2>0, <2>2, TaskStepFrame DEF HolderInv, TypeOK, TaskTypes
  <2>3. ASSUME DialStep(c) \/ StreamStep(c)
        PROVE  TopShutdown(c) \/ GiveUp(c) \/ BackoffShutdown(c) \/ StreamClosed(c) \/ Aborted(c)
    BY <2>0, <2>3 DEF DialStep, StreamStep, Dial, DialInvalid, DialFailed, DialAccepted,
           HandshakeFailed, HandshakeDone, BackoffElapsed, StreamLost, SendResponse,
           SendResponseFailed, Frame, PushReply, Decoded, Forward, ForwardDone, StreamShutdown,
           Goto, taskVars, HolderInv, TypeOK, TaskTypes
  <2>4. ASSUME TopShutdown(c) \/ BackoffShutdown(c) \/ Aborted(c)
        PROVE  aborting[c] \/ shutdown[c] # "open"
    BY <2>4 DEF TopShutdown, BackoffShutdown, Aborted
  <2>5. ASSUME StreamClosed(c) PROVE shutdown[c] # "open"
    BY <2>5 DEF StreamClosed, BackoffInv
  <2>6. ASSUME GiveUp(c) PROVE attempt[c] = MaxReconnect
    BY <2>6, ConstantsAssumption DEF GiveUp, BackoffInv, HolderInv, TypeOK, TaskTypes
  <2> QED
    BY <2>1, <2>2, <2>3, <2>4, <2>5, <2>6 DEF Next
<1> QED
  BY <1>1, HolderInvariant, BackoffInvariant, PTL DEF Spec, GivesUpOnlyExhausted

-----------------------------------------------------------------------------
(* Disconnect.                                                             *)

(* A connection that is being disconnected or was told to abort is not in   *)
(* the map and nobody brings it up, and with one handle nobody receives     *)
(* from it; one that is being brought up has only its own caller.          *)
Stopping(c) ==
  aborting[c] \/ \E p \in Callers : pc[p] = "disconnecting" /\ target[p] = c

Excluded == IF SharedHandle THEN {"connecting"} ELSE {"connecting", "receiving"}

SilentInv ==
  /\ \A c \in Conns : Stopping(c) =>
       /\ task[c] # "none"
       /\ "map" \notin holders[c]
       /\ \A p \in Callers : target[p] = c => pc[p] \notin Excluded
  /\ \A p \in Callers : pc[p] = "connecting" => holders[target[p]] = {p}

LEMMA SilentBegin ==
  ASSUME HolderInv, SilentInv, NEW p \in Callers, NEW c \in Conns,
         Connect(p, c) \/ Receive(p, c) \/ Disconnect(p, c)
  PROVE  SilentInv'
<1>0. "map" \notin Callers
  BY ConstantsAssumption
<1> USE DEF SilentInv, Stopping, Excluded, Suspend, HolderInv, TypeOK, CallerTypes, TaskTypes, TargetInv,
            stopVars, taskVars
<1>1. CASE Connect(p, c)
  <2>1. ASSUME NEW d \in Conns, Stopping(d)'
        PROVE  /\ task'[d] # "none"
               /\ "map" \notin holders'[d]
               /\ \A q \in Callers : target'[q] = d => pc'[q] \notin Excluded
    BY <1>0, <1>1, <2>1 DEF Connect
  <2>2. ASSUME NEW q \in Callers, pc'[q] = "connecting" PROVE holders'[target'[q]] = {q}
    BY <1>1, <2>2 DEF Connect
  <2> QED
    BY <2>1, <2>2
<1>2. CASE Receive(p, c)
  <2>1. ~Stopping(c)
    BY <1>2 DEF Receive, Connections
  <2>2. ASSUME NEW d \in Conns, Stopping(d)'
        PROVE  /\ task'[d] # "none"
               /\ "map" \notin holders'[d]
               /\ \A q \in Callers : target'[q] = d => pc'[q] \notin Excluded
    <3>1. Stopping(d)
      BY <1>2, <2>2 DEF Receive
    <3> QED
      BY <1>0, <1>2, <2>1, <3>1 DEF Receive
  <2>3. ASSUME NEW q \in Callers, pc'[q] = "connecting" PROVE holders'[target'[q]] = {q}
    BY <1>0, <1>2, <2>3 DEF Receive, Connections
  <2> QED
    BY <2>2, <2>3
<1>3. CASE Disconnect(p, c)
  <2>1. \A q \in Callers : target[q] = c => pc[q] \notin Excluded
    BY <1>0, <1>3 DEF Disconnect, Connections, BeingReceived
  <2>2. ASSUME NEW d \in Conns, Stopping(d)'
        PROVE  /\ task'[d] # "none"
               /\ "map" \notin holders'[d]
               /\ \A q \in Callers : target'[q] = d => pc'[q] \notin Excluded
    <3>1. CASE d = c
      <4>1. task[c] # "none"
        BY <1>3 DEF Disconnect, Connections
      <4> QED
        BY <1>0, <1>3, <2>1, <3>1, <4>1 DEF Disconnect
    <3>2. CASE d # c
      <4>1. Stopping(d)
        BY <1>3, <2>2, <3>2 DEF Disconnect
      <4> QED
        BY <1>3, <3>2, <4>1 DEF Disconnect
    <3> QED
      BY <3>1, <3>2
  <2>3. ASSUME NEW q \in Callers, pc'[q] = "connecting" PROVE holders'[target'[q]] = {q}
    BY <1>0, <1>3, <2>3 DEF Disconnect, Connections
  <2> QED
    BY <2>2, <2>3
<1> QED
  BY <1>1, <1>2, <1>3

(* A caller that goes on or returns stops a connection only by being its    *)
(* disconnect or its last holder.                                          *)
LEMMA StopCause ==
  ASSUME HolderInv, NEW p \in Callers,
         ~ \E c \in Conns : Connect(p, c) \/ Receive(p, c) \/ Disconnect(p, c),
         CallerStep(p), NEW d \in Conns, aborting'[d]
  PROVE  \/ aborting[d] \/ holders'[d] = {}
         \/ (pc[p] = "disconnecting" /\ target[p] = d)
<1>1. CASE ConnectInsert(p) \/ ReceiveClosed(p)
  BY <1>1 DEF ConnectInsert, ReceiveClosed, stopVars
<1>2. CASE DisconnectShutdown(p)
  BY <1>2 DEF DisconnectShutdown, HolderInv, TypeOK, CallerTypes, TargetInv
<1>3. CASE ReceiveItem(p) \/ ReceiveTimeout(p) \/ ReceiveRemove(p) \/ Cancel(p)
  <2> PICK c \in Conns : c = target[p]
    BY <1>3 DEF ReceiveItem, ReceiveTimeout, ReceiveRemove, Cancel, HolderInv, TargetInv
  <2>1. PICK H : Release(c, H, shutdown[c])
    BY <1>3 DEF ReceiveItem, ReceiveTimeout, ReceiveRemove, Cancel
  <2>2. aborting' = [aborting EXCEPT ![c] = aborting[c] \/ holders[c] \subseteq H]
    BY <2>1 DEF Release
  <2>3. d # c => aborting'[d] = aborting[d]
    BY <2>2 DEF HolderInv, TypeOK, CallerTypes
  <2>4. d = c => (aborting'[c] <=> (aborting[c] \/ holders[c] \subseteq H))
    BY <2>2, Zenon DEF HolderInv, TypeOK, CallerTypes
  <2>5. holders[c] \subseteq H => holders'[c] = {}
    BY <2>1 DEF Release, HolderInv, TypeOK, CallerTypes
  <2> QED
    BY <2>3, <2>4, <2>5
<1> QED
  BY <1>1, <1>2, <1>3 DEF CallerStep

LEMMA SilentGoOn ==
  ASSUME HolderInv, SilentInv, NEW p \in Callers,
         ~ \E c \in Conns : Connect(p, c) \/ Receive(p, c) \/ Disconnect(p, c),
         CallerStep(p)
  PROVE  SilentInv'
<1>0. "map" \notin Callers /\ pc[p] # "idle"
  BY ConstantsAssumption DEF CallerStep, ConnectInsert, ReceiveItem, ReceiveTimeout, ReceiveClosed,
                            ReceiveRemove, DisconnectShutdown, Cancel
<1> PICK c \in Conns : c = target[p]
  BY <1>0 DEF HolderInv, TargetInv
<1>1. /\ task' = task
      /\ \A d \in Conns \ {c} : holders'[d] = holders[d]
      /\ holders'[c] \subseteq holders[c] \/ (ConnectInsert(p) /\ "map" \in holders'[c])
      /\ \A q \in Callers \ {p} : pc'[q] = pc[q] /\ target'[q] = target[q]
      /\ pc'[p] \in {"idle", "removing"}
  BY DEF CallerStep, ConnectInsert, ReceiveItem, ReceiveTimeout, ReceiveClosed, ReceiveRemove,
         DisconnectShutdown, Cancel, Release, Return, Suspend, HolderInv, TypeOK, CallerTypes,
         TaskTypes, taskVars
<1>2. HolderInv'
  BY TypeCallerStep, HolderCallerStep DEF HolderInv
<1>3. ASSUME NEW d \in Conns, Stopping(d)'
      PROVE  /\ task'[d] # "none"
             /\ "map" \notin holders'[d]
             /\ \A q \in Callers : target'[q] = d => pc'[q] \notin Excluded
  <2>1. CASE holders'[d] = {}
    <3>1. \A q \in Callers : target'[q] = d => pc'[q] = "idle"
      BY <1>2, <2>1 DEF HolderInv, NoLeakedReference
    <3>2. ~ \E q \in Callers : pc'[q] = "disconnecting" /\ target'[q] = d
      BY <3>1
    <3>3. task[d] # "none"
      <4>1. CASE d = c
        BY <1>0, <4>1 DEF HolderInv, TargetInv
      <4>2. CASE d # c
        <5>1. aborting'[d] /\ ~(pc[p] = "disconnecting" /\ target[p] = d)
          BY <1>3, <3>2, <4>2 DEF Stopping
        <5>2. \/ aborting[d] \/ task[d] # "none"
          <6>1. aborting' = aborting \/ \E v : aborting' = [aborting EXCEPT ![c] = v]
            BY DEF CallerStep, ConnectInsert, ReceiveItem, ReceiveTimeout, ReceiveClosed,
                   ReceiveRemove, DisconnectShutdown, Cancel, Release, stopVars
          <6> QED
            BY <4>2, <5>1, <6>1 DEF HolderInv, TypeOK, CallerTypes, TaskTypes
        <5> QED
          BY <5>2 DEF SilentInv, Stopping
      <4> QED
        BY <4>1, <4>2
    <3> QED
      BY <1>1, <2>1, <3>1, <3>3 DEF Excluded
  <2>2. CASE holders'[d] # {}
    <3>1. Stopping(d)
      <4>1. CASE aborting'[d]
        BY <2>2, <4>1, StopCause DEF Stopping
      <4>2. CASE ~aborting'[d]
        BY <1>1, <1>3, <4>2 DEF Stopping
      <4> QED
        BY <4>1, <4>2
    <3>2. "map" \notin holders'[d]
      <4>1. ~(d = c /\ ConnectInsert(p))
        BY <3>1 DEF SilentInv, ConnectInsert, Excluded
      <4> QED
        BY <1>1, <3>1, <4>1 DEF SilentInv
    <3> QED
      BY <1>1, <3>1, <3>2 DEF SilentInv, Excluded
  <2> QED
    BY <2>1, <2>2
<1>4. ASSUME NEW q \in Callers, pc'[q] = "connecting" PROVE holders'[target'[q]] = {q}
  <2>1. q # p /\ pc[q] = "connecting" /\ target'[q] = target[q]
    BY <1>1, <1>4
  <2> PICK d \in Conns : d = target[q]
    BY <2>1 DEF HolderInv, TargetInv
  <2>2. holders[d] = {q}
    BY <2>1 DEF SilentInv
  <2>3. p \in holders[c]
    BY <1>0 DEF HolderInv, NoLeakedReference
  <2>4. d # c
    BY <2>1, <2>2, <2>3
  <2> QED
    BY <1>1, <2>1, <2>2, <2>4
<1> QED
  BY <1>3, <1>4 DEF SilentInv

LEMMA SilentTaskStep ==
  ASSUME HolderInv, SilentInv, NEW c \in Conns, DialStep(c) \/ StreamStep(c)
  PROVE  SilentInv'
<1>1. /\ UNCHANGED <<holders, pc, target, aborting>>
      /\ \E step \in TaskStates \ {"none"} : task' = [task EXCEPT ![c] = step]
  BY TaskStepFrame DEF HolderInv, callerVars
<1> QED
  BY <1>1 DEF SilentInv, Stopping, HolderInv, TypeOK, CallerTypes, TaskTypes

LEMMA SilentInvariant == Spec => []SilentInv
<1>1. Init => SilentInv
  BY DEF Init, SilentInv, Stopping
<1>2. HolderInv /\ SilentInv /\ [Next]_vars => SilentInv'
  <2>1. CASE UNCHANGED vars
    BY <2>1 DEF SilentInv, Stopping, vars, callerVars, stopVars, taskVars
  <2> QED
    BY <2>1, SilentBegin, SilentGoOn, SilentTaskStep DEF Next
<1> QED
  BY <1>1, <1>2, HolderInvariant, PTL DEF Spec

(* With one handle per connection, a disconnect that returned is final:     *)
(* whatever was still in the channel, nothing more is delivered.           *)
THEOREM DisconnectFinal == ~SharedHandle /\ Spec => DisconnectIsFinal
<1> SUFFICES ASSUME ~SharedHandle PROVE Spec => DisconnectIsFinal
  OBVIOUS
<1>1. HolderInv /\ SilentInv /\ [Next]_vars
        => [\A c \in Conns : aborting[c] => delivered'[c] = delivered[c]]_vars
  <2> SUFFICES ASSUME HolderInv, SilentInv, Next, NEW c \in Conns, aborting[c]
               PROVE  delivered'[c] = delivered[c]
    OBVIOUS
  <2>1. ASSUME NEW p \in Callers, CallerStep(p) PROVE delivered'[c] = delivered[c]
    <3>1. CASE ReceiveItem(p)
      <4>1. target[p] # c
        BY <3>1 DEF ReceiveItem, SilentInv, Stopping, Excluded
      <4> QED
        BY <3>1, <4>1 DEF ReceiveItem, HolderInv, TypeOK, CallerTypes, TargetInv
    <3>2. CASE ~ReceiveItem(p)
      BY <2>1, <3>2 DEF CallerStep, Connect, Receive, Disconnect, ConnectInsert, ReceiveTimeout,
                        ReceiveClosed, ReceiveRemove, DisconnectShutdown, Cancel, itemVars
    <3> QED
      BY <3>1, <3>2
  <2>2. ASSUME NEW d \in Conns, DialStep(d) \/ StreamStep(d) PROVE delivered'[c] = delivered[c]
    BY <2>2, TaskStepFrame DEF HolderInv
  <2> QED
    BY <2>1, <2>2 DEF Next
<1> QED
  BY <1>1, HolderInvariant, SilentInvariant, PTL DEF Spec, DisconnectIsFinal

=============================================================================
