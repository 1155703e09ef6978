--------------------------- MODULE MaskedProvider ---------------------------
(***************************************************************************)
(* MaskedDanmakuProvider (danmaku_mask/mask_provider.rs): a mask and       *)
(* statistics per connection around any provider.                          *)
(*                                                                         *)
(* The inner provider is external: a receive that has begun may yield an   *)
(* item, nothing, or a closed connection.  The masks' and the statistics'  *)
(* locks are held across an await by disconnect only, so who holds them is *)
(* told by pc; every other operation that takes a lock is one step.        *)
(***************************************************************************)
EXTENDS FrequencyMask, Sequences

CONSTANTS
  Conns, Callers, NoConn, NoText,
  Configs,       (* the mask configurations callers use: subsets of Kinds  *)
  MaxMessages,   (* bound on the messages an inner connection yields       *)
  Start,         (* the clock when the provider is created                 *)
  MaxTime        (* bound on the clock                                     *)

ASSUME ProviderAssumption ==
  /\ NoConn \notin Conns /\ NoText \notin Texts
  /\ Configs \subseteq SUBSET Kinds
  /\ IsFiniteSet(Callers) /\ Callers # {}
  /\ MaxMessages \in Nat /\ Start \in Nat /\ MaxTime \in Nat

VARIABLES
  opened,     (* the connections the inner provider has                    *)
  handed,     (* the connections whose handle was returned                 *)
  masks,      (* per id: the mask, NoMask when the map has none            *)
  stats,      (* the ids with statistics; what they count is left out      *)
  pc, target, (* per caller: where its future is suspended, on which id    *)
  held,       (* per caller: its local variables                           *)
  now,        (* the clock, in the units of Window                         *)
  popped,     (* history, per id: messages taken from the inner provider   *)
  passed,     (* history, per id and text: when the messages this mask let *)
              (* pass were taken                                           *)
  leaked,     (* history: guarded ids that delivered a blacklisted text    *)
  guarded,    (* history: ids with the blacklist they were connected with  *)
  cleaned     (* history: ids disconnected, with nothing set since         *)

callerVars == <<pc, target, held>>
history == <<popped, passed, leaked, guarded, cleaned>>
vars == <<opened, handed, masks, stats, callerVars, now, history>>

(* The locals of connect (the configuration) and of receive (the message,  *)
(* when it was taken, whether the mask blocks it).                         *)
Nothing == [kinds |-> {}, text |-> NoText, at |-> 0, blocked |-> FALSE]

Init ==
  /\ opened = {} /\ handed = {}
  /\ masks = [c \in Conns |-> NoMask]
  /\ stats = {}
  /\ pc = [p \in Callers |-> "idle"]
  /\ target = [p \in Callers |-> NoConn]
  /\ held = [p \in Callers |-> Nothing]
  /\ now = Start
  /\ popped = [c \in Conns |-> 0]
  /\ passed = [c \in Conns |-> [text \in Texts |-> <<>>]]
  /\ leaked = {}
  /\ guarded = {} /\ cleaned = {}

MasksFree == \A p \in Callers : pc[p] \notin {"disconnect_stats", "disconnect_inner"}

(* Mutant: disconnect takes the statistics' lock together with the masks', *)
(* and once more where it removes them.                                    *)
StatsTakenTwice == MasksFree

StatsFree == \A p \in Callers : pc[p] # "disconnect_inner"

-----------------------------------------------------------------------------
(* A caller waits at step of its operation on c.                           *)
Wait(p, step, c, locals) ==
  /\ pc' = [pc EXCEPT ![p] = step]
  /\ target' = [target EXCEPT ![p] = c]
  /\ held' = [held EXCEPT ![p] = locals]

Return(p) == Wait(p, "idle", NoConn, Nothing)

(* A mask is put in place: what it lets pass is counted afresh.            *)
PutMask(c, mask) ==
  /\ masks' = [masks EXCEPT ![c] = mask]
  /\ passed' = [passed EXCEPT ![c] = [text \in Texts |-> <<>>]]

(* connect: the inner connection is there; the mask of the configuration   *)
(* is built and the masks' lock awaited, if there is one.                  *)
Connect(p, c, kinds) ==
  /\ pc[p] = "idle"
  /\ c \notin opened /\ c \notin handed /\ popped[c] = 0
  /\ \A q \in Callers : target[q] # c
  /\ opened' = opened \union {c}
  /\ Wait(p, IF kinds = {} THEN "connect_stats" ELSE "connect_mask", c,
          [Nothing EXCEPT !.kinds = kinds])
  /\ UNCHANGED <<handed, masks, stats, now, history>>

ConnectMask(p) ==
  LET c == target[p]
      kinds == held[p].kinds
  IN  /\ pc[p] = "connect_mask"
      /\ MasksFree
      /\ PutMask(c, BuildMask(kinds))
      /\ guarded' = IF "words" \in kinds THEN guarded \union {c} ELSE guarded
      /\ Wait(p, "connect_stats", c, Nothing)
      /\ UNCHANGED <<opened, handed, stats, now, popped, leaked, cleaned>>

ConnectStats(p) ==
  /\ pc[p] = "connect_stats"
  /\ StatsFree
  /\ stats' = stats \union {target[p]}
  /\ handed' = handed \union {target[p]}
  /\ Return(p)
  /\ UNCHANGED <<opened, masks, now, history>>

-----------------------------------------------------------------------------
(* receive: the inner receive begins; without a connection it is an error, *)
(* which changes nothing.                                                  *)
Receive(p, c) ==
  /\ pc[p] = "idle"
  /\ c \in handed \intersect opened
  /\ Wait(p, "inner", c, Nothing)
  /\ UNCHANGED <<opened, handed, masks, stats, now, history>>

(* The inner receive yields nothing, or a control event: returned as it is.*)
InnerReturns(p) ==
  /\ pc[p] = "inner"
  /\ Return(p)
  /\ UNCHANGED <<opened, handed, masks, stats, now, history>>

(* The inner connection is closed: the error is passed on, and neither the *)
(* mask nor the statistics are dropped.                                    *)
InnerClosed(p) ==
  /\ pc[p] = "inner"
  /\ opened' = opened \ {target[p]}
  /\ Return(p)
  /\ UNCHANGED <<handed, masks, stats, now, history>>

(* A message: the clock is read before the masks' lock is awaited.         *)
InnerMessage(p, text) ==
  LET c == target[p]
  IN  /\ pc[p] = "inner"
      /\ popped[c] < MaxMessages
      /\ popped' = [popped EXCEPT ![c] = @ + 1]
      /\ Wait(p, "check", c, [Nothing EXCEPT !.text = text, !.at = now])
      /\ UNCHANGED <<opened, handed, masks, stats, now, passed, leaked, guarded, cleaned>>

(* The mask, if the map has one, is asked under its lock.                  *)
Check(p) ==
  LET c == target[p]
      msg == held[p]
      blocks == Blocks(masks[c], msg.text, msg.at)
  IN  /\ pc[p] = "check"
      /\ MasksFree
      /\ masks' = [masks EXCEPT ![c] = Asked(@, msg.text, msg.at)]
      /\ passed' = [passed EXCEPT ![c][msg.text] = IF blocks THEN @ ELSE Append(@, msg.at)]
      /\ Wait(p, "count", c, [msg EXCEPT !.blocked = blocks])
      /\ UNCHANGED <<opened, handed, stats, now, popped, leaked, guarded, cleaned>>

(* After the count a blocked message sends receive round its loop, where a *)
(* connection that has gone is an error; any other message is returned.    *)
AfterCount(p) ==
  LET c == target[p]
  IN  IF held[p].blocked
      THEN /\ IF c \in opened THEN Wait(p, "inner", c, Nothing) ELSE Return(p)
           /\ UNCHANGED leaked
      ELSE /\ Return(p)
           /\ leaked' = IF held[p].text \in Blacklist THEN leaked \union ({c} \intersect guarded)
                        ELSE leaked

(* Mutant: the count makes the entry it does not find.                     *)
CountInserts(p) ==
  /\ pc[p] = "count"
  /\ StatsFree
  /\ stats' = stats \union {target[p]}
  /\ AfterCount(p)
  /\ UNCHANGED <<opened, handed, masks, now, popped, passed, guarded, cleaned>>

(* The statistics are updated under their lock, if there are any; which    *)
(* ids have some does not change.                                          *)
Count(p) ==
  /\ pc[p] = "count"
  /\ StatsFree
  /\ AfterCount(p)
  /\ UNCHANGED <<opened, handed, masks, stats, now, popped, passed, guarded, cleaned>>

-----------------------------------------------------------------------------
(* disconnect: remove the mask; its lock is held to the end.               *)
Disconnect(p, c) ==
  /\ pc[p] = "idle"
  /\ c \in handed
  /\ MasksFree
  /\ PutMask(c, NoMask)
  /\ guarded' = guarded \ {c}
  /\ Wait(p, "disconnect_stats", c, Nothing)
  /\ UNCHANGED <<opened, handed, stats, now, popped, leaked, cleaned>>

DisconnectStats(p) ==
  /\ pc[p] = "disconnect_stats"
  /\ StatsFree
  /\ stats' = stats \ {target[p]}
  /\ Wait(p, "disconnect_inner", target[p], Nothing)
  /\ UNCHANGED <<opened, handed, masks, now, history>>

(* The inner disconnect returns; the two locks are released.               *)
DisconnectInner(p) ==
  /\ pc[p] = "disconnect_inner"
  /\ opened' = opened \ {target[p]}
  /\ cleaned' = cleaned \union {target[p]}
  /\ Return(p)
  /\ UNCHANGED <<handed, masks, stats, now, popped, passed, leaked, guarded>>

-----------------------------------------------------------------------------
(* set_mask, clear_mask, reset_mask, reset_stats: with any id a caller was *)
(* handed, connected or not.                                               *)
SetMask(c, kinds) ==
  /\ c \in handed /\ MasksFree
  /\ PutMask(c, BuildMask(kinds))
  /\ guarded' = guarded \ {c}
  /\ cleaned' = cleaned \ {c}
  /\ UNCHANGED <<opened, handed, stats, callerVars, now, popped, leaked>>

ClearMask(c) ==
  /\ c \in handed /\ MasksFree
  /\ PutMask(c, NoMask)
  /\ guarded' = guarded \ {c}
  /\ UNCHANGED <<opened, handed, stats, callerVars, now, popped, leaked, cleaned>>

ResetMask(c) ==
  /\ c \in handed /\ MasksFree
  /\ PutMask(c, BuildMask(masks[c].kinds))
  /\ UNCHANGED <<opened, handed, stats, callerVars, now, popped, leaked, guarded, cleaned>>

ResetStats(c) ==
  /\ c \in handed /\ StatsFree
  /\ stats' = stats \union {c}
  /\ cleaned' = cleaned \ {c}
  /\ UNCHANGED <<opened, handed, masks, callerVars, now, popped, passed, leaked, guarded>>

(* A caller's future is dropped, its locks with it; the message in its     *)
(* hands is lost.                                                          *)
Cancel(p) ==
  /\ pc[p] # "idle"
  /\ Return(p)
  /\ UNCHANGED <<opened, handed, masks, stats, now, history>>

(* Utc::now: it does not go back in this model.                            *)
Tick ==
  /\ now < MaxTime
  /\ now' = now + 1
  /\ UNCHANGED <<opened, handed, masks, stats, callerVars, history>>

(* The steps of an operation that has begun, the inner provider's replies  *)
(* to receive apart.                                                       *)
CallerStep(p) ==
  \/ ConnectMask(p) \/ ConnectStats(p)
  \/ Check(p) \/ Count(p)
  \/ DisconnectStats(p) \/ DisconnectInner(p)

Next ==
  \/ \E p \in Callers :
       \/ CallerStep(p) \/ InnerReturns(p) \/ InnerClosed(p) \/ Cancel(p)
       \/ \E text \in Texts : InnerMessage(p, text)
       \/ \E c \in Conns : Receive(p, c) \/ Disconnect(p, c)
       \/ \E c \in Conns : \E kinds \in Configs : Connect(p, c, kinds)
  \/ \E c \in Conns :
       \/ ClearMask(c) \/ ResetMask(c) \/ ResetStats(c)
       \/ \E kinds \in Configs : SetMask(c, kinds)
  \/ Tick

Spec == Init /\ [][Next]_vars

-----------------------------------------------------------------------------
TypeOK ==
  /\ opened \subseteq Conns /\ handed \subseteq Conns
  /\ \A c \in Conns :
       /\ masks[c].kinds \subseteq Kinds
       /\ masks[c].frequency.current \in 0..(BucketCount - 1)
       /\ masks[c].frequency.lastShift \in Nat
       /\ masks[c].frequency.freq \in [Texts -> Nat]
       /\ masks[c].frequency.buckets \in [0..(BucketCount - 1) -> [Texts -> Nat]]
  /\ stats \subseteq Conns
  /\ pc \in [Callers -> {"idle", "connect_mask", "connect_stats", "inner", "check",
                         "count", "disconnect_stats", "disconnect_inner"}]
  /\ target \in [Callers -> Conns \union {NoConn}]
  /\ held \in [Callers -> [kinds : SUBSET Kinds, text : Texts \union {NoText},
                           at : Nat, blocked : BOOLEAN]]
  /\ now \in Nat
  /\ popped \in [Conns -> Nat]
  /\ passed \in [Conns -> [Texts -> Seq(Nat)]]
  /\ leaked \subseteq Conns
  /\ guarded \subseteq handed \union opened /\ cleaned \subseteq handed

(* Whatever the order of messages, shifts, resets and late checks, no mask *)
(* counts a hit that has left its buckets, or forgets one that has not:    *)
(* the map and the buckets are advanced by separate loops                  *)
(* (mask_frequency.rs:80-89, 112-116) and an empty entry is dropped early. *)
FrequencyMatchesBuckets == \A c \in Conns : FrequencyIsSum(masks[c].frequency)

(* The passes of text since the mask was put in place, taken from the      *)
(* inner provider between two instants.                                    *)
PassesWithin(c, text, from, to) ==
  Cardinality({i \in DOMAIN passed[c][text] : passed[c][text][i] \in from..to})

HasFrequency(c) == "frequency" \in masks[c].kinds

(* What the frequency mask does limit: of the messages taken within the    *)
(* length of a bucket, at most twice max_frequency of one text pass, and   *)
(* one more for each other receive of the connection that is on its way: a *)
(* check that waits for the lock may find a bucket that began after its    *)
(* message was taken (mask_provider.rs:134-137).                           *)
RateLimited ==
  \A c \in Conns : HasFrequency(c) =>
    \A text \in Texts, from \in 0..now :
      PassesWithin(c, text, from, from + BucketSize - 1)
        <= 2 * MaxFrequency + Cardinality(Callers) - 1

(* mask_frequency.rs:8-9: "Tracks how many times each message hash appears *)
(* within a time window. Messages exceeding `max_frequency` within the     *)
(* window are blocked."                                                    *)
WindowLimited ==
  \A c \in Conns : HasFrequency(c) =>
    \A text \in Texts, from \in 0..now :
      PassesWithin(c, text, from, from + Window - 1) <= MaxFrequency

(* A connection made with the blacklist delivers no text it blocks, until  *)
(* it is disconnected or its mask replaced: the mask is in the map before  *)
(* connect returns, and nothing a receive or another connection does takes *)
(* it out (mask_provider.rs:97-106, 132-143).                              *)
BlacklistHolds == leaked = {}

(* After a disconnect nothing of the connection stays in the two maps,     *)
(* though a receive may still be on its way through them, unless a caller  *)
(* sets its mask or resets its statistics again (mask_provider.rs:109-117).*)
DisconnectCleans == \A c \in cleaned : masks[c] = NoMask /\ c \notin stats

(* Whoever awaits one of the two locks, somebody can move, though          *)
(* disconnect takes the second while it holds the first and holds both     *)
(* across an await (mask_provider.rs:111-116): no wait is circular, given  *)
(* that the inner disconnect returns.                                      *)
NoCircularWait ==
  (\E p \in Callers : pc[p] \notin {"idle", "inner"}) =>
     \E p \in Callers : ENABLED CallerStep(p)

=============================================================================
