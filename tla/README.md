# Formal models of slive-core-api-rust

This directory holds TLA+ models of the workspace in `src/crates` (danmaku
clients, masking, statistics, extractors and the codecs they use), the TLC
configurations that check them on small instances, and proofs, checked by
TLAPS, of the properties that matter most. `PROJECT.json` maps every definition
to the lines it was translated from.

## 1. Inventory

### platforms-parser: danmaku

| component | state | operations | interacts with |
|---|---|---|---|
| `WebSocketDanmakuProvider` (`danmaku/websocket.rs`) | map id -> `Arc<Mutex<WsConnectionState>>` behind an `RwLock`; a semaphore of 1024 permits; per connection a management task, an item channel (100), a response channel (100), a shutdown channel (1), `attempt`, `delay`, `is_connected` | `connect`, `receive`, `disconnect`; the task's dial, handshake, stream, heartbeat, decode, forward, back-off | protocol implementations through `DanmakuProtocol`; the network |
| platform providers (`extractor/platforms/*/danmaku.rs`) | the same map without permits; one task per connection that dials once and never reconnects | as above, plus platform handshakes, heartbeats, acknowledgements, close events | HTTP client, protobuf / Tars / STT / IRC decoders |
| `MaskedDanmakuProvider` (`danmaku_mask/mask_provider.rs`) | two `Mutex<HashMap>`: masks and statistics per connection | wraps `connect`, `receive`, `disconnect`; `set_mask`, `reset_mask`, `clear_mask`, `reset_stats` | any inner provider; `DanmakuMask`s |
| `FrequencyMask`, `WordBlacklist`, `CompositeMask` | sliding window of buckets and a frequency map; word set and regexes; a list of masks | `should_block`, `reset` | called under the masked provider's lock |
| `DanmakuStatistics` (`danmaku/statistics.rs`) | Space-Saving tables for talkers and words, a count-min sketch, rate buckets | `record`, `finalize`, getters | none |
| samplers, `XmlDanmakuWriter`, registries | sampler windows; an open file and a row count; a list of providers | `record/should_sample`; `write`, `flush`, `finalize`; `find` | file system |

### platforms-parser: extractor

| component | state | operations |
|---|---|---|
| `HttpClient` (`extractor/http_client.rs`) | cookies behind a lock, the client | requests, through `get_*`, `post_*` with up to three retries and exponential back-off; through `request`, `get`, `post` and `inner` as the caller sends them |
| session caches | bilibili buvid and access id, douyin `GLOBAL_TTWID`, douyu `enc_key` | check, fetch across an await, store |
| five platform extractors | none beyond the caches | fetch room data, choose quality and CDN, sign requests |
| signing (`wbi.rs`, `abogus.rs`, `sign.rs`, `signature.rs`, `anti_code.rs`) | none | digests over parameters |

### tars-codec and bytes-util

Pure encoders and decoders: the Tars wire format with its frame decoder and
buffer pool, bit readers and writers, a byte cursor and NAL
emulation-prevention I/O. Douyu's STT text codec is of the same kind.

### What is hard here

* **Interleaving.** Providers are shared by `&self` futures: `connect`,
  `receive` and `disconnect` of several callers interleave at every await, with
  clones of a connection's state outliving its entry in the map.
* **Cancellation.** Any of those futures may be dropped where it is suspended.
* **Channels at their limit.** The item channel, the response channel and the
  shutdown channel are bounded; the same task fills and drains one of them.
* **Failure and retry.** Dials, handshakes, heartbeats and reads fail; the
  management task counts attempts and backs off across two nested loops.
* **Check, await, store.** Cookies, tokens and keys are read before an await
  and written after it.
* **Windows, sketches and codecs.** Rotating buckets, evicting counters and
  bit-level encodings with edge cases at zero, at capacity and at overflow.

`PROJECT.json` lists these as hazards, each at its line.

### What makes each part correct

* **Providers.** Items arrive once and in order; a closed connection means nothing
  was left; disconnect is final; no reference, permit or task outlives its
  connection; every call returns; an announced end is the last item.
* **Masks.** The limit holds over the window; the map agrees with its buckets; a
  blacklisted text is never delivered; disconnect leaves nothing behind.
* **Statistics.** Each reported count is between the true count and the true count
  plus its error; rates are within their buckets; finalising twice changes nothing.
* **Writer, samplers, registries.** One header and one closing tag whatever fails in
  between; a sample window never exceeds its quota; the first provider that
  supports a URL is the one returned.
* **Sessions and requests.** No cookie is lost to a concurrent connect; a token is
  fetched once; a request is retried at most three times, with growing delays,
  and only where the answer allows it.
* **Codecs.** Decoding inverts encoding; damaged input is an error and never a
  panic; lengths and shifts stay in range.


## 2. Plan

Modules are written in the order of how much of the product's behaviour depends
on them; each names what it composes with.

| # | module | models | composes / refines | state |
|---|---|---|---|---|
| 1 | `WebSocketProvider` | the reconnecting provider: callers, permits, management task, channels | | done, checked, proved |
| 2 | `WebSocketProviderProofs`, `WebSocketStopProofs`, `WebSocketFeedProofs` | theorems about 1, the last that it refines 3 | extend 1 | done |
| 3 | `DanmakuFeed` | the abstract promise of every provider: a feed that opens, yields its items once and in order, then closes | refined by 1 (`WebSocketFeed`) and 4 (`PlatformFeed`) | done, checked, proved |
| 4 | `PlatformProvider` | what the five platform providers have in common: map, task lifetime, item channel, announcement of the end | base of 5 | done, checked, proved (`PlatformProviderProofs`) |
| 5 | `BilibiliFrames`, `HuyaFrames`, `DouyuFrames`, `DouyinFrames`, `TwitchFrames`, `Platforms` | what a frame makes each platform's task do; their greetings and announced ends | parameters of 4 | done, checked |
| 6 | `BilibiliFeed`, `TwitchHandshake` | a server's side of two protocols | 5 | done, checked; `BilibiliFeed` proved (`RecordProofs`) |
| 7 | `FrequencyMask`, `MaskedProvider` | the masks; masks and statistics around an inner provider | the inner provider is external, as in 3 | done, checked, proved (`MaskedProviderProofs`) |
| 8 | `Extraction`, five `*Extractor` modules, `LiveExtractor` | the extractors of the five platforms, and a viewer who uses them | requests fail as 9 lets them; platforms are external | done, checked, proved but for `StreamsReachable` (`ExtractorProofs`) |
| 9 | `HttpClient`, `BilibiliSession`, `BilibiliAccount`, `DouyinSession` | retries, and the cookies that concurrent calls share | `BilibiliSession` extends `HttpClient` | done, checked, proved (`ExtractorProofs`) |
| 10 | `TwitchPlaylist` | a server's side of the master playlist | 8 | done, checked |
| 11 | `HeavyHitters`, `Statistics`, `Sampler`, `Writer` | what becomes of the messages that were received | reference: exact counts | done, checked, proved (`Writer` in `RecordProofs`, the others in `StatisticsProofs`) |

What is left to the model checker, and why, is said at the end of each section: liveness,
what is about ENABLED, and what sorting, flattening and choosing from sets compute.

## 3. The reconnecting provider

### `WebSocketProvider`

A *caller* is any future running `connect`, `receive` or `disconnect`; `pc` says
at which await it is suspended and `target` on which connection. A connection
id is used once, as the UUIDs of the code are.

| model | code (`danmaku/websocket.rs`) |
|---|---|
| `holders[c]` | the clones of the connection's `Arc<Mutex<WsConnectionState>>`: `"map"` is the entry of the map, a caller is a clone in its frame. `{}` means the state has been dropped |
| `permits` | free permits of `connection_semaphore`; the owned permit lives in the state and comes back with its drop (`Release`) |
| `writer` | the `disconnect` that holds the map's write guard. The guard is a temporary of the `if let` and so outlives the await on the state's mutex |
| `shutdown[c]` | the shutdown channel as the task sees it: nothing sent, a message in it, or consumed / sender dropped |
| `aborting[c]` | `abort_tasks` was called, by `disconnect` or by `Drop` |
| `task`, `attempt`, `delay` | where the management task is suspended, and its two locals. `End` resets the locals because they go with the future |
| `owed`, `responses` | responses the protocol's `decode_message` still has to push, and the length of the response channel, which only the same task drains |
| `pending`, `queue` | the items of the current frame not yet sent, and the item channel |
| `produced`, `delivered` | history: how many items were decoded, and what `receive` returned. The k-th item of a connection is the number k |

Each action is one uninterrupted stretch of the code between two awaits that can
suspend. `Connect` and `ConnectInsert` are two because the write lock is awaited
with the state in the future's frame; `Disconnect` and `DisconnectShutdown` are
two because the state's own mutex is awaited under the map's write guard;
`Cancel` is the drop of a caller's future at any of these points. On the task's
side `DialStep` is the outer loop and `StreamStep` the inner one. `TopShutdown`
uses `try_recv`, which only sees a message, while `BackoffShutdown` and
`StreamShutdown` use `recv`, which also returns when the sender is gone.

Abstracted: URL building, cookies, TLS and headers are the outcome of a dial
(`DialOutcomes`); `text`, `binary` and other frames are one `Frame`, whose
decoding yields a number of items from `Batches` (0 also stands for a decoding
error, which is logged) after pushing a number of responses from `Replies`;
time is not measured, a timer may fire whenever it is awaited.

### What the runs check

| run | question | bounds |
|---|---|---|
| `websocket_limit` | Are permits, references and tasks accounted for in every interleaving? (`TypeOK`, `PermitsAccounted`, `NoLeakedReference`, `NoRunawayTask`, `EntryRemovedForCause`) | three ids for two permits so that the limit is met and permits are reused; two callers, which may work on the same id (`SharedHandle`); at most one item |
| `websocket_delivery` | Are items delivered once, in order and completely, is the back-off schedule right, is disconnect final? (`DeliveredInOrder`, `ClosedMeansDrained`, `BackoffSchedule`, `GivesUpOnlyExhausted`, `DisconnectIsFinal`) | one id and two callers; frames of up to two items into a channel of one, four items, so that forwarding blocks and reconnects happen with items in flight; three attempts with delays 2, 4, 7 so that the cap is met |
| `websocket_stops` | Do callers return, aborted tasks end and permits come back, is a server that refuses every dial given up, and is the provider a feed? (`CallersReturn`, `AbortedTasksEnd`, `PermitReturned`, `UnreachableGivesUp`, `ImplementsFeed`) | up to two replies per frame into a response channel of one, so the task does block on itself; two attempts |

The properties relate what happens to one connection, so one or two ids show
them; the semaphore is the only thing ids share, and `websocket_limit` has more
ids than permits. Two callers are enough for every race the code has between
two futures on one connection; the theorems below hold for any number.

### Fairness

`RuntimeFairness` is what tokio gives: a future whose lock is free, whose
channel has an item or whose timer has expired is polled again, the async
`RwLock` and `Mutex` are fair queues, and an aborted task is dropped once it
yields. `receive` is a `select` of a channel and a 100 ms timer, so weak fairness
of the disjunction is enough. Nothing forces a caller to call, to be cancelled,
or the server to send. `UnreachableGivesUp` is stated under one more assumption, in the
property itself: a dial is answered in the end (the TCP stack's own timeout) and
the task is polled between dials.

### `WebSocketFeed` and `DanmakuFeed`

`DanmakuFeed` says what a consumer may rely on, after the `DanmakuProvider` trait
(`danmaku/provider.rs`): `receive` hands over what the source emitted, once and
in order; a connection closes under the consumer (`Finish`) only when everything
was handed over; after `disconnect` (`Stop`) a receive that overlaps it may still
return an item, being perhaps the last to hold the connection (`Deliver` to
"gone"). `WebSocketFeed` maps an id that is in the map to "open", one whose state
is dropped to "gone", one held only by its `connect` to "connecting", and any
other to "stopping"; the source is the numbers `1 .. produced[c]`. TLC checks the
refinement as `ImplementsFeed`.

### What is proved

`WebSocketProviderProofs`, `WebSocketStopProofs` and `WebSocketFeedProofs` prove, for every value of the constants allowed by
`ConstantsAssumption` (any finite set of ids, any set of callers, any positive
capacities, any set of batch sizes):

* `TypeCorrect`: `Spec => []TypeOK`.
* `ReferencesReturned`: `Spec => []NoLeakedReference`. The inductive invariant
  `HolderInv` adds to it that a busy caller's target is an id and an id with a
  holder has a task, without which `Connect` could overwrite holders.
* `PermitsNeverLeak`: `Spec => []PermitsAccounted`. A step touches the holders of
  at most one id (lemma `Touches`), so `Cardinality(Live)` changes by at most
  one and `permits` by the opposite; that the step which empties `holders[c]` is
  the one that returns the permit needs `HolderInv`.
* `TasksNeverRunAway`: `Spec => []NoRunawayTask`.
* `DeliveryInOrder`: `Spec => []DeliveredInOrder`. `OrderInv` says that
  delivered, queued and pending items together are `1, 2, 3, ...` up to what was
  decoded; sending moves the boundary between two parts, decoding appends the
  next numbers, and only an abort or the drop of the receiver loses a suffix.
* `ClosedAfterLastItem`: `Spec => []ClosedMeansDrained`, from `OrderInv` and the
  fact that a caller about to remove an entry saw an ended task and an empty
  channel, neither of which can change back.

* `EntriesRemovedForCause`: an entry leaves the map only for a reason; from `HolderInv`
  and the fact that who removes an entry saw an ended task.
* `BackoffFollowsSchedule` and `GivesUpOnlyAtLimit`. `BackoffInv` says what `delay` is
  while the task does not wait: the delay of the attempt to come. `2^n` is
  a recursive function, so that it doubles is a lemma by first-order
  induction (`PowerDoubles`), from which a doubled and capped delay is the next of the
  schedule (`DelayDoubles`).
* `DisconnectFinal`, for handles that are not shared, as in the run: with a shared
  handle a receive that overlaps the disconnect may still return an item. `SilentInv`
  says that an id being disconnected is out of the map, is not being brought up, and
  that nobody receives from it.
* `ReconnectingIsAFeed`: `Spec => ImplementsFeed`, the safety of `DanmakuFeed` (`Feed!Spec`
  has no fairness). The phase of an id in the feed is told by who
  holds it and who stops it (`Told`); every step of a caller moves the phase of one id or
  delivers one item (`Feed*` lemmas), every step of the task extends a source or stutters,
  and `FeedInv`, the conjunction of the invariants above with `ReachedInv` (nothing
  counts as delivered that was not produced), is what makes each guard of the feed hold.

Only model-checked here: the liveness properties, since temporal reasoning with
fairness is beyond the prover.

## 4. The platform providers

### `PlatformProvider`

Bilibili, Huya, Douyu, Douyin and Twitch each have a `danmaku.rs` with a provider
of its own. Their `connect`, `receive` and `disconnect` are the same code, and so
is the frame of the background task; the module models that once, and the
variable `platform` says which of them a behaviour is about. There is no permit,
no response channel and no reconnection here: the task dials once, sends its
greetings, streams, and may announce its end with a `StreamClosed` item.

| model | code (`extractor/platforms/*/danmaku.rs`) |
|---|---|
| `holders`, `writer`, `pc`, `target`, `shutdown`, `aborting` | as in `WebSocketProvider` |
| `task[c]`, `cause[c]` | where the background task is suspended, and which way it left |
| `script[c]`, `done[c]` | every output decoded so far, an item to forward or a reply to write to the socket, and how many of them the task has carried out. The rest of the frame is `script` after `done` |
| `queue`, `delivered` | the item channel and what `receive` returned; an item is its position in the script |
| `Greetings`, `Announced` | per platform, the messages of the handshake and the ends that are announced (`Platforms`) |
| `Outputs(pf, frame)` | per platform, what the decoder makes of a frame |

`DisconnectShutdown` signals the task and aborts it in one stretch, as the code
does between two awaits. `ReceiverGone` returns without closing the socket;
`Finish` is every `break` or `return` of the task, with the announcement where the
platform has one.

`BilibiliFrames` (packets in packets, zlib, brotli, damaged lengths), `DouyuFrames`
(STT packets by type), `DouyinFrames` (the push frame, its acknowledgement, the
control message that ends a stream), `HuyaFrames` (push commands) and `TwitchFrames`
(IRC lines, tags, PING) define `Outputs`. Payloads are model values that differ
where the decoder branches; the fields of an item are left out.

| run | question | bounds |
|---|---|---|
| `platform_streams` | Do items reach the consumer once and in order with replies among them, does the announcement come before the channel closes, is disconnect final? (`DeliveredInOrder`, `EndAnnouncedBeforeClosed`, `DisconnectIsFinal`) | one id, two callers, a channel of two and up to six outputs, so that one frame overfills it; each platform's frames cover every branch of its decoder that yields something |
| `platform_stops` | Does anything outlive its handle, do callers return, do aborted tasks end, is the provider a feed? (`NothingOutlivesItsHandle`, `CallersReturn`, `AbortedTasksEnd`, `ImplementsFeed`) | a handle shared by both callers, a channel of one |

One id is enough: ids of a platform provider share nothing but the map's lock,
which the liveness properties meet through `writer`. Fairness is that of
section 3.

### What is proved

`PlatformProviderProofs` proves, for any set of ids and callers, any capacity, any
platform and any `Outputs` that yield sequences (`PlatformAssumption`):

* `TypeCorrect` and `HandlesReturned` (`NothingOutlivesItsHandle`), by `HandleInv`: who is
  at work on an id, and that an id somebody holds has a task.
* `FeedInOrder` (`DeliveredInOrder`). `OrderInv` says of what was accepted,
  delivered or queued, that it numbers items of the outputs carried out, in order, and
  while the connection is held all of them; replies are the gaps.
* `AnnouncedBeforeClosed` (`EndAnnouncedBeforeClosed`). `EndInv`: between frames
  every output is carried out, an announced end is the last output, and who removes an entry
  found the channel empty after the task had ended.
* `DisconnectFinal`, with `SilentInv` as in section 3.
* `PlatformIsAFeed`: `Spec => ImplementsFeed`. The source of the feed is the list of the
  positions of items in the script (`ItemsOf`), a recursive function; that it is the list an
  orderly sequence must be (`ItemsListed`, `OrderlyUnique`) is shown by first-order induction.

What one platform's `Outputs` yields is checked by TLC. Liveness stays with TLC, too.

### Two protocols seen from the server

`BilibiliFeed` is a server that packs notifications and replies into a frame in
the ways the overview of `bilibili/danmaku.rs` lists. Run `bilibili_raw` has it send
what the decoder loses; that whatever is compressed does arrive (`CompressedArrive`)
is part of run `records`, in which every frame of two packets, with up to two
notifications to a compressed packet, is tried, so both nesting levels hold more
than one.
`TwitchHandshake` is a server that admits a client on JOIN.

## 5. The masks

`FrequencyMask` holds a mask as a value, and the operators that advance it;
`MaskedProvider` is the provider around it.

| model | code (`danmaku_mask/`) |
|---|---|
| `freq`, `buckets`, `current`, `lastShift` | `freq_map`, `buckets`, `current_bucket`, `last_shift_ms`; a text stands for the hash of its normal form |
| `Shift` | all rounds of the loop of `shift_if_needed` at once, `Shifts` of them: a closed form, since every round takes the current bucket out of the map and moves on |
| `kinds` | which masks `MaskConfig::build` put together; `Blocks` is the verdict and `Asked` what asking leaves behind, whatever the verdict |
| `masks`, `stats` | the two maps. Of the statistics only their presence is kept, since what they count decides nothing |
| `MasksFree`, `StatsFree` | the two locks: only `disconnect` holds one across an await, so who holds them is told by `pc` |
| `held[p].at` | `now_ms`, read before the lock is awaited |
| `passed`, `leaked`, `guarded`, `cleaned` | history, for the properties |

The inner provider is external. A `receive` that has begun yields nothing, a
control event, a message or an error that closes the connection. Each of the four
operations on a mask or its statistics takes one lock once and is one step.

Run `masks` checks, with one connection, two callers and the clock running over
a full window of two buckets of two units:

* `FrequencyMatchesBuckets`: the global map is the sum of the buckets;
* `RateLimited`: what the mask does limit, namely twice `max_frequency` in any span
  as long as a bucket, and one more for each other receive that was overtaken
  on its way to the lock;
* `BlacklistHolds`: a connection made with a blacklist never delivers what it
  blocks, until its mask is replaced or it is disconnected;
* `DisconnectCleans`: receives in flight do not bring back what disconnect removed;
* `NoCircularWait`: whoever waits for a lock, somebody can move.

Five messages and `max_frequency` 1 are what it takes to meet the bound of
`RateLimited` exactly. The window is never below
10 s in the code and the clock starts after the first bucket, as real time does.
Deadlock is not checked in this run: when all ids are used and the clock is at
its bound, a provider without open connections stops.

`MaskedProviderProofs` proves all but one of them, and the type invariant, for any
numbers of connections and buckets, any texts and any finite set of callers
(`MaskAssumption`, `ProviderAssumption`):

* `CountsMatchBuckets`. A sum over buckets is the number of pairs of a bucket
  and a hit in it (`Hits`), so that rotation, which takes the expired buckets out
  of the map, is a difference of finite sets; `PlacedInv` says what each caller
  holds at each await.
* `BlacklistKept`, by `GuardedInv`: a guarded connection has the blacklist in its
  mask, and a message past its mask was judged by it.
* `DisconnectedIsClean`, by `CleanInv`: what `disconnect` took out stays out while it waits,
  because it still holds the lock, and one caller at most disconnects at a time.
* `RateIsLimited`. `RateInv` bounds, for every window as long as a bucket, what may
  have passed by where the window lies with respect to the current bucket
  (`Rule`): before the bucket is filled no more than its hits; when it overlaps the
  bucket, those and the `max_frequency` of the one before; afterwards twice as many and
  those who are late, of whom there are no more than other callers.

* `LocksAreOrdered` is the reason for `NoCircularWait`, as far as it can be said without
  ENABLED (`LocksInOrder`): the lock of the masks has one holder at most, and for every
  caller that waits for a lock there is one in its way that does not wait for a lock itself, so
  waiting callers cannot be all there are. `disconnect` is the only operation that holds one lock
  while it awaits the other, and nobody takes them in the opposite order.

`NoCircularWait` itself is about ENABLED and stays with TLC.

## 6. The extractors and their sessions

One run, `extractors`, has five machines side by side, of which a behaviour
works one: they share no state, and `part` says which.

### A viewer and five platforms

`LiveExtractor` is a viewer who opens a URL and then pages through a listing,
asks for a room and walks from its detail over its qualities to their URLs, or
asks for anything else the trait offers. A call is a sequence of requests:

| model | code (`extractor/`) |
|---|---|
| `Requests` (`BilibiliRequests`, ...) | the requests a call makes, in order, each with a policy: *required* (its error is the call's), *optional* (the call does without) or *unchecked* (there must be a reply, but one that lacks what was asked for is taken for an answer: an empty page, no categories, a room that is off) |
| `Granted`, `Refused`, `Broken` | the request's answer; a reply without what was asked for, a refusal or not (`LackingReplies`: Douyin's room request has two kinds, as one is an error of `get_room_detail` and the other is not); no reply, at once or after the retries. Where the code looks at an error code first (Bilibili's `check_response`) the call ends as with `Broken` |
| `heard`, `result` | the replies so far, and what the call returned |
| `Return` (`BilibiliResult`, ...) | what the platform's module makes of the replies: which entries are listed and whether there are more, whether the room is live, its qualities in order with what it hands on to `get_play_urls`, the URLs and their format |
| `ByUrl` | `ExtractorRegistry::get_by_url`: the first in the order of registration whose domain occurs in the URL |
| `site` | external: what is true of the platform while the viewer looks at it, from which `BilibiliAnswer` and its like make the replies; `silent` is what the platform says nothing of, the status of its rooms or Huya's mark of a recording |
| `shown`, `detail`, `offered`, `tried` | what the viewer keeps; `data` of the detail and of a quality are records here and JSON strings in the code |

Titles, covers, names and counts are left out, and so is the signing of requests.
An entry is its id, or `Missing` where the code cannot read it.

* `PagesShowAll`: paging until `has_more` is false shows every entry once and in
  order. Where the code tells the end by the number of readable entries
  (`CountsEntries`) an unreadable one may end the listing early: the property
  then claims only that paging ends. Pages have two entries and
  listings up to five, so there are full, partial and empty last pages.
* `StatusIsTrue`: a room that `get_room_detail` or `get_live_status` tells as live
  is live, and one that is live is told so. The exceptions are part of the
  property. `TakenForLive`: Douyu's recordings, as nothing the code reads tells
  them, and Huya's where the page does not. `TakenForOff`: a room whose platform
  does not tell a status; a room that is lacking in a reply in which the code
  accepts that, a refusal included (Douyu's detail and status, Douyin's detail
  when there is `data` without a room, its status in any case, Bilibili's status);
  a long Douyin id that was not resolved. So no failure and no missing field ever
  makes a room live, and those that make it look off are named; without any one
  of the exceptions the run finds a violation.
* `StreamsReachable`: in a live room with a stream that plays, every quality
  offered has URLs, all of which play, and the first is of the format named. The
  walk may end in an error only where a request fails, where a Twitch playlist has
  a media tag directly before each of its variants (`Swallowed`, the finding of
  `twitch_playlist`: the run has such playlists, with one variant that is lost
  and with one of two), and where a Douyin room has no status (`Withheld`).
  The platforms' replies (`MCExtractors`) have each way in which an address can
  be missing: a codec without a path, a network that serves nothing, a line
  without its anti-code, an option without streams, a playlist without variants.

### Requests and sessions

| model | code |
|---|---|
| `HttpClient`: `jar`, `request` | `cookies`, and one call of `execute_with_retry`: the attempt, what it slept, the last answer |
| `BilibiliSession`: `buvid3`, `buvid4`, `jar`, `step`, `setter` | the three locks of `BilibiliExtractor`, and where each call of `ensure_buvid` and the one of `set_cookies` is between them |
| `BilibiliAccount`: `purse`, `phase`, `account` | the jar all connects of the danmaku provider share, where each connect is, and the cookies its connection authenticates with |
| `DouyinSession`: `globalTtwid`, `cell`, `cookie`, `doing`, `sent` | `GLOBAL_TTWID`, the `OnceCell` and the jar of each extractor, where each request is, and what was sent: to the API with the jar that `request_headers` has set (`SendWithCookie`), again with the jar as it is then when it is retried; a search with a header of its own (`SendSearch`); and the reflow request of `get_web_rid` with the jar as it is, for which no ttwid is made sure of (`SendReflow`). A future that is dropped while it initialises the cell leaves it to another (`Dropped`) |

The extractors are shared by threads, so a step ends where a lock is released,
and not only at an await; the danmaku provider's steps end at awaits.

* `RetrySchedule`: at most four attempts, pauses of 500, 1000 and 2000 ms, no
  answer that was worth repeating is returned and no other is repeated. This is
  about `execute_with_retry`: Douyin's `fetch_room_enter` and `search_rooms`,
  Douyu's requests for a play URL and Twitch's GraphQL build their requests
  themselves and send them once.
* `SessionKept`: what `set_cookies` last set is in the jar, and the device cookies
  are a pair that was fetched, unless two writers overlapped (`hurried`) or the
  fetch failed (`missed`).
* `OwnAccount`: a connection authenticates with the cookies its caller gave unless
  another connect was under way, and always with cookies somebody gave.
* `OneTtwid`: the requests of an extractor carry one ttwid, whoever fetched it; one
  without is a reflow request, and only while none has been made to the API, for
  then the ttwid is in the jar and stays there; extractors share it unless two of
  them fetched at once.

Two users, two logins and two calls let a fetch be overtaken by every step of
another fetch and of `set_cookies`; three connects let one come between the read
and the write of another, and a third after both; three requesters on two
extractors let two wait for one cell. All these are safety properties and need
no fairness. Sessions end with their last call, so deadlock is not checked.

`ExtractorProofs` proves these four for any users, logins, connects, requesters and
extractors (`SessionAssumption` and its like say only that the markers of "none" are not
among them):

* `RetriesFollowSchedule` of the client by itself (`HttpSpec`), and
  `SessionRetriesFollowSchedule` of the one inside the extractor (`SessionSpec`), whose jar others
  write. `Sound` ties what was slept to the number of the attempt.
* `SessionIsKept`. Unless somebody hurried, one at most is at work on the cookies, and
  what it has read is still what is there (`AloneInv`); `JarInv` says what the jar has meanwhile.
* `AccountIsOwn`. A connect that is alone finds what it was given in the jar
  and in what it read from there (`AccountInv`).
* `TtwidIsOne`. One task of an extractor fills its cell, once (`CellInv`); without a race
  one task at all fetches, and every cell has what it stored (`GlobalInv`). `CellInv` also says
  that the jar and every request sent have the cell's ttwid or none, that only a reflow request
  has none, and that the jar has it once a request was sent to the API.

Of the viewer it proves `StatusIsAlwaysTrue`: `ExtractorSpec => []StatusIsTrue`, for any
links, any entries and any streams the platforms may have. `ExtractorAssumption` says that
what is there differs from `Missing`, the model's None, and that a site's state is one of
three. `ExtractorInv` adds that a call is made of a platform's extractor against a site of
that platform, that its replies are a list no longer than its requests, and what the
deciding reply is, at the place `RoomPlace` names: the platform's own answer, or one that lacks
the room (`Lacks`), which is there only where the code accepts it (`Unseen`) and shows in
`failed`. `LackIsOff` says that such a reply is never told as live, and `OutcomeIsTrue` what each
platform's extractor makes of its platform's answer. The theorem is of the property with its
exceptions, each of which the code needs.

And it proves `PagesAreShown`: `ExtractorSpec => []PagesShowAll`, for any listings and any
size of a page. `ListingInv` is the invariant: while no request has failed, what the viewer
has been shown is what was promised of the entries that the pages so far reach
(`ShowsFirst`), the last reply but for Bilibili's keys is the page that was asked for, and a
page after the first is asked for only if there are entries before it. `PageTells` goes
through the platforms and their calls: each rule for `has_more` says there are more only
of a page with entries, and that there are none only where the listing ends, unless it counts and an entry
could not be read (`TellsPage`). `PageIs` is the arithmetic of pages, rows and offsets. A filter
is the recursive function `Filtered`; what it returns is told by the places that pass
(`Picked`), by induction over the list, and so is that it takes lists apart where pages
end (`PickedOn`, `PageShown`). The theorem assumes of the platforms that an entry can be
read exactly if it has an id, and that a page differs from `Missing`.

`StreamsReachable` stays with the model checker: it is about lists that are sorted,
flattened and made of sets, by the library's recursive operators and by choice.

`TwitchPlaylist` is a server that writes a master playlist line by line.

## 7. Statistics, sampling and records

Run `records` has four machines of this kind side by side.

| model | code (`danmaku/`) |
|---|---|
| `HeavyHitters`: tables of `count` and `error`, `sketch` | `TalkerHeavyHitters`, `WordHeavyHitters` and `CountMinSketch`. Which of several least counters goes is up to the hash map: `Replaced` has every outcome |
| `Statistics`: `agg` | `StatisticsAggregator`; `Record`, `Checkpoint`, `Finalize`, and the getters at any time |
| `Sampler`: `sampler` | `FixedIntervalSampler` and `VelocitySampler`; an interval is a pair of numerator and denominator, as the code's float stands for a quotient |
| `Writer`: `file`, `disk`, `inflight`, `call` | `XmlDanmakuWriter` on tokio's `File`, which is external: a write is handed to the background and its error is heard at the next call |

* `HeavyHittersBounded`: whatever was evicted, a tracked talker was heard at least
  `count - error` and at most `count` times, an untracked one no more often than
  the least counter, which is at most the total over the capacity; a tracked
  word's score exceeds the truth by no more than its error or its collisions.
  Sessions of five messages and four keys in tables of two evict three times.
* `RatesAccounted`: every report, at checkpoints and at the end, has the rate of
  exactly the messages since the last, also when timestamps go back.
* `IntervalFollowsMessages`: pruning the window when it grows past its limit
  (two entries here, 120 in the code) does not change the interval chosen.
  Timestamps are taken to be those of a monotone clock.
* `RecordWellFormed`: a counted row is in the file or its loss is reported, rows
  keep their order, and a file that was finalized without failure or dropped
  call is header, rows, closing tag. Two failures and one dropped call over three
  rows with a flush every second meet a failure at each kind of write.

`RecordProofs` proves two properties of this run:

* `RecordIsWellFormed`: `WriterSpec => []RecordWellFormed`, for any header and comments, any
  kinds of messages, and any numbers of rows, failures and dropped calls
  (`WriterAssumption`). What reached the file is not inductive by itself, since a write
  is counted when it is handed over and lands or fails later; the invariant is about
  what the file was *given* (`Given`), with the write under way. `RowInv` says
  that the rows missing from it are no more than the losses reported or about to be,
  `EndInv` that without a dropped call a closing tag is last, and `WholeInv` how far the file
  has come when nothing went wrong, which is all of it at the end.
* `NotificationsCompressedArrive`: `Spec => []CompressedArrive` of `BilibiliFeed`, for any
  number of packets, compressed either way or not, and any commands. `FrameInv` says that the
  decoder's outputs for the frame so far are the items of what was sent, which
  appending a packet keeps because flattening distributes over appending
  (`FlattenAppend`, proved of the library's recursive definition by first-order induction).

`StatisticsProofs` proves the other three:

* `HittersAreBounded`: `StatisticsSpec => []HeavyHittersBounded`, for any number of users and
  words, any messages, capacities, rows and columns of the sketch, any hash, any
  victims of evictions, and checkpoints and resets at any time. `StatisticsAssumption` says that capacities are
  positive, that a hash names a column, and what a message consists of. The property bounds a
  word's score, which hides how far its own counter can be trusted, and does not say where the
  total comes from, so it is not inductive. `HitterInv` adds that a table never holds more
  keys than its capacity, and for every key (`Bounds`): one in the table was said no more often
  than its counter and no less often than counter minus error, unless the counter is within the
  sketch's estimate for the word; one outside no more often than the least counter. Estimates never
  fall and rise with every mention (`SketchGrows`). One counting step keeps `Bounds`
  (`CountingBounds`): the key that comes back inherits the least count, which covers what it had
  said before. The share of the total is a count of pairs: a key with each number
  up to its count (`Slots`) is one pair per message (`OneMoreSlot`), and capacity times
  the least count of them form a rectangle (`LeastIsAShare`). The words of one text are
  counted one after the other, so the step for a message is an induction
  over its text (`TextCounted`), which is done in first-order form: the least
  place where it fails has none before it (`LeastOf`).

* `RatesAreAccounted`: `StatisticsSpec => []RatesAccounted`, under the same assumption. The
  property compares what a report says with the series of all messages, and does not say how
  the aggregator got there. `RateInv` does: the open bucket is the last point of the
  series, and the rate is what the limit keeps of the points before it (`KeptOf`). With it
  in `AccountInv` are the chat and gift counts, that no point of a series stands for no
  message (`Full`), and that the reports made are accounts of what they were made of. A message
  adds a point to the series or raises the last (`SeriesGrows`), also when its timestamp
  is older than the one before.
* `IntervalIsRight`: `SamplerSpec => []IntervalFollowsMessages`, for any window, target, bounds and
  limit from which pruning starts. `SamplerInv` says that the seconds in the window go up
  and are not after now (`Ordered`), and that from the cutoff on, and from whenever later, the
  window counts the messages that came (`Agree`): with the cutoff of this moment alone it
  would not be inductive, as the cutoff moves with the clock. Pruning removes only seconds before
  the cutoff, and the cutoff never goes back; what it leaves is counted through a bijection
  (`PrunedKeeps`). That the interval is within its bounds (`Within`) is part of the invariant.

Run on TLC as an invariant, `HitterInv` holds in every state of `records`.

## 8. Findings

| run | what the code says of itself | what the run shows |
|---|---|---|
| `frequency_window` | `mask_frequency.rs:8-9`: hits are counted "within a time window", and messages exceeding `max_frequency` within it are blocked | rotation expires the bucket being filled, so hits are forgotten when their bucket ends; two messages pass in a window that allows one (`WindowLimited`) |
| `bilibili_raw` | `bilibili/danmaku.rs:11-12`: protocol version 0 is raw JSON | an uncompressed notification is decoded as packets and lost (`NotificationsArrive`) |
| `twitch_handshake` | `twitch/danmaku.rs:183`: sends CAP REQ, PASS, NICK, JOIN | the last message is the channel's name without JOIN (`JoinedAfterHandshake`) |
| `twitch_playlist` | `twitch/extractor.rs:475`: returns a pair "for each variant" | a media tag takes the next line for its URL; when that is a variant's tag, the variant is lost (`VariantsOffered`) |

Seen while modelling, without a run of their own:

* `provider.rs:121` says `receive` "Returns None if the connection is closed"; every
  provider returns `None` when 100 ms pass without an item, and an error when the
  channel is closed.
* Douyu announces a failed dial, a failed login and a broken stream as
  `StreamClosed`, which `event.rs:14` gives to streams that ended.
* Bilibili's heartbeat is sent every 60 s, where its overview says 30.
* A Douyu text frame is sliced at byte 200 for a debug message, which panics
  inside a multi-byte character.
* With more buckets than milliseconds a mask's bucket size is 0 and it never
  blocks.
* A masked `connect` dropped while it awaits a lock leaves the inner connection
  open with nobody to disconnect it; a `receive` dropped there loses its message.
* Douyu's `disconnect` says it shuts the task down gracefully (`douyu/danmaku.rs:538`)
  but aborts it in the same stretch, so the task may never see the signal and
  leaves without its logout.
* A slow consumer delays Twitch's PONG (`twitch/danmaku.rs:339`) behind the items of
  the frame.
* `is_connected` of the reconnecting provider stays true when its task returns on
  shutdown; nothing reads it.
* A room that is lacking in a reply is told as off the air, refused or not: by Douyu
  (`douyu/extractor.rs:191`), by Douyin's `get_live_status` and, if the reply has a
  `data` object, its `get_room_detail` (`douyin/extractor.rs:882`), and by Bilibili's
  `get_live_status` (`bilibili/extractor.rs:964`); so is one without a status, on
  all platforms. A long Douyin room id is only turned into the room's own by
  `get_room_detail` (`douyin/extractor.rs:1168`).
* The replay of a Douyu room and, if the page does not mark it, of a Huya room is
  told as live (`douyu/extractor.rs:241`, `huya/extractor.rs:644`).
* Douyin's reflow request goes out with no ttwid before the first request to the
  API, and with the last one's jar afterwards (`douyin/extractor.rs:143`).
* Bilibili's searches, Douyu's anchor search and Douyin's listings tell whether
  there are more by the entries they could read: an unreadable one on a full page
  ends the listing. Douyin's recommendations take no page and never end.
* Huya has no detail for a room without a stream list, also when it is off.
  Bilibili's HLS in transport streams is called FLV; Huya's and Douyin's URLs mix
  formats under the first one's name.
* A URL that contains another platform's domain, in a query for instance, goes to
  whichever is registered first.
* A `set_cookies` of the Bilibili extractor between `ensure_buvid`'s read and write
  of the jar loses the login; one that read an empty `buvid3` just before it was
  stored leaves the jar without it for good. Overlapping fetches may mix the
  `buvid3` of one with the `buvid4` of the other. A fetch that failed once is not
  repeated.
* Cookies given to a connect of the Bilibili danmaku provider stay: a later connect
  that gives none authenticates with them.
* Two Douyin extractors may fetch a ttwid each, where `douyin/utils.rs:140` says
  that concurrent requests are prevented.
* A bucket size of 0 makes the statistics divide by zero; `finalize` may leave one
  rate point more than `max_rate_points`; out-of-order timestamps give two points
  for one bucket.
* A `finalize` of the writer that is dropped after its tag was queued lets rows, or
  a second tag, follow.

## 9. What is not modelled

`PROJECT.json` lists each part with its status.

* Data types, error types and the vendored protobuf schema have no behaviour.
* The digests that sign requests (`wbi.rs`, `abogus.rs`, `sign.rs`, `signature.rs`,
  `anti_code.rs`) have no control, and only the platforms could say what is right.
  Bilibili's access id and Douyu's `enc_key` are cached, but what a caller sees of
  that is a request that succeeds or not.
* The Tars, STT and bit-level codecs are pure functions of bytes. What could be
  wrong in them is a matter of all values of a width, which unit tests and
  fuzzing reach better than states; what they yield is where the frames of
  section 4 begin. Nothing in the workspace calls `bytes-util`.
* Matching of words and patterns in the blacklist, splitting of texts into words,
  and the layout of XML and of danmaku items.
* The lookup by id in the registries, and the danmaku registry, which looks up by
  URL like the one modelled.
