-------------------------- MODULE BilibiliExtractor --------------------------
(***************************************************************************)
(* BilibiliExtractor (bilibili/extractor.rs).  Every request first makes   *)
(* sure of a buvid (BilibiliSession), and a category listing of an access  *)
(* id; neither can fail the call.                                          *)
(***************************************************************************)
EXTENDS Extraction

(* What a call asks for, in order; heard is what it was told so far.       *)
BilibiliRequests(op, heard) ==
  CASE op \in {"search_rooms", "search_anchors", "category_rooms", "recommend_rooms"} ->
         <<Required("keys"), Unchecked("list")>>
    [] op = "categories" -> <<Required("areas")>>
    [] op = "detail" ->
         <<Required("room_init"), Required("room_info"), Optional("keys")>> \o
           IF Len(heard) > 2 /\ heard[3] = Missing THEN <<>> ELSE <<Optional("danmu_info")>>
    [] op = "qualities" -> <<Optional("play_info")>>
    [] op = "urls" -> <<Required("play_info")>>
    [] op = "status" -> <<Unchecked("room_info")>>
    [] op = "super_chat" -> <<Unchecked("super_chat")>>

(* Searching goes by the entries that could be read; the other listings by *)
(* the platform's own flag.                                                *)
BilibiliSearch(body) ==
  LET items == Readable(PageIn(body).list)
  IN  Listing(items, Len(items) >= PageSize)

BilibiliRooms(body) == Listing(Readable(PageIn(body).list), PageIn(body).more)

(* Every area with all that is in it, named or not.                        *)
BilibiliCategories(areas) ==
  [i \in DOMAIN areas |-> Category(areas[i].id, areas[i].subs)]

(* Mutant: a room that shows a recording counts as live.                   *)
BilibiliIsShowing(liveStatus) == liveStatus # 0

(* A reply that does not tell counts as 0.                                 *)
BilibiliIsLive(liveStatus) == liveStatus = 1

(* Without what the danmaku needs the room is still shown.                 *)
BilibiliDanmaku(heard) == IF Len(heard) = 4 THEN heard[4] ELSE Missing

BilibiliDetail(heard) == Detail(BilibiliIsLive(heard[2]), heard[1], BilibiliDanmaku(heard))

(* QUALITY_MAP.                                                            *)
BilibiliFallback == <<10000, 400, 250, 150, 80, 50>>

(* g_qn_desc, where it can be read; else the fixed list.                   *)
BilibiliQualities(described) ==
  LET HasNumber(desc) == desc # Missing
      numbers == IF described = Missing THEN <<>> ELSE SelectSeq(described, HasNumber)
  IN  IF numbers = <<>> THEN BilibiliFallback ELSE numbers

(* The URLs of a codec: one per host, none without a path.                 *)
CodecUrls(format, codec) ==
  IF codec.path THEN [h \in 1..codec.hosts |-> [kind |-> format.name, host |-> h]] ELSE <<>>

FormatUrls(format) ==
  FlattenSeq([i \in DOMAIN format.codecs |-> CodecUrls(format, format.codecs[i])])

HasUrls(format) == FormatUrls(format) # <<>>

(* The first format of the first stream that yields any.                   *)
BilibiliUrls(streams) ==
  LET usable == SelectSeq(FlattenSeq(streams), HasUrls)
  IN  IF usable = <<>> THEN Failure
      ELSE Urls(FormatUrls(Head(usable)), IF Head(usable).name = "fmp4" THEN "m3u8" ELSE "flv")

(* When a super-chat message ends.                                         *)
Expiry(msg) == IF msg.end > 0 THEN msg.end ELSE msg.start + msg.keep

BilibiliResult(op, heard) ==
  LET body == Last(heard)
  IN  CASE op \in {"search_rooms", "search_anchors", "category_rooms", "recommend_rooms"} ->
             IF op \in {"search_rooms", "search_anchors"} THEN BilibiliSearch(body)
             ELSE BilibiliRooms(body)
        [] op = "categories" -> Success(BilibiliCategories(body))
        [] op = "detail" -> BilibiliDetail(heard)
        [] op = "qualities" ->
             Qualities(BilibiliQualities(IF body = Missing THEN Missing ELSE body.described))
        [] op = "urls" -> IF body.streams = Missing THEN Failure ELSE BilibiliUrls(body.streams)
        [] op = "status" -> Success(BilibiliIsLive(body))
        [] op = "super_chat" ->
             Success(IF body = Missing THEN <<>> ELSE [i \in DOMAIN body |-> Expiry(body[i])])

(* The platform (external): what it answers a request with that it grants. *)
(* Where nothing depends on the answer the request stands for it.          *)
BilibiliAnswer(ask, site, page) ==
  CASE ask = "list" -> NumberedPage(site.entries, page)
    [] ask = "areas" -> site.categories
    [] ask = "room_info" -> IF "status" \in site.silent THEN Missing
                            ELSE IF site.state = "live" THEN 1 ELSE IF site.state = "replay" THEN 2 ELSE 0
    [] ask = "play_info" -> site.play
    [] ask = "super_chat" -> site.paid
    [] OTHER -> ask

=============================================================================
