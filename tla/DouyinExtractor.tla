--------------------------- MODULE DouyinExtractor ---------------------------
(***************************************************************************)
(* DouyinExtractor (douyin/extractor.rs).  The requests to the API share   *)
(* a ttwid (DouyinSession).  alias tells that the caller opened the room   *)
(* by a long id, which the platform does not know it by.                   *)
(***************************************************************************)
EXTENDS Extraction

(* get_room_detail turns a long id into the room's own, get_live_status    *)
(* does not.                                                               *)
DouyinRequests(op, alias) ==
  CASE op \in {"search_rooms", "category_rooms", "recommend_rooms"} -> <<Unchecked(op)>>
    [] op = "categories" -> <<Required(op)>>
    [] op = "detail" -> (IF alias THEN <<Optional("reflow")>> ELSE <<>>) \o <<Unchecked("enter")>>
    [] op = "status" -> <<Unchecked("enter")>>
    [] op \in {"search_anchors", "qualities", "urls", "super_chat"} -> <<>>

(* All listings go by the entries that could be read.                      *)
DouyinPage(items) == Listing(items, Len(items) >= PageSize)

DouyinSearch(body) == DouyinPage(Readable(PageIn(body).list))

DouyinCategoryRooms(body) == DouyinPage(Readable(PageIn(body).list))

(* The feed takes no page, and every entry it gets is readable.            *)
DouyinFeed(body) == DouyinPage(PageIn(body).list)

(* A category is the first of its own sub-categories.                      *)
DouyinCategories(areas) ==
  LET known == Readable(areas)
  IN  [i \in DOMAIN known |-> Category(known[i].id, <<known[i]>> \o Readable(known[i].subs))]

DouyinIsLive(room) == room.status = 2

NoStreams == [options |-> Missing, streams |-> Missing, flv |-> {}, hls |-> {}]

(* The replies to room/enter that lack a room: without data, and with.     *)
DouyinLacking == {Missing, [room |-> Missing]}

(* Without data the call fails, without a room the streamer is off; a room *)
(* that is off, or does not tell, has no streams.                          *)
DouyinDetail(body) ==
  IF body = Missing THEN Failure
  ELSE IF body.room = Missing THEN Detail(FALSE, Missing, Missing)
  ELSE Detail(DouyinIsLive(body.room), IF DouyinIsLive(body.room) THEN body.room.play ELSE NoStreams, "args")

DouyinStatus(body) ==
  Success(body # Missing /\ body.room # Missing /\ DouyinIsLive(body.room))

(* The addresses kept under a key, FLV first.                              *)
Addresses(key, flv, hls) ==
  (IF flv THEN <<[kind |-> "flv", host |-> key]>> ELSE <<>>) \o
  (IF hls THEN <<[kind |-> "m3u8", host |-> key]>> ELSE <<>>)

(* Mutant: options are kept whether they have an address or not.           *)
HasName(quality) == quality.name # ""

HasAddresses(quality) == quality.urls # <<>>

(* live_core_sdk_data: the options that have an address, by their level,   *)
(* highest first.                                                          *)
SdkQualities(play) ==
  LET UrlsOf(key) ==
        IF key \notin DOMAIN play.streams THEN <<>>
        ELSE Addresses(key, "flv" \in play.streams[key], "hls" \in play.streams[key])
      offered == [i \in DOMAIN play.options |->
                    [name |-> play.options[i].name, level |-> play.options[i].level,
                     urls |-> UrlsOf(play.options[i].key)]]
  IN  IF play.options = Missing \/ play.streams = Missing THEN <<>>
      ELSE SortSeq(SelectSeq(offered, HasAddresses), LAMBDA a, b : a.level > b.level)

StandardKeys == <<"FULL_HD1", "HD1", "SD1", "SD2">>

UrlsUnder(play, key) == Addresses(key, key \in play.flv, key \in play.hls)

(* flv_pull_url and hls_pull_url_map, under the standard keys.             *)
MappedQualities(play) ==
  SelectSeq([i \in DOMAIN StandardKeys |->
               [name |-> StandardKeys[i], level |-> 0, urls |-> UrlsUnder(play, StandardKeys[i])]],
            HasAddresses)

(* Everything under whatever key, as one quality; without any, a quality   *)
(* that nothing can be played in.                                          *)
DefaultQuality(play) ==
  LET flv == SetToSeq(play.flv)
      hls == SetToSeq(play.hls)
  IN  [name |-> "default", level |-> 0,
       urls |-> [i \in DOMAIN flv |-> [kind |-> "flv", host |-> flv[i]]] \o
                [i \in DOMAIN hls |-> [kind |-> "m3u8", host |-> hls[i]]]]

DouyinQualities(data) ==
  LET play == IF data = Missing THEN NoStreams ELSE data
      sdk == SdkQualities(play)
      mapped == MappedQualities(play)
  IN  Qualities(IF sdk # <<>> THEN sdk ELSE IF mapped # <<>> THEN mapped
                ELSE <<DefaultQuality(play)>>)

(* The first URL decides on the format.                                    *)
DouyinUrls(quality) ==
  IF quality.urls = <<>> THEN Failure ELSE Urls(quality.urls, Head(quality.urls).kind)

DouyinResult(op, heard, data, quality) ==
  CASE op = "search_rooms" -> DouyinSearch(Last(heard))
    [] op = "category_rooms" -> DouyinCategoryRooms(Last(heard))
    [] op = "recommend_rooms" -> DouyinFeed(Last(heard))
    [] op = "search_anchors" -> Failure
    [] op = "categories" -> Success(DouyinCategories(Last(heard)))
    [] op = "detail" -> DouyinDetail(Last(heard))
    [] op = "qualities" -> DouyinQualities(data)
    [] op = "urls" -> DouyinUrls(quality)
    [] op = "status" -> DouyinStatus(Last(heard))
    [] op = "super_chat" -> Success(<<>>)

(* The platform (external).  The room asked for by an id it does not know  *)
(* is answered like one that is not on air; another that is off may have a *)
(* room or none.                                                           *)
DouyinAnswer(op, ask, heard, site, page) ==
  LET unknown == site.alias /\ (op = "status" \/ heard[1] = Missing)
      status == IF "status" \in site.silent THEN Missing ELSE IF site.state = "live" THEN 2 ELSE 4
      room == IF unknown \/ (site.state = "offline" /\ site.renamed) THEN Missing
              ELSE [status |-> status, play |-> site.play]
  IN  CASE ask \in {"search_rooms", "category_rooms"} -> PageOf(site.entries, RowsBefore(page))
        [] ask = "recommend_rooms" -> NumberedPage(site.entries, 1)
        [] ask = "categories" -> site.categories
        [] ask = "enter" -> [room |-> room]
        [] OTHER -> ask

=============================================================================
