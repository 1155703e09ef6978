---------------------------- MODULE HuyaExtractor ----------------------------
(***************************************************************************)
(* HuyaExtractor (huya/extractor.rs).  A room is read from its page, which *)
(* has two blocks of JSON; what it says of the streams is kept in the      *)
(* detail, and qualities and URLs are made from that without a request.    *)
(***************************************************************************)
EXTENDS Extraction

HuyaRequests(op) ==
  CASE op \in {"search_rooms", "search_anchors", "category_rooms", "recommend_rooms"} ->
         <<Required("list")>>
    [] op = "categories" -> [i \in 1..4 |-> Optional("games")]
    [] op \in {"detail", "status"} -> <<Required("page")>>
    [] op \in {"qualities", "urls", "super_chat"} -> <<>>

(* Searching lists every document, also one without a room's number, and   *)
(* counts from the row it asked for.                                       *)
HuyaSearch(body, page) == Listing(body.list, RowsBefore(page) + Len(body.list) < body.found)

HuyaRooms(body) == Listing(Readable(body.list), body.page < body.pages)

(* The four categories are fixed; one whose games cannot be had is empty.  *)
HuyaCategories(heard) ==
  [i \in DOMAIN heard |-> IF heard[i] = Missing THEN <<>> ELSE Readable(heard[i])]

(* state is ON and isReplay is not true; room is what the page says of the *)
(* two, of which it may leave out either.                                  *)
HuyaIsLive(room) == "on" \in room /\ "replay" \notin room

(* build_url_data: a line for the FLV address and one for the HLS address  *)
(* of every stream, as far as they are there.                              *)
LinesOf(info) ==
  (IF info.flv THEN <<[kind |-> "flv", host |-> info.host, code |-> info.flvCode]>> ELSE <<>>) \o
  (IF info.hls THEN <<[kind |-> "m3u8", host |-> info.host, code |-> info.hlsCode]>> ELSE <<>>)

HuyaUrlData(stream) ==
  [lines |-> FlattenSeq([i \in DOMAIN stream.infos |-> LinesOf(stream.infos[i])]),
   rates |-> stream.rates]

(* Without the list of streams there is no detail, whatever the status.    *)
HuyaDetail(page) ==
  IF page.stream.infos = Missing THEN Failure
  ELSE Detail(HuyaIsLive(page.room), HuyaUrlData(page.stream), "args")

HuyaFallback == <<0, 20000, 10000, 8000, 4000, 2000, 1000, 500>>

HuyaQualities(data) == Qualities(IF data.rates = <<>> THEN HuyaFallback ELSE data.rates)

(* Every line with an anti-code; the first decides on the format.          *)
HasCode(line) == line.code

HuyaUrls(data) ==
  LET lines == SelectSeq(data.lines, HasCode)
  IN  IF lines = <<>> THEN Failure
      ELSE Urls([i \in DOMAIN lines |-> [kind |-> lines[i].kind, host |-> lines[i].host]], Head(lines).kind)

HuyaResult(op, heard, page, data) ==
  CASE op \in {"search_rooms", "search_anchors", "category_rooms", "recommend_rooms"} ->
         IF op \in {"search_rooms", "search_anchors"} THEN HuyaSearch(Last(heard), page)
         ELSE HuyaRooms(Last(heard))
    [] op = "categories" -> Success(HuyaCategories(heard))
    [] op = "detail" -> HuyaDetail(Last(heard))
    [] op = "qualities" -> HuyaQualities(data)
    [] op = "urls" -> HuyaUrls(data)
    [] op = "status" -> Success(HuyaIsLive(Last(heard).room))
    [] op = "super_chat" -> Success(<<>>)

(* The platform (external).  It keeps the state ON while a recording runs. *)
HuyaAnswer(op, ask, site, page) ==
  CASE ask = "list" -> IF op \in {"search_rooms", "search_anchors"}
                       THEN PageOf(site.entries, RowsBefore(page))
                       ELSE NumberedPage(site.entries, page)
    [] ask = "games" -> site.categories
    [] ask = "page" -> [room |-> {said \in {"on", "replay"} :
                                   \/ said = "on" /\ site.state # "offline" /\ "status" \notin site.silent
                                   \/ said = "replay" /\ site.state = "replay" /\ "replay" \notin site.silent},
                        stream |-> site.play]
    [] OTHER -> ask

=============================================================================
