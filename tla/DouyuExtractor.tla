--------------------------- MODULE DouyuExtractor ---------------------------
(***************************************************************************)
(* DouyuExtractor (douyu/extractor.rs).  Play requests are signed with a   *)
(* key the extractor keeps, and sent once, without a retry.                *)
(***************************************************************************)
EXTENDS Extraction

(* One play request per network of the quality; a failed one is skipped.   *)
DouyuRequests(op, cdns) ==
  CASE op \in {"search_rooms", "search_anchors", "category_rooms", "recommend_rooms"} ->
         <<Required("list")>>
    [] op = "categories" -> <<Required("cates")>>
    [] op \in {"detail", "status"} -> <<Unchecked("betard")>>
    [] op = "qualities" -> <<Required("key"), Required("play")>>
    [] op = "urls" -> [i \in DOMAIN cdns |-> Optional("play")]
    [] op = "super_chat" -> <<>>

DouyuSearch(op, body) ==
  LET items == Readable(body.list)
  IN  Listing(items, IF op = "search_rooms" THEN body.list # <<>> ELSE items # <<>>)

(* Category and recommended rooms are those on air.                        *)
DouyuRooms(body, page) == Listing(Filtered(body.list, OnAir), page < body.pages)

(* isLive, else room_status, else show_status, else 0: whichever the reply *)
(* has first; a reply without a room has none.  Whether the room shows a   *)
(* recording is not looked at.                                             *)
DouyuIsLive(room) ==
  LET said == {i \in DOMAIN room : room[i] # Missing}
  IN  said # {} /\ room[Min(said)] = 1

DouyuDetail(room) == Detail(DouyuIsLive(room), Missing, Missing)

(* The sub-categories of a category are those that name it and have a name;*)
(* categories come in the order of their numbers.                          *)
DouyuCategories(body) ==
  LET Sorted == SortSeq(body.tops, LAMBDA a, b : a < b)
      SubsOf(top) == SelectSeq(body.subs, LAMBDA sub : sub.top = top /\ sub.whole)
  IN  [i \in DOMAIN Sorted |-> Category(Sorted[i], SubsOf(Sorted[i]))]

(* Networks whose name begins with scdn go last.                           *)
DouyuNetworks(cdns) ==
  LET Named(cdn) == cdn # Missing
      IsScdn(cdn) == cdn = "scdn"
      Other(cdn) == ~IsScdn(cdn)
      named == SelectSeq(cdns, Named)
  IN  SelectSeq(named, Other) \o SelectSeq(named, IsScdn)

DouyuFallback == <<0, 400, 250, 150, 80, 50>>

(* Every rate, with all the networks.                                      *)
DouyuQualities(body) ==
  LET rates == IF body.rates = <<>> THEN DouyuFallback ELSE body.rates
  IN  [i \in DOMAIN rates |-> [rate |-> rates[i], cdns |-> DouyuNetworks(body.cdns)]]

(* A network's answer holds a URL or is empty.                             *)
PlayUrl(cdn, body) == IF body # Missing /\ cdn \in body.serving THEN [kind |-> "flv", host |-> cdn] ELSE Missing

DouyuUrls(cdns, heard) ==
  LET HasUrl(url) == url # Missing
  IN  Urls(SelectSeq([i \in DOMAIN cdns |-> PlayUrl(cdns[i], heard[i])], HasUrl), "flv")

DouyuResult(op, heard, page, cdns) ==
  LET body == Last(heard)
      room == IF body = Missing THEN <<>> ELSE body
  IN  CASE op \in {"search_rooms", "search_anchors", "category_rooms", "recommend_rooms"} ->
             IF op \in {"search_rooms", "search_anchors"} THEN DouyuSearch(op, body)
             ELSE DouyuRooms(body, page)
        [] op = "categories" -> Success(DouyuCategories(body))
        [] op = "detail" -> DouyuDetail(room)
        [] op = "qualities" -> Qualities(DouyuQualities(body))
        [] op = "urls" -> DouyuUrls(cdns, heard)
        [] op = "status" -> Success(DouyuIsLive(room))
        [] op = "super_chat" -> Success(<<>>)

(* The platform (external); a room's status has one of three names, and a  *)
(* room that shows recordings has the status of one that is live.          *)
DouyuAnswer(ask, site, page) ==
  LET status == IF "status" \in site.silent THEN Missing ELSE IF site.state = "offline" THEN 2 ELSE 1
  IN  CASE ask = "list" -> NumberedPage(site.entries, page)
        [] ask = "cates" -> site.categories
        [] ask = "betard" -> IF site.renamed THEN <<Missing, status, status>>
                             ELSE <<status, Missing, Missing>>
        [] ask = "play" -> site.play
        [] OTHER -> ask

=============================================================================
