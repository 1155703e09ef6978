--------------------------- MODULE TwitchExtractor ---------------------------
(***************************************************************************)
(* TwitchExtractor (twitch/extractor.rs): GraphQL requests, sent once, and *)
(* the master playlist of a channel.                                       *)
(***************************************************************************)
EXTENDS Extraction

TwitchRequests(op) ==
  CASE op \in {"search_rooms", "search_anchors", "category_rooms", "recommend_rooms"} ->
         <<Unchecked("list")>>
    [] op = "categories" -> <<Unchecked("directories")>>
    [] op \in {"detail", "status"} -> <<Required("shell")>>
    [] op = "qualities" -> <<Required("token"), Required("playlist")>>
    [] op \in {"urls", "super_chat"} -> <<>>

(* Searching for rooms leaves out the channels that are off.               *)
TwitchSearchRooms(body) == Listing(Filtered(PageIn(body).list, OnAir), PageIn(body).more)

TwitchSearchAnchors(body) == Listing(Readable(PageIn(body).list), PageIn(body).more)

TwitchStreams(body) == Listing(Readable(PageIn(body).list), PageIn(body).more)

TwitchCategories(directories) ==
  LET named == IF directories = Missing THEN <<>> ELSE Readable(directories)
  IN  [i \in DOMAIN named |-> Category(named[i].id, <<>>)]

(* A stream that is not there, or has no type, is off.                     *)
TwitchIsLive(user) == user.stream = "live"

TwitchDetail(user) == Detail(TwitchIsLive(user), "channel", "channel")

(* The master playlist: a tag that announces a variant takes the line      *)
(* after it, whatever that is; a line that was taken announces nothing.    *)
Announces(line) == line.tag \in {"stream_inf", "media"}

TakenLines(lines) ==
  LET taken[i \in 0..Len(lines)] == i > 1 /\ Announces(lines[i - 1]) /\ ~taken[i - 1]
  IN  {i \in 1..Len(lines) : taken[i]}

(* The variants: what was taken, where it is an address.                   *)
PlaylistVariants(lines) ==
  LET taken == SetToSortSeq(TakenLines(lines), <)
      IsAddress(i) == lines[i].tag = "uri"
      addresses == SelectSeq(taken, IsAddress)
  IN  [k \in DOMAIN addresses |-> lines[addresses[k]].uri]

TwitchQualities(lines) ==
  LET variants == PlaylistVariants(lines)
  IN  IF variants = <<>> THEN Failure ELSE Qualities(variants)

(* The variant's own address is what is played.                            *)
TwitchUrls(variant) == Urls(<<[kind |-> "m3u8", host |-> variant]>>, "m3u8")

TwitchResult(op, heard, variant) ==
  CASE op = "search_rooms" -> TwitchSearchRooms(Last(heard))
    [] op = "search_anchors" -> TwitchSearchAnchors(Last(heard))
    [] op \in {"category_rooms", "recommend_rooms"} -> TwitchStreams(Last(heard))
    [] op = "categories" -> Success(TwitchCategories(Last(heard)))
    [] op = "detail" -> TwitchDetail(Last(heard))
    [] op = "qualities" -> TwitchQualities(Last(heard))
    [] op = "urls" -> TwitchUrls(variant)
    [] op = "status" -> Success(TwitchIsLive(Last(heard)))
    [] op = "super_chat" -> Success(<<>>)

(* The platform (external).  A channel that shows a recording has a stream *)
(* of another type.                                                        *)
TwitchAnswer(ask, site, page) ==
  CASE ask = "list" -> PageOf(site.entries, RowsBefore(page))
    [] ask = "directories" -> site.categories
    [] ask = "shell" -> [stream |-> IF "status" \in site.silent THEN "none"
                                    ELSE IF site.state = "live" THEN "live"
                                    ELSE IF site.state = "replay" THEN "rerun" ELSE "none"]
    [] ask = "playlist" -> site.play
    [] OTHER -> ask

=============================================================================
