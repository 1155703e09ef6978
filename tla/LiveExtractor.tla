---------------------------- MODULE LiveExtractor ----------------------------
(***************************************************************************)
(* The extractors behind the trait LiveExtractor, as a viewer uses them:   *)
(* open a URL, and then page through a listing, or ask for the detail of   *)
(* the room, its qualities and their URLs, or for anything else.           *)
(*                                                                         *)
(* One call is a sequence of requests, each of which is granted, refused   *)
(* by the platform or answered without what it asked for, or fails on the  *)
(* way: at once, or, where it is sent through HttpClient's retries, after  *)
(* them.  The call goes on or ends according to the request's policy.      *)
(* site is what is true of the platform while the viewer looks at it;      *)
(* silent is what it says nothing of: the status of its rooms, or whether  *)
(* one shows a recording.                                                  *)
(***************************************************************************)
EXTENDS BilibiliExtractor, DouyuExtractor, HuyaExtractor, DouyinExtractor, TwitchExtractor

CONSTANTS
  NoPlatform, NoOp, NoSite,
  Links,        (* the URLs viewers open: the domains each contains        *)
  Sites(_)      (* per platform: what may be true of it                    *)

Platforms == {"huya", "bilibili", "douyin", "douyu", "twitch"}

ListingOps == {"search_rooms", "search_anchors", "category_rooms", "recommend_rooms"}
Ops == ListingOps \union {"categories", "detail", "status", "super_chat"}

(* What is not there differs from everything that is: None from Some; an   *)
(* entry that can be read is one with an id.                               *)
ASSUME ExtractorAssumption ==
  /\ NoPlatform \notin Platforms
  /\ NoOp \notin Ops \union {"qualities", "urls"}
  /\ Missing # 1 /\ Missing # 2 /\ Missing # "reflow"
  /\ \A pf \in Platforms : \A where \in Sites(pf) :
       /\ where.state \in {"live", "replay", "offline"}
       /\ where.renamed \in BOOLEAN /\ where.alias \in BOOLEAN
       /\ where.silent \subseteq {"status", "replay"}
       /\ where.entries \in Seq(Range(where.entries))
       /\ \A i \in DOMAIN where.entries :
            /\ where.entries[i].whole \in BOOLEAN /\ where.entries[i].live \in BOOLEAN
            /\ where.entries[i].whole <=> where.entries[i].id # Missing
       /\ \A p \in 1..(Len(where.entries) \div PageSize + 2) :
            Missing # PageOf(where.entries, (p - 1) * PageSize)
       /\ \A status \in {1, 2, 4, Missing} :
            /\ Missing # <<status, Missing, Missing>> /\ Missing # <<Missing, status, status>>
            /\ Missing # [status |-> status, play |-> where.play]
            /\ Missing # [room |-> [status |-> status, play |-> where.play]]
            /\ Missing # [room |-> Missing]

VARIABLES
  platform, site,   (* whose extractor the viewer has, and what it faces   *)
  op, page,         (* the call being made                                 *)
  heard,            (* the replies it has had                              *)
  result,           (* what it returned                                    *)
  failed,           (* history: a request was refused or failed            *)
  shown,            (* the entries of the pages so far                     *)
  detail, offered,  (* the room's detail and the qualities, once known     *)
  tried             (* how many of them were tried                         *)

(* A call that has not returned: no result is like it.                     *)
NoResult == [asking |-> TRUE]

call == <<op, page, heard, result>>
viewer == <<shown, detail, offered, tried>>
extractorVars == <<platform, site, call, failed, viewer>>

ExtractorInit ==
  /\ platform = NoPlatform /\ site = NoSite
  /\ op = NoOp /\ page = 0 /\ heard = <<>> /\ result = NoResult
  /\ failed = FALSE
  /\ shown = <<>> /\ detail = Missing /\ offered = <<>> /\ tried = 0

(* ExtractorRegistry: the extractors in the order of registration; the     *)
(* first that supports a URL gets it.  Every extractor supports a URL that *)
(* contains its domain, wherever it is in it.                              *)
Registered == <<"huya", "bilibili", "douyin", "douyu", "twitch">>

Supports(pf, link) == pf \in link

ByUrl(link) ==
  LET found == {i \in DOMAIN Registered : Supports(Registered[i], link)}
  IN  IF found = {} THEN NoPlatform ELSE Registered[Min(found)]

-----------------------------------------------------------------------------
(* What the call asks for, what it is answered, and what it makes of that. *)
Quality == IF tried = 0 THEN Missing ELSE offered[tried]

Requests ==
  CASE platform = "bilibili" -> BilibiliRequests(op, heard)
    [] platform = "douyu" -> DouyuRequests(op, IF tried = 0 THEN <<>> ELSE Quality.cdns)
    [] platform = "huya" -> HuyaRequests(op)
    [] platform = "douyin" -> DouyinRequests(op, site.alias)
    [] platform = "twitch" -> TwitchRequests(op)

AnswerTo(ask) ==
  CASE platform = "bilibili" -> BilibiliAnswer(ask, site, page)
    [] platform = "douyu" -> DouyuAnswer(ask, site, page)
    [] platform = "huya" -> HuyaAnswer(op, ask, site, page)
    [] platform = "douyin" -> DouyinAnswer(op, ask, heard, site, page)
    [] platform = "twitch" -> TwitchAnswer(ask, site, page)

Outcome ==
  CASE platform = "bilibili" -> BilibiliResult(op, heard)
    [] platform = "douyu" -> DouyuResult(op, heard, page, IF tried = 0 THEN <<>> ELSE Quality.cdns)
    [] platform = "huya" -> HuyaResult(op, heard, page, detail)
    [] platform = "douyin" -> DouyinResult(op, heard, detail, Quality)
    [] platform = "twitch" -> TwitchResult(op, heard, Quality)

-----------------------------------------------------------------------------
Ask(o, p) == op' = o /\ page' = p /\ heard' = <<>> /\ result' = NoResult

Open(link) ==
  /\ platform = NoPlatform
  /\ ByUrl(link) # NoPlatform
  /\ platform' = ByUrl(link)
  /\ site' \in Sites(platform')
  /\ UNCHANGED <<call, failed, viewer>>

Begin(o) ==
  /\ platform # NoPlatform /\ op = NoOp
  /\ Ask(o, 1)
  /\ UNCHANGED <<platform, site, failed, viewer>>

Waiting == op # NoOp /\ result = NoResult /\ Len(heard) < Len(Requests)

Granted ==
  /\ Waiting
  /\ heard' = Append(heard, AnswerTo(Requests[Len(heard) + 1].ask))
  /\ UNCHANGED <<platform, site, op, page, result, failed, viewer>>

(* A request does not bring what it asks for: the call goes on with some   *)
(* reply, or returns an error.                                             *)
Without(policies, replies) ==
  /\ Waiting
  /\ IF Requests[Len(heard) + 1].policy \in policies
     THEN (\E reply \in replies : heard' = Append(heard, reply)) /\ UNCHANGED result
     ELSE result' = Failure /\ UNCHANGED heard
  /\ failed' = TRUE
  /\ UNCHANGED <<platform, site, op, page, viewer>>

(* A reply that lacks what was asked for, or a refusal.  Where an error    *)
(* code is looked at all the same, the call ends as when it is Broken.     *)
LackingReplies ==
  IF Requests[Len(heard) + 1].ask = "enter" THEN DouyinLacking ELSE {Missing}

Refused == Without({"optional", "unchecked"}, LackingReplies)
Broken == Without({"optional"}, {Missing})

Return ==
  /\ op # NoOp /\ result = NoResult /\ Len(heard) = Len(Requests)
  /\ result' = Outcome
  /\ shown' = IF op \in ListingOps /\ Outcome.ok THEN shown \o Outcome.value.items ELSE shown
  /\ UNCHANGED <<platform, site, op, page, heard, failed, detail, offered, tried>>

-----------------------------------------------------------------------------
(* What the viewer does with a result.                                     *)
Returned(o) == op = o /\ result # NoResult

NextPage ==
  /\ op \in ListingOps /\ result # NoResult
  /\ result.ok
  /\ result.value.more
  /\ ~(platform = "douyin" /\ op = "recommend_rooms")   (* a feed without pages *)
  /\ Ask(op, page + 1)
  /\ UNCHANGED <<platform, site, failed, viewer>>

AskQualities ==
  /\ Returned("detail") /\ result.ok
  /\ detail' = result.value.data
  /\ Ask("qualities", 1)
  /\ UNCHANGED <<platform, site, failed, shown, offered, tried>>

AskUrls ==
  /\ Returned("qualities") /\ result.ok
  /\ offered' = result.value
  /\ tried' = 1
  /\ Ask("urls", 1)
  /\ UNCHANGED <<platform, site, failed, shown, detail>>

AskNextUrls ==
  /\ Returned("urls") /\ tried < Len(offered)
  /\ tried' = tried + 1
  /\ Ask("urls", 1)
  /\ UNCHANGED <<platform, site, failed, shown, detail, offered>>

(* The viewer has what it wanted, or gives up.                             *)
Leave ==
  /\ op # NoOp /\ result # NoResult
  /\ platform' = NoPlatform /\ site' = NoSite
  /\ Ask(NoOp, 0)
  /\ failed' = FALSE
  /\ shown' = <<>> /\ detail' = Missing /\ offered' = <<>> /\ tried' = 0

ExtractorNext ==
  \/ \E link \in Links : Open(link)
  \/ \E o \in Ops : Begin(o)
  \/ Granted \/ Refused \/ Broken \/ Return
  \/ NextPage \/ AskQualities \/ AskUrls \/ AskNextUrls \/ Leave

ExtractorSpec == ExtractorInit /\ [][ExtractorNext]_extractorVars

-----------------------------------------------------------------------------
(* The listings whose end is told by the number of entries that could be   *)
(* read, so that an entry without an id on a full page ends them early.    *)
CountsEntries ==
  \/ platform = "bilibili" /\ op \in {"search_rooms", "search_anchors"}
  \/ platform = "douyu" /\ op = "search_anchors"
  \/ platform = "douyin"

LiveOnly ==
  \/ platform = "douyu" /\ op \in {"category_rooms", "recommend_rooms"}
  \/ platform = "twitch" /\ op = "search_rooms"

Promised(entry) == entry.whole /\ (LiveOnly => entry.live)
IsEntry(id) == id # Missing

HasPages == ~(platform = "douyin" /\ op \in {"recommend_rooms", "search_anchors"})

(* Paging until has_more is false shows every entry, once and in order,    *)
(* and stops at most one page after the last: the offset of a page         *)
(* (huya/extractor.rs:489, douyin/extractor.rs:585) and the seven rules by *)
(* which an extractor tells whether there are more (for instance           *)
(* bilibili:571, douyu:620, douyu:718, huya:543, huya:344, douyin:743,     *)
(* twitch:623) have to fit the platform's pages.                           *)
PagesShowAll ==
  (op \in ListingOps /\ HasPages /\ ~failed /\ result # NoResult) =>
    /\ result.ok
    /\ page <= Len(site.entries) \div PageSize + 2
    /\ (~result.value.more /\ (CountsEntries => \A i \in DOMAIN site.entries : site.entries[i].whole)) =>
         LET promised == Filtered(site.entries, Promised)
         IN  Filtered(shown, IsEntry) = [i \in DOMAIN promised |-> promised[i].id]

(* What is told as off although it may be live: a room whose platform does *)
(* not tell (bilibili/extractor.rs:785, 967, douyu/extractor.rs:246,       *)
(* huya/extractor.rs:640, douyin/extractor.rs:293, twitch/extractor.rs:    *)
(* 900); one that is lacking in a reply in which that is not an error      *)
(* (bilibili:965, douyu:200, douyin:882, 1171), a refusal included; and    *)
(* one under a long id that was not resolved (douyin:145, 1169).           *)
TakenForOff ==
  \/ "status" \in site.silent
  \/ failed /\ (platform \in {"douyu", "douyin"} \/ (platform = "bilibili" /\ op = "status"))
  \/ platform = "douyin" /\ op = "status" /\ site.alias

(* What is told as live although it shows a recording: where nothing is    *)
(* looked at that tells (douyu/extractor.rs:241), or nothing tells         *)
(* (huya/extractor.rs:644, 813).                                           *)
TakenForLive ==
  /\ site.state = "replay"
  /\ platform = "douyu" \/ (platform = "huya" /\ "replay" \in site.silent)

ToldLive == IF op = "detail" THEN result.value.status ELSE result.value

(* What get_room_detail and get_live_status say of a room: one that is     *)
(* told live is live, but for the recordings named above, and no failed    *)
(* request or missing field ever makes a room live; one that is live is    *)
(* told so, but for the cases named above, in which a failure or a field   *)
(* that is missing passes for a room that is off.  In all other cases a    *)
(* failure is an error and never an answer.                                *)
StatusIsTrue ==
  (op \in {"detail", "status"} /\ result # NoResult /\ result.ok) =>
    /\ ToldLive => site.state = "live" \/ TakenForLive
    /\ site.state = "live" => ToldLive \/ TakenForOff

(* The formats a player is told; Bilibili's HLS in transport streams goes  *)
(* for FLV (bilibili/extractor.rs:922).                                    *)
FormatOf(kind) == IF kind \in {"flv", "ts"} THEN "flv" ELSE "m3u8"

(* A Twitch playlist whose every variant comes directly after a media tag, *)
(* which takes the variant's own tag for its address                       *)
(* (twitch/extractor.rs:479-493; VariantsOffered in TwitchPlaylist).       *)
Swallowed ==
  /\ platform = "twitch"
  /\ \A i \in DOMAIN site.play :
       site.play[i].tag = "stream_inf" => i > 1 /\ site.play[i - 1].tag = "media"

(* A live room on Douyin that does not tell is shown without streams       *)
(* (douyin/extractor.rs:973-978).                                          *)
Withheld == platform = "douyin" /\ "status" \in site.silent

(* In a room that is live and has a stream that plays, the walk from its   *)
(* detail over its qualities to their URLs never comes to a dead end       *)
(* unless a request fails, or for the two reasons named above: there are   *)
(* qualities, and each has URLs.  Every URL on the way is one that plays,  *)
(* and the first of them is of the format the player is told.  The calls   *)
(* hand platform-specific data to each other through opaque strings        *)
(* (models.rs:118, 138), and every platform leaves out what it has no      *)
(* address for somewhere else.                                             *)
StreamsReachable ==
  /\ (result # NoResult /\ ~failed /\ op \in {"detail", "qualities", "urls"}
        /\ site.state = "live" /\ site.good # {} /\ ~Swallowed /\ ~Withheld) =>
       /\ result.ok
       /\ op = "qualities" => result.value # <<>>
  /\ (Returned("urls") /\ result.ok) =>
       /\ result.value.urls # <<>>
       /\ \A i \in DOMAIN result.value.urls : result.value.urls[i] \in site.good
       /\ result.value.format = FormatOf(Head(result.value.urls).kind)

=============================================================================
