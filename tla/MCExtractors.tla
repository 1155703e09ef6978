---------------------------- MODULE MCExtractors ----------------------------
(***************************************************************************)
(* For TLC: the platforms the extractors face, and the five machines of    *)
(* the extractor library side by side.  They share no state, so a          *)
(* behaviour is one of them at work while the others rest.                 *)
(***************************************************************************)
EXTENDS LiveExtractor, BilibiliSession, BilibiliAccount, DouyinSession

VARIABLE part   (* the machine at work                                     *)

(* Five entries (two full pages of two and one more), the same with one    *)
(* that cannot be read, a full page, and nothing.                          *)
Entry(id, whole, live) == [id |-> IF whole THEN id ELSE Missing, whole |-> whole, live |-> live]

MCListings ==
  {<<>>,
   [i \in 1..2 |-> Entry(i, TRUE, TRUE)],
   [i \in 1..4 |-> Entry(i, TRUE, i # 2)],
   [i \in 1..5 |-> Entry(i, i # 2, i # 3)]}

Area(id, whole, subs) == [id |-> id, whole |-> whole, subs |-> subs]

MCCategories(platform_) ==
  IF platform_ = "douyu"
  THEN [tops |-> <<2, 1>>,
        subs |-> <<[id |-> 11, top |-> 1, whole |-> TRUE], [id |-> 21, top |-> 2, whole |-> FALSE]>>]
  ELSE <<Area(1, TRUE, <<Area(11, TRUE, <<>>), Area(12, FALSE, <<>>)>>), Area(2, FALSE, <<>>)>>

Url(kind, host) == [kind |-> kind, host |-> host]
Play(play, good) == [play |-> play, good |-> good]

(* Per platform: what it says of a room's streams, and the URLs in that    *)
(* which play.                                                             *)
Format(name, codecs) == [name |-> name, codecs |-> codecs]
Codec(path, hosts) == [path |-> path, hosts |-> hosts]

BilibiliPlays ==
  {Play([described |-> Missing, streams |-> Missing], {}),
   Play([described |-> <<Missing>>, streams |-> <<<<Format("ts", <<Codec(TRUE, 1)>>)>>>>], {Url("ts", 1)}),
   Play([described |-> <<400, Missing>>,
         streams |-> <<<<>>, <<Format("flv", <<Codec(FALSE, 2)>>), Format("fmp4", <<Codec(FALSE, 1), Codec(TRUE, 2)>>)>>>>],
        {Url("fmp4", 1), Url("fmp4", 2)}),
   Play([described |-> <<10000>>,
         streams |-> <<<<Format("flv", <<Codec(TRUE, 1)>>)>>, <<Format("fmp4", <<Codec(TRUE, 1)>>)>>>>],
        {Url("flv", 1), Url("fmp4", 1)})}

DouyuPlays ==
  {Play([cdns |-> <<"scdn", Missing, "ws">>, rates |-> <<>>, serving |-> {"scdn"}], {Url("flv", "scdn")}),
   Play([cdns |-> <<"scdn", "ws">>, rates |-> <<4, 0>>, serving |-> {"scdn", "ws"}], {Url("flv", "scdn"), Url("flv", "ws")}),
   Play([cdns |-> <<"ws">>, rates |-> <<0>>, serving |-> {}], {})}

Info(host, flv, hls, flvCode, hlsCode) ==
  [host |-> host, flv |-> flv, hls |-> hls, flvCode |-> flvCode, hlsCode |-> hlsCode]

HuyaPlays ==
  {Play([infos |-> Missing, rates |-> <<>>], {}),
   Play([infos |-> <<Info("al", TRUE, TRUE, FALSE, TRUE)>>, rates |-> <<>>], {Url("m3u8", "al")}),
   Play([infos |-> <<Info("al", FALSE, FALSE, TRUE, TRUE), Info("tx", TRUE, TRUE, TRUE, TRUE)>>, rates |-> <<0, 500>>],
        {Url("flv", "tx"), Url("m3u8", "tx")})}

Option(name, level, key) == [name |-> name, level |-> level, key |-> key]

DouyinPlays ==
  {Play(NoStreams, {}),
   Play([options |-> <<Option("SD", 1, "sd"), Option("MD", 2, "md"), Option("HD", 3, "hd")>>,
         streams |-> [key \in {"sd", "hd"} |-> IF key = "sd" THEN {"flv", "hls"} ELSE {"hls"}],
         flv |-> {}, hls |-> {"HD1"}],
        {Url("flv", "sd"), Url("m3u8", "sd"), Url("m3u8", "hd")}),
   Play([NoStreams EXCEPT !.flv = {"FULL_HD1", "SD2"}, !.hls = {"SD2"}],
        {Url("flv", "FULL_HD1"), Url("flv", "SD2"), Url("m3u8", "SD2")}),
   Play([options |-> <<Option("SD", 1, "sd")>>, streams |-> [key \in {} |-> {}], flv |-> {}, hls |-> {"ORIGIN"}],
        {Url("m3u8", "ORIGIN")})}

Line(tag) == [tag |-> tag, uri |-> Missing]
Address(uri) == [tag |-> "uri", uri |-> uri]

(* Playlists without a media tag before a variant's own, with one before   *)
(* the only variant's, and with one before the first variant's.            *)
TwitchPlays ==
  {Play(<<Line("other")>>, {}),
   Play(<<Line("other"), Line("stream_inf"), Address("a"), Line("stream_inf"), Address("b")>>,
        {Url("m3u8", "a"), Url("m3u8", "b")}),
   Play(<<Line("stream_inf"), Address("a"), Line("media"), Line("other"), Line("stream_inf"), Address("b")>>,
        {Url("m3u8", "a"), Url("m3u8", "b")}),
   Play(<<Line("media"), Line("stream_inf"), Address("a")>>, {Url("m3u8", "a")}),
   Play(<<Line("media"), Line("stream_inf"), Address("a"), Line("stream_inf"), Address("b")>>,
        {Url("m3u8", "a"), Url("m3u8", "b")})}

PlaysOf(platform_) ==
  CASE platform_ = "bilibili" -> BilibiliPlays
    [] platform_ = "douyu" -> DouyuPlays
    [] platform_ = "huya" -> HuyaPlays
    [] platform_ = "douyin" -> DouyinPlays
    [] platform_ = "twitch" -> TwitchPlays

Site(platform_, entries, state, play, renamed, alias, silent) ==
  [entries |-> entries, categories |-> MCCategories(platform_), state |-> state,
   play |-> play.play, good |-> play.good, renamed |-> renamed, alias |-> alias, silent |-> silent,
   paid |-> <<[start |-> 1, end |-> 0, keep |-> 2]>>]

(* A room and a listing are asked of the same platform but have nothing to *)
(* do with each other: one varies while the other is fixed.                *)
MCSites(platform_) ==
  {Site(platform_, entries, "live", CHOOSE play \in PlaysOf(platform_) : TRUE, FALSE, FALSE, {}) :
     entries \in MCListings}
  \union
  {Site(platform_, <<>>, state, play, renamed, alias, silent) :
     state \in {"live", "replay", "offline"}, play \in PlaysOf(platform_),
     renamed \in BOOLEAN, alias \in IF platform_ = "douyin" THEN BOOLEAN ELSE {FALSE},
     silent \in {{}, {"status"}} \union (IF platform_ = "huya" THEN {{"replay"}} ELSE {})}

(* Every platform, one that no extractor is for, and a Twitch URL with     *)
(* bilibili.com in its query.                                              *)
MCLinks == {{pf} : pf \in Platforms} \union {{}, {"bilibili", "twitch"}}

(* Two tasks that use the Bilibili extractor, three that use two Douyin    *)
(* extractors, and three connects of the Bilibili danmaku provider.        *)
MCUsers == {"u1", "u2"}
MCExtractorOf == [r \in {"r1", "r2", "r3"} |-> IF r = "r3" THEN "y" ELSE "x"]
MCConnects == {"c1", "c2", "c3"}
MCGivenCookies == {EmptyPurse, Purse("ann", NoDevice), Purse("bob", "own")}

-----------------------------------------------------------------------------
MCInit ==
  /\ part \in {"calls", "http", "session", "account", "ttwid"}
  /\ ExtractorInit
  /\ HttpInit(Empty) /\ SessionInit
  /\ AccountInit
  /\ TtwidInit

MCNext ==
  /\ UNCHANGED part
  /\ \/ /\ part = "calls" /\ ExtractorNext
        /\ UNCHANGED <<httpVars, sessionVars, accountVars, ttwidVars>>
     \/ /\ part = "http" /\ HttpNext
        /\ UNCHANGED <<extractorVars, sessionVars, accountVars, ttwidVars>>
     \/ /\ part = "session" /\ SessionNext
        /\ UNCHANGED <<extractorVars, accountVars, ttwidVars>>
     \/ /\ part = "account" /\ AccountNext
        /\ UNCHANGED <<extractorVars, httpVars, sessionVars, ttwidVars>>
     \/ /\ part = "ttwid" /\ TtwidNext
        /\ UNCHANGED <<extractorVars, httpVars, sessionVars, accountVars>>
=============================================================================
