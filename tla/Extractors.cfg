\* Two-entry pages and listings of up to five entries, on every platform;
\* two users of a session with two calls and two logins, and its client with
\* every answer of the network; three connects; three requesters of two Douyin
\* extractors with two requests each.  Sessions end with their last call.
INIT MCInit
NEXT MCNext
CONSTANTS
  Missing = Missing
  NoPlatform = NoPlatform
  NoOp = NoOp
  NoSite = NoSite
  PageSize = 2
  Links <- MCLinks
  Sites <- MCSites
  Users <- MCUsers
  NoCookies = NoCookies
  Answers = {"success", "client_error", "not_implemented", "server_error", "timeout", "connect", "other"}
  NoLogin = NoLogin
  NoBuvid = NoBuvid
  Failed = Failed
  Logins = {"plain", "whole"}
  Own = "own"
  Bringing = {"whole"}
  Outcomes = {"success", "timeout"}
  MaxLogins = 2
  MaxCalls = 2
  Connects <- MCConnects
  GivenCookies <- MCGivenCookies
  NoAccount = NoAccount
  NoDevice = NoDevice
  Requesters = {"r1", "r2", "r3"}
  ExtractorOf <- MCExtractorOf
  NoTtwid = NoTtwid
  DEFAULT_TTWID = DEFAULT_TTWID
  NoAuth = NoAuth
  Auths = {"auth"}
  MaxRequests = 2
INVARIANTS
  PagesShowAll StatusIsTrue StreamsReachable
  RetrySchedule SessionKept OwnAccount OneTtwid
CHECK_DEADLOCK FALSE
