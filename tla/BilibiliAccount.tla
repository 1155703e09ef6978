--------------------------- MODULE BilibiliAccount ---------------------------
(***************************************************************************)
(* What connect of the BilibiliDanmakuProvider does before it spawns the   *)
(* task (bilibili/danmaku.rs:768-842): the cookies a caller gives go into  *)
(* the one jar of the provider, and what the connection authenticates with *)
(* is read back from there after several awaits.  These requests are sent  *)
(* once, without a retry.                                                  *)
(***************************************************************************)
EXTENDS Naturals

CONSTANTS
  Connects,      (* calls of connect; the n-th                             *)
  GivenCookies,  (* the cookies a caller may give: an account, a buvid     *)
  NoAccount, NoDevice

ASSUME AccountAssumption ==
  \A cookies \in GivenCookies :
    cookies = [account |-> cookies.account, device |-> cookies.device]

VARIABLES
  purse,      (* the provider's jar: whose login, and whose buvid          *)
  phase,      (* per call: where it is                                     *)
  readCookies,(* per call: the jar as ensure_buvid read it                 *)
  given,      (* per call: the cookies its caller gave                     *)
  account,    (* per call: what the connection authenticates with          *)
  crowded     (* history, per call: another was under way meanwhile        *)

accountVars == <<purse, phase, readCookies, given, account, crowded>>

Purse(a, device) == [account |-> a, device |-> device]
EmptyPurse == Purse(NoAccount, NoDevice)

AccountInit ==
  /\ purse = EmptyPurse
  /\ phase = [n \in Connects |-> "before"]
  /\ readCookies = [n \in Connects |-> EmptyPurse]
  /\ given = [n \in Connects |-> EmptyPurse]
  /\ account = [n \in Connects |-> EmptyPurse]
  /\ crowded = [n \in Connects |-> FALSE]

Under(n) == phase[n] \notin {"before", "connected", "failed"}
Phase(n, next) == phase' = [phase EXCEPT ![n] = next]

Given(n) == given[n] # EmptyPurse

ConnectWith(n, cookies) ==
  LET others == {m \in Connects : Under(m)}
  IN  /\ phase[n] = "before"
      /\ given' = [given EXCEPT ![n] = cookies]
      /\ purse' = IF cookies # EmptyPurse THEN cookies ELSE purse
      /\ crowded' = [m \in Connects |-> crowded[m] \/ (others # {} /\ m \in others \union {n})]
      /\ Phase(n, "ensure")
      /\ UNCHANGED <<readCookies, account>>

(* ensure_buvid is called before the room is resolved and again before the *)
(* token is asked for.                                                     *)
AfterBuvid(p) == CASE p = "ensure" -> "resolve" [] p = "ensure_again" -> "info"
FetchBuvid(p) == CASE p = "ensure" -> "fetch" [] p = "ensure_again" -> "fetch_again"
Fetching(p) == CASE p = "fetch" -> "resolve" [] p = "fetch_again" -> "info"

EnsureBuvid(n) ==
  /\ phase[n] \in {"ensure", "ensure_again"}
  /\ readCookies' = [readCookies EXCEPT ![n] = purse]
  /\ Phase(n, IF purse.device # NoDevice THEN AfterBuvid(phase[n]) ELSE FetchBuvid(phase[n]))
  /\ UNCHANGED <<purse, given, account, crowded>>

(* Mutant: the login is lost over the buvid.                               *)
WithBuvidOnly(cookies, device) == Purse(NoAccount, device)

WithBuvid(cookies, device) == [cookies EXCEPT !.device = device]

(* The answer may lack a buvid.                                            *)
BuvidFetched(n) ==
  /\ phase[n] \in {"fetch", "fetch_again"}
  /\ \/ purse' = WithBuvid(readCookies[n], n)
     \/ UNCHANGED purse
  /\ Phase(n, Fetching(phase[n]))
  /\ UNCHANGED <<readCookies, given, account, crowded>>

(* A room given by its number needs no request.                            *)
RoomResolved(n) ==
  /\ phase[n] = "resolve"
  /\ Phase(n, "ensure_again")
  /\ UNCHANGED <<purse, readCookies, given, account, crowded>>

(* The token and the hosts are there: the account is read from the jar.    *)
InfoFetched(n) ==
  /\ phase[n] = "info"
  /\ account' = [account EXCEPT ![n] = purse]
  /\ Phase(n, "connected")
  /\ UNCHANGED <<purse, readCookies, given, crowded>>

(* A request fails, and connect with it.                                   *)
ConnectFails(n) ==
  /\ phase[n] \in {"fetch", "fetch_again", "resolve", "info"}
  /\ Phase(n, "failed")
  /\ UNCHANGED <<purse, readCookies, given, account, crowded>>

AccountNext ==
  \E n \in Connects : \/ \E cookies \in GivenCookies : ConnectWith(n, cookies)
                      \/ EnsureBuvid(n) \/ BuvidFetched(n) \/ RoomResolved(n)
                      \/ InfoFetched(n) \/ ConnectFails(n)

AccountSpec == AccountInit /\ [][AccountNext]_accountVars

-----------------------------------------------------------------------------
(* A connection authenticates with the cookies its caller gave unless      *)
(* another connect of the provider was under way at the same time, and     *)
(* never with an account that no caller gave (bilibili/danmaku.rs:770,     *)
(* 797).  A caller that gives none gets the account of a connect before    *)
(* it: see the hazards.                                                    *)
OwnAccount ==
  \A n \in Connects :
    phase[n] = "connected" =>
      /\ (Given(n) /\ ~crowded[n]) => account[n].account = given[n].account
      /\ account[n].account \in {given[m].account : m \in Connects} \union {NoAccount}

=============================================================================
