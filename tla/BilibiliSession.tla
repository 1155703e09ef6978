--------------------------- MODULE BilibiliSession ---------------------------
(***************************************************************************)
(* The session of a BilibiliExtractor (bilibili/extractor.rs): the device  *)
(* cookies buvid3 and buvid4, fetched before the first request, and the    *)
(* user's login, set at any time from another thread.  Both end up in the  *)
(* jar of the one HttpClient; buvid3, buvid4 and the jar each have a lock  *)
(* of their own, and nothing holds two of them.                            *)
(*                                                                         *)
(* Cookies are records: whose login, and which device's buvid3 and buvid4. *)
(***************************************************************************)
EXTENDS HttpClient, FiniteSets

CONSTANTS
  NoLogin, NoBuvid, Failed,  (* "" and "_failed"                           *)
  Logins,                    (* logins a user may set; some bring a buvid  *)
  Own,                       (* the buvid such a login brings              *)
  Bringing,                  (* those logins                               *)
  Outcomes,                  (* of Answers, enough for a session: it only  *)
                             (* tells a response from an error             *)
  MaxLogins, MaxCalls        (* bounds                                     *)

ASSUME SessionAssumption ==
  /\ Outcomes \subseteq Answers /\ Bringing \subseteq Logins
  /\ NoBuvid \notin Users \union {Own, Failed} /\ Failed \notin Users

VARIABLES
  buvid3, buvid4,
  step,        (* per user of the extractor: where its call is             *)
  existing,    (* per user: the jar as ensure_buvid read it                *)
  calls,       (* how many calls were made                                 *)
  setter,      (* set_cookies: where it is, and what it has read           *)
  login, set,  (* history: the login set last, and how many were           *)
  hurried,     (* history: two of them overlapped (see below)              *)
  missed       (* history: a fetch of buvids has failed                    *)

sessionVars == <<buvid3, buvid4, step, existing, calls, setter, login, set, hurried, missed>>

Cookies(l, b3, b4) == [login |-> l, buvid3 |-> b3, buvid4 |-> b4]
Bare(l) == IF l \in Bringing THEN Cookies(l, Own, Own) ELSE Cookies(l, NoBuvid, NoBuvid)

Empty == Cookies(NoLogin, NoBuvid, NoBuvid)
Idle == [at |-> "idle", login |-> NoLogin, buvid3 |-> NoBuvid, buvid4 |-> NoBuvid]

SessionInit ==
  /\ buvid3 = NoBuvid /\ buvid4 = NoBuvid
  /\ step = [u \in Users |-> "idle"]
  /\ existing = [u \in Users |-> Empty]
  /\ calls = 0 /\ setter = Idle /\ login = NoLogin /\ set = 0
  /\ hurried = FALSE /\ missed = FALSE

(* Who is between learning of new cookies and having put them in the jar.  *)
Storing(u) == step[u] \in {"store4", "read", "merge"}
Setting == setter.at # "idle"

Forget(u) == request' = [request EXCEPT ![u] = NoRequest]
Goto(u, next) == step' = [step EXCEPT ![u] = next]

-----------------------------------------------------------------------------
(* ensure_buvid and the request it is for.                                 *)
Call(u) ==
  /\ step[u] = "idle" /\ calls < MaxCalls
  /\ calls' = calls + 1
  /\ Goto(u, IF buvid3 = NoBuvid THEN "spi" ELSE "api")
  /\ Execute(u)
  /\ hurried' = (hurried \/ (buvid3 # NoBuvid /\ \E v \in Users : Storing(v)))
  /\ UNCHANGED <<jar, buvid3, buvid4, existing, setter, login, set, missed>>

(* No answer, one that cannot be read, or one without a buvid3: not tried  *)
(* again, unless another's fetch succeeds.                                 *)
SpiFailed(u) ==
  /\ step[u] = "spi" /\ Finished(u)
  /\ buvid3' = IF buvid3 = NoBuvid THEN Failed ELSE buvid3
  /\ missed' = TRUE
  /\ Forget(u)
  /\ Goto(u, "ask")
  /\ UNCHANGED <<jar, buvid4, existing, calls, setter, login, set, hurried>>

(* The platform gives every fetch buvids of its own, named for the user.   *)
SpiAnswered(u) ==
  /\ step[u] = "spi" /\ request[u].state = "response"
  /\ buvid3' = u
  /\ Forget(u)
  /\ Goto(u, "store4")
  /\ hurried' = (hurried \/ Setting \/ \E v \in Users : Storing(v))
  /\ UNCHANGED <<jar, buvid4, existing, calls, setter, login, set, missed>>

StoreBuvid4(u) ==
  /\ step[u] = "store4"
  /\ buvid4' = u
  /\ Goto(u, "read")
  /\ UNCHANGED <<httpVars, buvid3, existing, calls, setter, login, set, hurried, missed>>

ReadJar(u) ==
  /\ step[u] = "read"
  /\ IF jar.buvid3 = NoBuvid
     THEN existing' = [existing EXCEPT ![u] = jar] /\ Goto(u, "merge")
     ELSE UNCHANGED existing /\ Goto(u, "ask")
  /\ UNCHANGED <<httpVars, buvid3, buvid4, calls, setter, login, set, hurried, missed>>

(* Mutant: the buvids replace what is in the jar.                          *)
MergedAnew(u) == Cookies(NoLogin, u, u)

Merged(u) == Cookies(existing[u].login, u, u)

MergeJar(u) ==
  /\ step[u] = "merge"
  /\ jar' = Merged(u)
  /\ existing' = [existing EXCEPT ![u] = Empty]
  /\ Goto(u, "ask")
  /\ UNCHANGED <<request, buvid3, buvid4, calls, setter, login, set, hurried, missed>>

AskApi(u) ==
  /\ step[u] = "ask"
  /\ Execute(u)
  /\ Goto(u, "api")
  /\ UNCHANGED <<jar, buvid3, buvid4, existing, calls, setter, login, set, hurried, missed>>

Done(u) ==
  /\ step[u] = "api" /\ Finished(u)
  /\ Forget(u)
  /\ Goto(u, "idle")
  /\ UNCHANGED <<jar, buvid3, buvid4, existing, calls, setter, login, set, hurried, missed>>

-----------------------------------------------------------------------------
(* set_cookies: a login that has a buvid3 replaces the jar, for another    *)
(* the buvids are read first.                                              *)
SetCookies(l) ==
  /\ ~Setting /\ set < MaxLogins
  /\ set' = set + 1
  /\ login' = l
  /\ hurried' = (hurried \/ \E u \in Users : Storing(u))
  /\ IF l \in Bringing
     THEN jar' = Bare(l) /\ UNCHANGED setter
     ELSE setter' = [Idle EXCEPT !.at = "read4", !.login = l, !.buvid3 = buvid3] /\ UNCHANGED jar
  /\ UNCHANGED <<request, buvid3, buvid4, step, existing, calls, missed>>

SetReads4 ==
  /\ setter.at = "read4"
  /\ setter' = [setter EXCEPT !.at = "write", !.buvid4 = buvid4]
  /\ UNCHANGED <<httpVars, buvid3, buvid4, step, existing, calls, login, set, hurried, missed>>

SetWrites ==
  /\ setter.at = "write"
  /\ jar' = IF setter.buvid3 \in {NoBuvid, Failed} THEN Bare(setter.login)
            ELSE Cookies(setter.login, setter.buvid3, setter.buvid4)
  /\ setter' = Idle
  /\ UNCHANGED <<request, buvid3, buvid4, step, existing, calls, login, set, hurried, missed>>

SessionNext ==
  \/ \E u \in Users : \/ Call(u) \/ SpiFailed(u) \/ SpiAnswered(u) \/ StoreBuvid4(u)
                      \/ ReadJar(u) \/ MergeJar(u) \/ AskApi(u) \/ Done(u)
                      \/ HttpStep(u, Outcomes) /\ UNCHANGED sessionVars
  \/ \E l \in Logins : SetCookies(l)
  \/ SetReads4 \/ SetWrites

SessionSpec ==
  HttpInit(Empty) /\ SessionInit /\ [][SessionNext]_<<httpVars, sessionVars>>

-----------------------------------------------------------------------------
(* Unless two threads are in the middle of changing the cookies at once,   *)
(* or a request is made while one is, the jar has the login that was set   *)
(* last and a pair of buvids of one device, and a request is sent without  *)
(* a buvid only after a fetch has failed.  (They can: see the hazards.)    *)
(* The code takes seven locks one after the other for it                   *)
(* (bilibili/extractor.rs:142-218, 428-445).                               *)
SessionKept ==
  ~hurried =>
    /\ ~Setting => jar.login = login
    /\ jar.buvid3 = jar.buvid4
    /\ (buvid3 \notin {NoBuvid, Failed} /\ ~Setting /\ \A u \in Users : ~Storing(u)) =>
         jar.buvid3 # NoBuvid
    /\ \A u \in Users :
         (step[u] = "api" /\ request[u].cookies.buvid3 = NoBuvid) => missed

=============================================================================
