--------------------------- MODULE ExtractorProofs ---------------------------
(***************************************************************************)
(* Proofs about the extractor library: the retries of the HTTP client; the *)
(* sessions, for any number of users, logins, connects and extractors; and *)
(* the calls of an extractor, whatever the links and the sites, and pages  *)
(* of any size.                                                            *)
(***************************************************************************)
EXTENDS LiveExtractor, BilibiliSession, BilibiliAccount, DouyinSession,
        FiniteSetTheorems, SequenceTheorems, WellFoundedInduction, TLAPS

-----------------------------------------------------------------------------
(* Retries, of requests made with cookies of Jars.                         *)

RequestsWith(Jars) ==
  [state : {"none", "sent", "sleeping", "response", "error"}, attempt : 0..3, waited : Nat,
   last : Answers \union {"none"}, cookies : Jars]

Scheduled(r) ==
  \/ r.attempt = 0 /\ r.waited = 0
  \/ r.attempt = 1 /\ r.waited = 500
  \/ r.attempt = 2 /\ r.waited = 1500
  \/ r.attempt = 3 /\ r.waited = 3500

(* A request whose next attempt is due has attempts left.                  *)
Sound(r) ==
  /\ Scheduled(r)
  /\ r.state = "sleeping" => r.attempt # 3
  /\ r.state = "error" => r.last = "other" \/ (r.attempt = 3 /\ r.last \in Transient)
  /\ r.state = "response" => r.last \in {"success", "client_error", "not_implemented"}

RetryInv(Jars) ==
  /\ jar \in Jars
  /\ request \in [Users -> RequestsWith(Jars)]
  /\ \A u \in Users : Sound(request[u])

LEMMA NoRequestSound ==
  ASSUME NEW Jars, NoCookies \in Jars
  PROVE  /\ NoRequest \in RequestsWith(Jars) /\ Sound(NoRequest)
         /\ \A cookies \in Jars :
              /\ [NoRequest EXCEPT !.state = "sent", !.cookies = cookies] \in RequestsWith(Jars)
              /\ Sound([NoRequest EXCEPT !.state = "sent", !.cookies = cookies])
<1>1. NoRequest \in RequestsWith(Jars)
  BY DEF NoRequest, RequestsWith
<1>2. ASSUME NEW cookies \in Jars
      PROVE  /\ [NoRequest EXCEPT !.state = "sent", !.cookies = cookies] \in RequestsWith(Jars)
             /\ Sound([NoRequest EXCEPT !.state = "sent", !.cookies = cookies])
  <2> DEFINE r == [NoRequest EXCEPT !.state = "sent", !.cookies = cookies]
  <2>1. r \in RequestsWith(Jars)
    BY <1>1 DEF RequestsWith
  <2>2. r.state = "sent" /\ r.attempt = 0 /\ r.waited = 0
    BY <1>1 DEF NoRequest
  <2> HIDE DEF r
  <2> QED
    BY <2>1, <2>2 DEF Sound, Scheduled, r
<1>3. NoRequest.state = "none" /\ NoRequest.attempt = 0 /\ NoRequest.waited = 0
  BY DEF NoRequest
<1>4. Sound(NoRequest)
  BY <1>3 DEF Sound, Scheduled
<1> QED
  BY <1>1, <1>2, <1>4

LEMMA AfterIs ==
  ASSUME NEW r, NEW answer \in Answers
  PROVE  /\ answer = "other" => After(r, answer) = "error"
         /\ answer \in Transient => After(r, answer) = IF r.attempt < 3 THEN "sleeping" ELSE "error"
         /\ answer \notin Transient \union {"other"} => After(r, answer) = "response"
<1>1. "other" \notin Transient
  BY DEF Transient
<1> DEFINE T == answer \in Transient
           O == answer = "other"
<1>2. ~(T /\ O)
  BY <1>1
<1> HIDE DEF T, O
<1>3. After(r, answer) = CASE O -> "error"
                           [] T -> (IF r.attempt < DEFAULT_MAX_RETRIES THEN "sleeping" ELSE "error")
                           [] OTHER -> "response"
  BY DEF After, T, O
<1>4. /\ O => After(r, answer) = "error"
      /\ T => After(r, answer) = IF r.attempt < DEFAULT_MAX_RETRIES THEN "sleeping" ELSE "error"
      /\ ~T /\ ~O => After(r, answer) = "response"
  BY <1>2, <1>3, Zenon
<1> QED
  BY <1>4 DEF T, O, DEFAULT_MAX_RETRIES

LEMMA AnswerSound ==
  ASSUME NEW Jars, NEW r \in RequestsWith(Jars), Sound(r), NEW answer \in Answers
  PROVE  /\ [r EXCEPT !.state = After(r, answer), !.last = answer] \in RequestsWith(Jars)
         /\ Sound([r EXCEPT !.state = After(r, answer), !.last = answer])
<1> DEFINE s == [r EXCEPT !.state = After(r, answer), !.last = answer]
<1>1. /\ s.state = After(r, answer) /\ s.last = answer
      /\ s.attempt = r.attempt /\ s.waited = r.waited
  BY DEF RequestsWith
<1>2. After(r, answer) \in {"sleeping", "error", "response"} => s \in RequestsWith(Jars)
  <2> SUFFICES ASSUME NEW state \in {"sleeping", "error", "response"}
               PROVE  [r EXCEPT !.state = state, !.last = answer] \in RequestsWith(Jars)
    OBVIOUS
  <2> QED
    BY DEF RequestsWith
<1>3. answer \in {"success", "client_error", "not_implemented", "server_error",
                  "timeout", "connect", "other"}
  BY HttpAssumption
<1>4. r.attempt \in 0..3
  BY DEF RequestsWith
<1> HIDE DEF s
<1>5. CASE answer = "other"
  <2>1. After(r, answer) = "error"
    BY <1>5, AfterIs
  <2> QED
    BY <1>1, <1>2, <1>5, <2>1 DEF Sound, Scheduled, s
<1>6. CASE answer \in Transient
  <2>1. After(r, answer) = IF r.attempt < 3 THEN "sleeping" ELSE "error"
    BY <1>6, AfterIs
  <2>2. Sound(s)
    BY <1>1, <1>4, <1>6, <2>1 DEF Sound, Scheduled
  <2> QED
    BY <1>2, <2>1, <2>2 DEF s
<1>7. CASE answer \notin Transient \union {"other"}
  <2>1. After(r, answer) = "response"
    BY <1>7, AfterIs
  <2>2. answer \in {"success", "client_error", "not_implemented"}
    BY <1>3, <1>7 DEF Transient
  <2>3. Sound(s)
    BY <1>1, <2>1, <2>2 DEF Sound, Scheduled
  <2> QED
    BY <1>2, <2>1, <2>3 DEF s
<1> QED
  BY <1>5, <1>6, <1>7

(* The request a sleeping one becomes.                                     *)
Retried(r, cookies) ==
  [[r EXCEPT !.attempt = r.attempt + 1, !.waited = r.waited + Delay(r.attempt + 1)]
     EXCEPT !.state = "sent", !.cookies = cookies]

LEMMA AwakeSound ==
  ASSUME NEW Jars, NEW r \in RequestsWith(Jars), Sound(r), r.state = "sleeping", NEW cookies \in Jars
  PROVE  Retried(r, cookies) \in RequestsWith(Jars) /\ Sound(Retried(r, cookies))
<1>1. Delay(1) = 500 /\ Delay(2) = 1000 /\ Delay(3) = 2000
  BY DEF Delay, DEFAULT_RETRY_BASE_DELAY
<1>2. \/ r.attempt = 0 /\ r.waited = 0
      \/ r.attempt = 1 /\ r.waited = 500
      \/ r.attempt = 2 /\ r.waited = 1500
  BY DEF Sound, Scheduled
<1> DEFINE a == r.attempt + 1
           w == r.waited + Delay(r.attempt + 1)
<1>3. \/ a = 1 /\ w = 500
      \/ a = 2 /\ w = 1500
      \/ a = 3 /\ w = 3500
  BY <1>1, <1>2
<1>4. Retried(r, cookies) = [[r EXCEPT !.attempt = a, !.waited = w] EXCEPT !.state = "sent", !.cookies = cookies]
  BY DEF Retried
<1> HIDE DEF a, w
<1>5. a \in 0..3 /\ w \in Nat
  BY <1>3
<1> DEFINE q == [r EXCEPT !.attempt = a, !.waited = w]
<1>6. q \in RequestsWith(Jars) /\ q.attempt = a /\ q.waited = w
  BY <1>5 DEF RequestsWith
<1> HIDE DEF q
<1> DEFINE s == [q EXCEPT !.state = "sent", !.cookies = cookies]
<1>7. s \in RequestsWith(Jars) /\ s.state = "sent" /\ s.attempt = a /\ s.waited = w
  BY <1>6 DEF RequestsWith
<1> HIDE DEF s
<1>8. Sound(s)
  BY <1>3, <1>7 DEF Sound, Scheduled
<1> QED
  BY <1>4, <1>7, <1>8 DEF s, q

LEMMA HttpSteps ==
  ASSUME NEW Jars, NoCookies \in Jars, RetryInv(Jars), jar' \in Jars, NEW u \in Users,
         \/ Execute(u) \/ Forget(u) \/ HttpStep(u, Answers) \/ HttpStep(u, Outcomes)
         \/ UNCHANGED request
  PROVE  RetryInv(Jars)'
<1>1. ASSUME NEW r \in RequestsWith(Jars), Sound(r), request' = [request EXCEPT ![u] = r]
      PROVE  RetryInv(Jars)'
  BY <1>1 DEF RetryInv
<1>2. Execute(u) \/ Forget(u) => RetryInv(Jars)'
  BY <1>1, NoRequestSound DEF Execute, Forget, Send, RetryInv
<1>3. ASSUME NEW answer \in Answers, Answered(u, answer) PROVE RetryInv(Jars)'
  <2> DEFINE r == request[u]
  <2>1. request' = [request EXCEPT ![u] = [r EXCEPT !.state = After(r, answer), !.last = answer]]
    BY <1>3 DEF Answered, RetryInv
  <2>2. r \in RequestsWith(Jars) /\ Sound(r)
    BY DEF RetryInv
  <2> HIDE DEF r
  <2> QED
    BY <1>1, <2>1, <2>2, AnswerSound
<1>4. ASSUME Awake(u) PROVE RetryInv(Jars)'
  <2>1. request' = [request EXCEPT ![u] = Retried(request[u], jar)]
    BY <1>4 DEF Awake, Send, Retried
  <2>2. request[u] \in RequestsWith(Jars) /\ Sound(request[u]) /\ request[u].state = "sleeping" /\ jar \in Jars
    BY <1>4 DEF RetryInv, Awake
  <2> QED
    BY <1>1, <2>1, <2>2, AwakeSound
<1> QED
  BY <1>2, <1>3, <1>4, SessionAssumption DEF HttpStep, RetryInv

LEMMA RetryImplies ==
  ASSUME NEW Jars
  PROVE  RetryInv(Jars) => RetrySchedule
<1> SUFFICES ASSUME RetryInv(Jars), NEW u \in Users
             PROVE  LET r == request[u]
                    IN  /\ r.attempt <= 3
                        /\ r.waited = (<<0, 500, 1500, 3500>>)[r.attempt + 1]
                        /\ r.state = "error" => (r.last = "other" \/ (r.attempt = 3 /\ r.last \in Transient))
                        /\ r.state = "response" => r.last \in {"success", "client_error", "not_implemented"}
  BY DEF RetrySchedule
<1>1. Sound(request[u])
  BY DEF RetryInv
<1> QED
  BY <1>1 DEF Sound, Scheduled

(* A client retries on schedule, whatever the network does with each of the *)
(* attempts of its users' requests (http_client.rs:218-259).               *)
THEOREM RetriesFollowSchedule == HttpSpec => []RetrySchedule
<1> DEFINE Jars == {NoCookies}
<1>1. HttpInit(NoCookies) => RetryInv(Jars)
  BY NoRequestSound DEF HttpInit, RetryInv
<1>2. RetryInv(Jars) /\ [HttpNext]_httpVars => RetryInv(Jars)'
  <2> SUFFICES ASSUME RetryInv(Jars), [HttpNext]_httpVars PROVE RetryInv(Jars)'
    OBVIOUS
  <2>1. CASE UNCHANGED httpVars
    BY <2>1 DEF httpVars, RetryInv
  <2>2. CASE HttpNext
    <3>1. jar' = jar /\ jar' \in Jars
      BY <2>2 DEF HttpNext, HttpStep, Awake, Answered, RetryInv
    <3>2. NoCookies \in Jars
      OBVIOUS
    <3> HIDE DEF Jars
    <3> QED
      BY <2>2, <3>1, <3>2, HttpSteps DEF HttpNext
  <2> QED
    BY <2>1, <2>2
<1>3. RetryInv(Jars) => RetrySchedule
  BY RetryImplies
<1> QED
  BY <1>1, <1>2, <1>3, PTL DEF HttpSpec

-----------------------------------------------------------------------------
(* The session of a BilibiliExtractor.                                     *)

Buvids == Users \union {Own, NoBuvid, Failed}
LoginsSet == Logins \union {NoLogin}
CookieSet == [login : LoginsSet, buvid3 : Buvids, buvid4 : Buvids]
Setters == [at : {"idle", "read4", "write"}, login : LoginsSet, buvid3 : Buvids, buvid4 : Buvids]
SessionJars == {NoCookies} \union CookieSet

SessionTypes ==
  /\ jar \in CookieSet /\ buvid3 \in Buvids /\ buvid4 \in Buvids
  /\ step \in [Users -> {"idle", "spi", "store4", "read", "merge", "ask", "api"}]
  /\ existing \in [Users -> CookieSet]
  /\ setter \in Setters
  /\ login \in LoginsSet
  /\ hurried \in BOOLEAN /\ missed \in BOOLEAN
  /\ RetryInv(SessionJars)

LEMMA CookiesType ==
  /\ \A l \in LoginsSet, b3, b4 \in Buvids : Cookies(l, b3, b4) \in CookieSet
  /\ \A l \in LoginsSet : Bare(l) \in CookieSet
  /\ Empty \in CookieSet
BY DEF Cookies, CookieSet, Bare, Empty, Buvids, LoginsSet

LEMMA IdleType == Idle \in Setters
BY DEF Idle, Setters, Buvids, LoginsSet

LEMMA SessionTyped == SessionSpec => []SessionTypes
<1>1. HttpInit(Empty) /\ SessionInit => SessionTypes
  <2> SUFFICES ASSUME HttpInit(Empty), SessionInit PROVE SessionTypes
    OBVIOUS
  <2>1. RetryInv(SessionJars)
    <3>1. jar \in SessionJars /\ NoCookies \in SessionJars
      BY CookiesType DEF HttpInit, SessionJars
    <3> QED
      BY <3>1, NoRequestSound DEF HttpInit, RetryInv
  <2>2. jar \in CookieSet /\ existing \in [Users -> CookieSet]
    BY CookiesType DEF HttpInit, SessionInit
  <2> QED
    BY <2>1, <2>2, IdleType DEF SessionInit, SessionTypes, Buvids, LoginsSet
<1>2. SessionTypes /\ [SessionNext]_<<httpVars, sessionVars>> => SessionTypes'
  <2> SUFFICES ASSUME SessionTypes, [SessionNext]_<<httpVars, sessionVars>> PROVE SessionTypes'
    OBVIOUS
  <2> USE DEF SessionTypes
  <2>0. NoCookies \in SessionJars /\ RetryInv(SessionJars)
    BY DEF SessionJars
  <2>1. ASSUME jar' \in CookieSet, NEW u \in Users,
               \/ Execute(u) \/ Forget(u) \/ HttpStep(u, Answers) \/ HttpStep(u, Outcomes)
               \/ UNCHANGED request
        PROVE  RetryInv(SessionJars)'
    <3>1. jar' \in SessionJars
      BY <2>1 DEF SessionJars
    <3> HIDE DEF SessionTypes
    <3> QED
      BY <2>0, <2>1, <3>1, HttpSteps
  <2>2. ASSUME jar' \in CookieSet, request' = request PROVE RetryInv(SessionJars)'
    BY <2>2 DEF RetryInv, SessionJars
  <2>3. ASSUME NEW u \in Users, Call(u) PROVE SessionTypes'
    BY <2>1, <2>3 DEF Call, Goto
  <2>4. ASSUME NEW u \in Users, SpiFailed(u) PROVE SessionTypes'
    BY <2>1, <2>4 DEF SpiFailed, Goto, Buvids
  <2>5. ASSUME NEW u \in Users, SpiAnswered(u) PROVE SessionTypes'
    BY <2>1, <2>5 DEF SpiAnswered, Goto, Buvids
  <2>6. ASSUME NEW u \in Users, StoreBuvid4(u) PROVE SessionTypes'
    BY <2>2, <2>6 DEF StoreBuvid4, Goto, Buvids, httpVars
  <2>7. ASSUME NEW u \in Users, ReadJar(u) PROVE SessionTypes'
    BY <2>2, <2>7 DEF ReadJar, Goto, httpVars
  <2>8. ASSUME NEW u \in Users, MergeJar(u) PROVE SessionTypes'
    <3>1. jar' \in CookieSet
      <4>1. existing[u].login \in LoginsSet /\ u \in Buvids
        BY DEF CookieSet, Buvids
      <4> QED
        BY <2>8, <4>1, CookiesType DEF MergeJar, Merged
    <3> QED
      BY <2>2, <2>8, <3>1, CookiesType DEF MergeJar, Goto
  <2>9. ASSUME NEW u \in Users, AskApi(u) \/ Done(u) PROVE SessionTypes'
    BY <2>1, <2>9 DEF AskApi, Done, Goto
  <2>10. ASSUME NEW u \in Users, HttpStep(u, Outcomes), UNCHANGED sessionVars PROVE SessionTypes'
    <3>1. jar' = jar
      BY <2>10 DEF HttpStep, Awake, Answered
    <3> QED
      BY <2>1, <2>10, <3>1 DEF sessionVars
  <2>11. ASSUME NEW l \in Logins, SetCookies(l) PROVE SessionTypes'
    <3>1. l \in LoginsSet /\ Bare(l) \in CookieSet
      BY CookiesType DEF LoginsSet
    <3>2. jar' \in CookieSet /\ request' = request
      BY <2>11, <3>1 DEF SetCookies
    <3>3. [Idle EXCEPT !.at = "read4", !.login = l, !.buvid3 = buvid3] \in Setters
      BY <3>1, IdleType DEF Setters
    <3>4. setter' \in Setters
      BY <2>11, <3>3 DEF SetCookies
    <3> QED
      BY <2>2, <2>11, <3>1, <3>2, <3>4 DEF SetCookies
  <2>12. ASSUME SetReads4 PROVE SessionTypes'
    BY <2>2, <2>12 DEF SetReads4, httpVars, Setters
  <2>13. ASSUME SetWrites PROVE SessionTypes'
    <3>1. jar' \in CookieSet /\ request' = request
      BY <2>13, CookiesType DEF SetWrites, Setters
    <3> QED
      BY <2>2, <2>13, <3>1, IdleType DEF SetWrites
  <2>14. CASE UNCHANGED <<httpVars, sessionVars>>
    BY <2>2, <2>14 DEF httpVars, sessionVars
  <2> QED
    BY <2>3, <2>4, <2>5, <2>6, <2>7, <2>8, <2>9, <2>10, <2>11, <2>12, <2>13, <2>14 DEF SessionNext
<1> QED
  BY <1>1, <1>2, PTL DEF SessionSpec

(* The session's requests retry on schedule too, though its jar changes    *)
(* between their attempts.                                                 *)
THEOREM SessionRetriesFollowSchedule == SessionSpec => []RetrySchedule
<1>1. SessionTypes => RetrySchedule
  BY RetryImplies DEF SessionTypes
<1> QED
  BY <1>1, SessionTyped, PTL

Valid(b) == b \notin {NoBuvid, Failed}

(* While nobody hurries, one at most is at work on the cookies: who has    *)
(* fetched buvids, whose they then are, or who sets a login, which has     *)
(* read the buvids there are.                                              *)
AloneInv ==
  /\ \A u \in Users : Storing(u) => ~Setting /\ buvid3 = u
  /\ \A u \in Users : step[u] \in {"read", "merge"} => buvid4 = u
  /\ \A u \in Users : step[u] = "merge" => existing[u].login = jar.login
  /\ Setting => /\ setter.login = login
                /\ Valid(buvid3) \/ Valid(setter.buvid3) => setter.buvid3 = buvid3
  /\ setter.at = "write" /\ Valid(setter.buvid3) => setter.buvid4 = setter.buvid3

(* What the jar has meanwhile, and the requests that were sent.            *)
JarInv ==
  /\ ~Setting => jar.login = login
  /\ jar.buvid3 = jar.buvid4
  /\ (\A u \in Users : ~Storing(u)) /\ Valid(buvid3) => jar.buvid3 # NoBuvid /\ buvid4 = buvid3
  /\ \A u \in Users : step[u] \in {"ask", "api"} =>
       missed \/ (jar.buvid3 # NoBuvid /\ Valid(buvid3))
  /\ \A u \in Users : step[u] = "api" /\ request[u].cookies.buvid3 = NoBuvid => missed

SessionInv == (buvid3 = Failed => missed) /\ (~hurried => AloneInv /\ JarInv)

LEMMA SessionStep ==
  SessionTypes /\ SessionInv /\ [SessionNext]_<<httpVars, sessionVars>> => SessionInv'
<1> SUFFICES ASSUME SessionTypes, SessionInv, [SessionNext]_<<httpVars, sessionVars>>
             PROVE  SessionInv'
  OBVIOUS
<1>0. /\ NoBuvid # Failed /\ NoBuvid # Own
      /\ \A u \in Users : u # NoBuvid /\ u # Failed
      /\ \A l, b3, b4 : /\ Cookies(l, b3, b4).login = l
                        /\ Cookies(l, b3, b4).buvid3 = b3 /\ Cookies(l, b3, b4).buvid4 = b4
  BY SessionAssumption DEF Cookies
<1>1. request \in [Users -> RequestsWith(SessionJars)]
  BY DEF SessionTypes, RetryInv
<1>2. ASSUME NEW u \in Users, Execute(u)
      PROVE  /\ request'[u].cookies = jar
             /\ \A v \in Users \ {u} : request'[v] = request[v]
  BY <1>1, <1>2 DEF Execute, Send, NoRequest
<1>3. ASSUME NEW u \in Users, Forget(u) PROVE \A v \in Users \ {u} : request'[v] = request[v]
  BY <1>1, <1>3 DEF Forget
<1> USE DEF Valid, Storing, Setting
<1>4. ASSUME NEW u \in Users, Call(u) PROVE SessionInv'
  <2>1. buvid3' = Failed => missed'
    BY <1>4 DEF Call, SessionInv
  <2> SUFFICES ASSUME ~hurried' PROVE AloneInv' /\ JarInv'
    BY <2>1 DEF SessionInv
  <2>2. /\ AloneInv /\ JarInv /\ (buvid3 # NoBuvid => \A v \in Users : ~Storing(v))
        /\ (buvid3 = Failed => missed) /\ UNCHANGED <<jar, buvid3, buvid4, existing, setter, login, missed>>
    BY <1>4 DEF Call, SessionInv
  <2>3. step' = [step EXCEPT ![u] = IF buvid3 = NoBuvid THEN "spi" ELSE "api"] /\ step[u] = "idle"
    BY <1>4 DEF Call, Goto
  <2>4. /\ request'[u].cookies = jar
        /\ \A v \in Users \ {u} : request'[v] = request[v]
    BY <1>2, <1>4 DEF Call
  <2>5. AloneInv'
    BY <2>2, <2>3 DEF SessionTypes, AloneInv
  <2> QED
    BY <1>0, <2>2, <2>3, <2>4, <2>5 DEF SessionTypes, JarInv
<1>5. ASSUME NEW u \in Users, SpiFailed(u) PROVE SessionInv'
  BY <1>0, <1>3, <1>5 DEF SessionTypes, SessionInv, AloneInv, JarInv, SpiFailed, Goto
<1>6. ASSUME NEW u \in Users, SpiAnswered(u) PROVE SessionInv'
  <2>1. buvid3' # Failed
    BY <1>0, <1>6 DEF SpiAnswered
  <2> SUFFICES ASSUME ~hurried' PROVE AloneInv' /\ JarInv'
    BY <2>1 DEF SessionInv
  <2>2. /\ AloneInv /\ JarInv /\ ~Setting /\ \A v \in Users : ~Storing(v)
        /\ buvid3' = u /\ UNCHANGED <<jar, buvid4, existing, setter, login, missed>>
    BY <1>6 DEF SpiAnswered, SessionInv
  <2>3. step' = [step EXCEPT ![u] = "store4"]
    BY <1>6 DEF SpiAnswered, Goto
  <2>4. \A v \in Users \ {u} : request'[v] = request[v]
    BY <1>3, <1>6 DEF SpiAnswered
  <2>5. AloneInv'
    BY <2>2, <2>3 DEF SessionTypes, AloneInv
  <2> QED
    BY <1>0, <2>2, <2>3, <2>4, <2>5 DEF SessionTypes, JarInv
<1>7. ASSUME NEW u \in Users, StoreBuvid4(u) PROVE SessionInv'
  BY <1>0, <1>7 DEF SessionTypes, SessionInv, AloneInv, JarInv, StoreBuvid4, Goto, httpVars
<1>8. ASSUME NEW u \in Users, ReadJar(u) PROVE SessionInv'
  BY <1>0, <1>8 DEF SessionTypes, SessionInv, AloneInv, JarInv, ReadJar, Goto, httpVars
<1>9. ASSUME NEW u \in Users, MergeJar(u) PROVE SessionInv'
  BY <1>0, <1>9 DEF SessionTypes, SessionInv, AloneInv, JarInv, MergeJar, Merged, Goto
<1>10. ASSUME NEW u \in Users, AskApi(u) PROVE SessionInv'
  BY <1>0, <1>2, <1>10 DEF SessionTypes, SessionInv, AloneInv, JarInv, AskApi, Goto
<1>11. ASSUME NEW u \in Users, Done(u) PROVE SessionInv'
  BY <1>0, <1>3, <1>11 DEF SessionTypes, SessionInv, AloneInv, JarInv, Done, Goto
<1>12. ASSUME NEW u \in Users, HttpStep(u, Outcomes), UNCHANGED sessionVars PROVE SessionInv'
  <2>1. jar' = jar /\ \A v \in Users \ {u} : request'[v] = request[v]
    BY <1>1, <1>12 DEF HttpStep, Awake, Answered
  <2>2. request'[u].cookies = request[u].cookies \/ request'[u].cookies = jar
    BY <1>1, <1>12, ZenonT(40) DEF HttpStep, Awake, Answered, Send, RequestsWith
  <2> QED
    BY <1>0, <1>12, <2>1, <2>2 DEF SessionTypes, SessionInv, AloneInv, JarInv, sessionVars
<1>13. ASSUME NEW l \in Logins, SetCookies(l) PROVE SessionInv'
  <2>1. buvid3' = Failed => missed'
    BY <1>13 DEF SetCookies, SessionInv
  <2> SUFFICES ASSUME ~hurried' PROVE AloneInv' /\ JarInv'
    BY <2>1 DEF SessionInv
  <2>2. /\ AloneInv /\ JarInv /\ ~Setting /\ \A v \in Users : ~Storing(v)
        /\ login' = l /\ UNCHANGED <<request, buvid3, buvid4, step, existing, missed>>
    BY <1>13 DEF SetCookies, SessionInv
  <2>3. CASE l \in Bringing
    <3>1. jar' = Cookies(l, Own, Own) /\ setter' = setter
      BY <1>13, <2>3 DEF SetCookies, Bare
    <3> QED
      BY <1>0, <2>2, <3>1 DEF SessionTypes, AloneInv, JarInv
  <2>4. CASE l \notin Bringing
    <3>1. jar' = jar /\ setter' = [Idle EXCEPT !.at = "read4", !.login = l, !.buvid3 = buvid3]
      BY <1>13, <2>4 DEF SetCookies
    <3>2. setter'.at = "read4" /\ setter'.login = l /\ setter'.buvid3 = buvid3
      BY <3>1 DEF Idle
    <3> QED
      BY <1>0, <2>2, <3>1, <3>2 DEF SessionTypes, AloneInv, JarInv
  <2> QED
    BY <2>3, <2>4
<1>14. ASSUME SetReads4 PROVE SessionInv'
  BY <1>0, <1>14 DEF SessionTypes, SessionInv, AloneInv, JarInv, SetReads4, httpVars
<1>15. ASSUME SetWrites PROVE SessionInv'
  BY <1>0, <1>15 DEF SessionTypes, SessionInv, AloneInv, JarInv, SetWrites, Bare, Idle
<1>16. CASE UNCHANGED <<httpVars, sessionVars>>
  BY <1>16 DEF SessionInv, AloneInv, JarInv, httpVars, sessionVars
<1> QED
  BY <1>4, <1>5, <1>6, <1>7, <1>8, <1>9, <1>10, <1>11, <1>12, <1>13, <1>14, <1>15, <1>16 DEF SessionNext

(* Unless two threads are in the middle of changing the cookies at once, or *)
(* a request is made while one is, the jar keeps the login set last and a  *)
(* pair of buvids of one device (bilibili/extractor.rs:142-218, 428-445).  *)
THEOREM SessionIsKept == SessionSpec => []SessionKept
<1>1. HttpInit(Empty) /\ SessionInit => SessionInv
  BY SessionAssumption DEF HttpInit, SessionInit, SessionInv, AloneInv, JarInv, Valid, Storing, Setting, Idle,
     Empty, Cookies
<1>2. SessionInv => SessionKept
  BY DEF SessionInv, JarInv, SessionKept, Valid
<1> QED
  BY <1>1, <1>2, SessionStep, SessionTyped, PTL DEF SessionSpec

-----------------------------------------------------------------------------
(* The account a connection of the BilibiliDanmakuProvider authenticates    *)
(* with.                                                                   *)

IsPurse(c) == c = [account |-> c.account, device |-> c.device]

Accounts == {given[m].account : m \in Connects} \union {NoAccount}

AccountTypes ==
  /\ IsPurse(purse)
  /\ phase = [n \in Connects |-> phase[n]]
  /\ readCookies = [n \in Connects |-> readCookies[n]] /\ \A n \in Connects : IsPurse(readCookies[n])
  /\ given = [n \in Connects |-> given[n]]
  /\ account = [n \in Connects |-> account[n]]
  /\ crowded \in [Connects -> BOOLEAN]

(* A connect that is alone finds the cookies it was given in the jar, and   *)
(* in what it has read from there.                                         *)
Reading(n) == phase[n] \in {"fetch", "fetch_again"}

AccountInv ==
  /\ purse.account \in Accounts
  /\ \A n \in Connects :
       /\ phase[n] = "before" => given[n] = EmptyPurse
       /\ readCookies[n].account \in Accounts /\ account[n].account \in Accounts
       /\ \A m \in Connects \ {n} : Under(n) /\ Under(m) => crowded[n]
       /\ Under(n) /\ Given(n) /\ ~crowded[n] =>
            /\ purse.account = given[n].account
            /\ Reading(n) => readCookies[n].account = given[n].account
       /\ phase[n] = "connected" /\ Given(n) /\ ~crowded[n] => account[n].account = given[n].account

LEMMA AccountStep == AccountTypes /\ AccountInv /\ [AccountNext]_accountVars => AccountTypes' /\ AccountInv'
<1> SUFFICES ASSUME AccountTypes, AccountInv, [AccountNext]_accountVars
             PROVE  AccountTypes' /\ AccountInv'
  OBVIOUS
<1>1. ASSUME given' = given PROVE Accounts' = Accounts
  BY <1>1 DEF Accounts
<1>2. ASSUME NEW n \in Connects, NEW cookies \in GivenCookies, ConnectWith(n, cookies)
      PROVE  AccountTypes' /\ AccountInv'
  <2> DEFINE others == {m \in Connects : Under(m)}
  <2>1. /\ phase[n] = "before" /\ given[n] = EmptyPurse /\ ~Under(n)
        /\ given' = [given EXCEPT ![n] = cookies]
        /\ phase' = [phase EXCEPT ![n] = "ensure"]
        /\ purse' = IF cookies # EmptyPurse THEN cookies ELSE purse
        /\ crowded' = [m \in Connects |-> crowded[m] \/ (others # {} /\ m \in others \union {n})]
        /\ readCookies' = readCookies /\ account' = account
    BY <1>2 DEF ConnectWith, Phase, Under, AccountInv
  <2>2. AccountTypes'
    <3>1. IsPurse(cookies)
      BY AccountAssumption DEF IsPurse
    <3>2. crowded' \in [Connects -> BOOLEAN]
      BY <2>1, Zenon DEF AccountTypes
    <3> HIDE DEF others
    <3> QED
      BY <2>1, <3>1, <3>2 DEF AccountTypes, IsPurse
  <2>3. EmptyPurse.account = NoAccount
    BY DEF EmptyPurse, Purse
  <2>4. /\ given'[n] = cookies /\ phase'[n] = "ensure"
        /\ \A m \in Connects \ {n} : given'[m] = given[m] /\ phase'[m] = phase[m]
    BY <2>1 DEF AccountTypes
  <2>5. Accounts \subseteq Accounts'
    BY <2>1, <2>3, <2>4 DEF Accounts
  <2>6. purse'.account \in Accounts'
    BY <2>1, <2>4, <2>5 DEF Accounts, AccountInv
  <2>7. /\ \A m \in Connects : crowded[m] => crowded'[m]
        /\ \A m \in Connects \ {n} : Under(m) => crowded'[m] /\ crowded'[n]
    BY <2>1 DEF AccountTypes
  <2> HIDE DEF others
  <2>8. /\ Under(n)' /\ \A m \in Connects \ {n} : Under(m)' <=> Under(m)
    BY <2>4 DEF Under
  <2>9. ASSUME NEW m \in Connects
        PROVE  /\ phase'[m] = "before" => given'[m] = EmptyPurse
               /\ readCookies'[m].account \in Accounts' /\ account'[m].account \in Accounts'
               /\ \A o \in Connects \ {m} : Under(m)' /\ Under(o)' => crowded'[m]
    BY <2>1, <2>4, <2>5, <2>7, <2>8 DEF AccountInv
  <2>10. ASSUME NEW m \in Connects, Given(m)', ~crowded'[m]
         PROVE  /\ Under(m)' =>
                     /\ purse'.account = given'[m].account
                     /\ Reading(m)' => readCookies'[m].account = given'[m].account
                /\ phase'[m] = "connected" => account'[m].account = given'[m].account
    <3>1. CASE m = n
      BY <2>1, <2>4, <2>10, <3>1 DEF Given, Reading
    <3>2. CASE m # n
      BY <2>1, <2>4, <2>7, <2>8, <2>10, <3>2 DEF AccountInv, Given
    <3> QED
      BY <3>1, <3>2
  <2>11. AccountInv'
    BY <2>6, <2>9, <2>10 DEF AccountInv
  <2> QED
    BY <2>2, <2>11
<1>3. ASSUME NEW n \in Connects, EnsureBuvid(n) PROVE AccountTypes' /\ AccountInv'
  <2>1. /\ Under(n) /\ given' = given /\ purse' = purse /\ crowded' = crowded /\ account' = account
        /\ readCookies' = [readCookies EXCEPT ![n] = purse]
        /\ \E next : phase' = [phase EXCEPT ![n] = next]
                     /\ next \notin {"before", "connected", "failed"}
    <3>1. \A p \in {"ensure", "ensure_again"} :
            /\ AfterBuvid(p) \in {"resolve", "info"} /\ FetchBuvid(p) \in {"fetch", "fetch_again"}
      BY DEF AfterBuvid, FetchBuvid
    <3> QED
      BY <1>3, <3>1 DEF EnsureBuvid, Phase, Under
  <2>2. AccountTypes'
    BY <2>1 DEF AccountTypes
  <2> QED
    BY <1>1, <2>1, <2>2 DEF AccountTypes, AccountInv, Under, Given, Reading
<1>4. ASSUME NEW n \in Connects, BuvidFetched(n) PROVE AccountTypes' /\ AccountInv'
  <2>1. /\ Under(n) /\ Reading(n) /\ given' = given /\ readCookies' = readCookies
        /\ crowded' = crowded /\ account' = account
        /\ \E next \in {"resolve", "info"} : phase' = [phase EXCEPT ![n] = next]
    <3>1. \A p \in {"fetch", "fetch_again"} : Fetching(p) \in {"resolve", "info"}
      BY DEF Fetching
    <3> QED
      BY <1>4, <3>1 DEF BuvidFetched, Phase, Under, Reading
  <2>2. IsPurse(purse') /\ (purse' = purse \/ purse'.account = readCookies[n].account)
    BY <1>4 DEF BuvidFetched, WithBuvid, AccountTypes, IsPurse
  <2>3. AccountTypes'
    BY <2>1, <2>2 DEF AccountTypes
  <2> QED
    BY <1>1, <2>1, <2>2, <2>3 DEF AccountTypes, AccountInv, Under, Given, Reading
<1>5. ASSUME NEW n \in Connects, RoomResolved(n) \/ ConnectFails(n) PROVE AccountTypes' /\ AccountInv'
  <2>1. /\ Under(n) /\ UNCHANGED <<given, readCookies, crowded, account, purse>>
        /\ \E next \in {"ensure_again", "failed"} : phase' = [phase EXCEPT ![n] = next]
    BY <1>5 DEF RoomResolved, ConnectFails, Phase, Under
  <2>2. AccountTypes'
    BY <2>1 DEF AccountTypes
  <2> QED
    BY <1>1, <2>1, <2>2 DEF AccountTypes, AccountInv, Under, Given, Reading
<1>6. ASSUME NEW n \in Connects, InfoFetched(n) PROVE AccountTypes' /\ AccountInv'
  <2>1. /\ Under(n) /\ UNCHANGED <<given, readCookies, crowded, purse>>
        /\ account' = [account EXCEPT ![n] = purse]
        /\ phase' = [phase EXCEPT ![n] = "connected"]
    BY <1>6 DEF InfoFetched, Phase, Under
  <2>2. AccountTypes'
    BY <2>1 DEF AccountTypes
  <2> QED
    BY <1>1, <2>1, <2>2 DEF AccountTypes, AccountInv, Under, Given, Reading
<1>7. CASE UNCHANGED accountVars
  BY <1>1, <1>7 DEF accountVars, AccountTypes, AccountInv, Under, Given, Reading
<1> QED
  BY <1>2, <1>3, <1>4, <1>5, <1>6, <1>7 DEF AccountNext

(* A connection authenticates with the cookies its caller gave unless       *)
(* another connect was under way, and never with an account that no caller *)
(* gave (bilibili/danmaku.rs:768-842).                                     *)
THEOREM AccountIsOwn == AccountSpec => []OwnAccount
<1>1. AccountInit => AccountTypes /\ AccountInv
  BY DEF AccountInit, AccountTypes, AccountInv, IsPurse, EmptyPurse, Purse, Accounts, Under, Given
<1>2. AccountInv => OwnAccount
  BY DEF AccountInv, OwnAccount, Accounts
<1> QED
  BY <1>1, <1>2, AccountStep, PTL DEF AccountSpec

-----------------------------------------------------------------------------
(* The ttwid of the Douyin extractors.                                     *)

Of(x) == {r \in Requesters : ExtractorOf[r] = x}

TtwidTypes ==
  /\ cell = [x \in Extractors |-> cell[x]]
  /\ auth = [x \in Extractors |-> auth[x]]
  /\ cookie = [x \in Extractors |-> cookie[x]]
  /\ doing \in [Requesters -> {"idle", "fetching", "storing", "filling", "headers", "cookie", "send"}]
  /\ fetched = [r \in Requesters |-> fetched[r]]
  /\ headers = [r \in Requesters |-> headers[r]]
  /\ made = [x \in Extractors |-> made[x]]
  /\ sent = [x \in Extractors |-> sent[x]]

(* One task of an extractor fills its cell, once; the jar and its requests *)
(* have what is in the cell or nothing, and once a request to the API was  *)
(* sent, the jar has it.                                                   *)
CellInv ==
  /\ \A r \in Requesters :
       /\ Initializing(r) => cell[ExtractorOf[r]] = NoTtwid
       /\ doing[r] \in {"storing", "filling"} => fetched[r] # NoTtwid
       /\ doing[r] \in {"headers", "cookie", "send"} => cell[ExtractorOf[r]] # NoTtwid
       /\ doing[r] = "cookie" => headers[r].ttwid = cell[ExtractorOf[r]]
       /\ doing[r] = "send" => cookie[ExtractorOf[r]].ttwid = cell[ExtractorOf[r]]
  /\ \A r, o \in Requesters :
       ExtractorOf[r] = ExtractorOf[o] /\ Initializing(r) /\ Initializing(o) => r = o
  /\ \A x \in Extractors :
       /\ cookie[x].ttwid \in {NoTtwid, cell[x]}
       /\ \A req \in sent[x] :
            /\ req.ttwid \in {NoTtwid, cell[x]}
            /\ req.ttwid = NoTtwid => req.kind = "reflow"
            /\ req.kind = "api" => cookie[x].ttwid = req.ttwid

(* Without a race, one task fetches the global ttwid; before, no cell is    *)
(* filled, and after, all are with it.                                     *)
GlobalInv ==
  ~raced =>
    /\ globalTtwid = NoTtwid =>
         /\ \A x \in Extractors : cell[x] = NoTtwid
         /\ \A r \in Requesters : doing[r] # "filling"
         /\ \A r, o \in Requesters : Initializing(r) /\ Initializing(o) => r = o
    /\ globalTtwid # NoTtwid =>
         /\ \A x \in Extractors : cell[x] \in {NoTtwid, globalTtwid}
         /\ \A r \in Requesters :
              /\ doing[r] \notin {"fetching", "storing"}
              /\ doing[r] = "filling" => fetched[r] = globalTtwid

LEMMA TtwidStep ==
  TtwidTypes /\ CellInv /\ GlobalInv /\ [TtwidNext]_ttwidVars => TtwidTypes' /\ CellInv' /\ GlobalInv'
<1> SUFFICES ASSUME TtwidTypes, CellInv, GlobalInv, [TtwidNext]_ttwidVars
             PROVE  TtwidTypes' /\ CellInv' /\ GlobalInv'
  OBVIOUS
<1>0. NoTtwid # DEFAULT_TTWID /\ \A r \in Requesters : r # NoTtwid /\ ExtractorOf[r] \in Extractors
  BY TtwidAssumption DEF Extractors
<1> USE DEF Proceed, Initializing
<1>1. ASSUME NEW r \in Requesters, EnsureTtwid(r) PROVE TtwidTypes' /\ CellInv' /\ GlobalInv'
  <2>1. TtwidTypes'
    BY <1>1 DEF EnsureTtwid, TtwidTypes
  <2>2. CellInv'
    BY <1>0, <1>1, SMTT(30) DEF EnsureTtwid, TtwidTypes, CellInv
  <2>3. GlobalInv'
    <3> SUFFICES ASSUME ~raced' PROVE GlobalInv'
      BY DEF GlobalInv
    <3>1. CASE cell[ExtractorOf[r]] # NoTtwid
      BY <1>0, <1>1, <3>1 DEF EnsureTtwid, TtwidTypes, GlobalInv
    <3>2. CASE cell[ExtractorOf[r]] = NoTtwid
      <4>1. /\ doing' = [doing EXCEPT ![r] = IF globalTtwid = NoTtwid THEN "fetching" ELSE "filling"]
            /\ fetched' = [fetched EXCEPT ![r] = globalTtwid]
            /\ ~raced /\ (globalTtwid = NoTtwid => \A o \in Requesters : ~Initializing(o))
            /\ globalTtwid' = globalTtwid /\ cell' = cell
        BY <1>1, <3>2 DEF EnsureTtwid
      <4>2. CASE globalTtwid = NoTtwid
        BY <4>1, <4>2 DEF TtwidTypes, GlobalInv
      <4>3. CASE globalTtwid # NoTtwid
        BY <4>1, <4>3 DEF TtwidTypes, GlobalInv
      <4> QED
        BY <4>2, <4>3
    <3> QED
      BY <3>1, <3>2
  <2> QED
    BY <2>1, <2>2, <2>3
<1>2. ASSUME NEW r \in Requesters, Fetched(r) PROVE TtwidTypes' /\ CellInv' /\ GlobalInv'
  <2>1. PICK ttwid : ttwid # NoTtwid /\ fetched' = [fetched EXCEPT ![r] = ttwid]
    BY <1>0, <1>2 DEF Fetched
  <2>2. TtwidTypes'
    BY <1>2, <2>1 DEF Fetched, TtwidTypes
  <2>3. CellInv'
    BY <1>2, <2>1 DEF Fetched, TtwidTypes, CellInv
  <2>4. GlobalInv'
    BY <1>2 DEF Fetched, TtwidTypes, GlobalInv
  <2> QED
    BY <2>2, <2>3, <2>4
<1>3. ASSUME NEW r \in Requesters, Dropped(r) PROVE TtwidTypes' /\ CellInv' /\ GlobalInv'
  BY <1>0, <1>3 DEF Dropped, TtwidTypes, CellInv, GlobalInv
<1>4. ASSUME NEW r \in Requesters, StoreGlobal(r) PROVE TtwidTypes' /\ CellInv' /\ GlobalInv'
  BY <1>0, <1>4 DEF StoreGlobal, TtwidTypes, CellInv, GlobalInv
<1>5. ASSUME NEW r \in Requesters, FillCell(r) PROVE TtwidTypes' /\ CellInv' /\ GlobalInv'
  <2>1. TtwidTypes'
    BY <1>5 DEF FillCell, TtwidTypes
  <2>2. CellInv'
    BY <1>0, <1>5 DEF FillCell, TtwidTypes, CellInv
  <2>3. GlobalInv'
    BY <1>0, <1>5 DEF FillCell, TtwidTypes, CellInv, GlobalInv
  <2> QED
    BY <2>1, <2>2, <2>3
<1>6. ASSUME NEW r \in Requesters, CloneAuth(r) PROVE TtwidTypes' /\ CellInv' /\ GlobalInv'
  <2>1. TtwidTypes'
    BY <1>6 DEF CloneAuth, TtwidTypes
  <2>2. headers'[r].ttwid = cell[ExtractorOf[r]] /\ \A o \in Requesters \ {r} : headers'[o] = headers[o]
    BY <1>6 DEF CloneAuth, TtwidOf, TtwidTypes
  <2>3. CellInv'
    BY <1>0, <1>6, <2>2 DEF CloneAuth, TtwidTypes, CellInv
  <2>4. GlobalInv'
    BY <1>6 DEF CloneAuth, TtwidTypes, GlobalInv
  <2> QED
    BY <2>1, <2>3, <2>4
<1>7. ASSUME NEW r \in Requesters, PutCookie(r) PROVE TtwidTypes' /\ CellInv' /\ GlobalInv'
  <2>1. TtwidTypes'
    BY <1>7 DEF PutCookie, TtwidTypes
  <2>2. CellInv'
    BY <1>0, <1>7 DEF PutCookie, TtwidTypes, CellInv
  <2>3. GlobalInv'
    BY <1>0, <1>7 DEF PutCookie, TtwidTypes, CellInv, GlobalInv
  <2> QED
    BY <2>1, <2>2, <2>3
<1>8. ASSUME NEW r \in Requesters, SendWithCookie(r) \/ SendSearch(r) \/ SendReflow(r)
      PROVE  TtwidTypes' /\ CellInv' /\ GlobalInv'
  <2>1. PICK kind, ttwid :
          /\ Sends(ExtractorOf[r], kind, ttwid)
          /\ ttwid \in {NoTtwid, cell[ExtractorOf[r]]}
          /\ ttwid = NoTtwid => kind = "reflow"
          /\ kind = "api" => cookie[ExtractorOf[r]].ttwid = ttwid
    <3>1. CASE SendWithCookie(r)
      <4>1. Sends(ExtractorOf[r], "api", cookie[ExtractorOf[r]].ttwid) /\ doing[r] = "send"
        BY <3>1 DEF SendWithCookie
      <4>2. cookie[ExtractorOf[r]].ttwid = cell[ExtractorOf[r]] /\ cell[ExtractorOf[r]] # NoTtwid
        BY <4>1 DEF CellInv
      <4> QED
        BY <4>1, <4>2
    <3>2. CASE SendSearch(r)
      <4>1. Sends(ExtractorOf[r], "search", cell[ExtractorOf[r]]) /\ doing[r] = "headers"
        BY <3>2 DEF SendSearch, TtwidOf
      <4>2. cell[ExtractorOf[r]] # NoTtwid
        BY <4>1 DEF CellInv
      <4> QED
        BY <4>1, <4>2
    <3>3. CASE SendReflow(r)
      <4>1. Sends(ExtractorOf[r], "reflow", cookie[ExtractorOf[r]].ttwid)
        BY <3>3 DEF SendReflow
      <4>2. cookie[ExtractorOf[r]].ttwid \in {NoTtwid, cell[ExtractorOf[r]]}
        BY <1>0 DEF CellInv
      <4> QED
        BY <4>1, <4>2
    <3> QED
      BY <1>8, <3>1, <3>2, <3>3
  <2>2. /\ UNCHANGED <<globalTtwid, cell, auth, cookie, fetched, headers, raced>>
        /\ doing' = doing \/ doing' = [doing EXCEPT ![r] = "idle"]
    BY <1>8 DEF SendWithCookie, SendSearch, SendReflow
  <2>3. sent' = [sent EXCEPT ![ExtractorOf[r]] = @ \union {[kind |-> kind, ttwid |-> ttwid]}]
        /\ made' = [made EXCEPT ![ExtractorOf[r]] = @ + 1]
    BY <2>1 DEF Sends
  <2>4. TtwidTypes'
    BY <2>2, <2>3 DEF TtwidTypes
  <2>5. \A x \in Extractors : \A req \in sent'[x] :
          req \in sent[x] \/ (x = ExtractorOf[r] /\ req = [kind |-> kind, ttwid |-> ttwid])
    BY <2>3 DEF TtwidTypes
  <2>6. CellInv'
    BY <1>0, <2>1, <2>2, <2>5 DEF TtwidTypes, CellInv
  <2>7. GlobalInv'
    BY <1>0, <2>2 DEF TtwidTypes, GlobalInv
  <2> QED
    BY <2>4, <2>6, <2>7
<1>9. ASSUME NEW x \in Extractors, NEW a \in Auths, SetAuth(x, a)
      PROVE  TtwidTypes' /\ CellInv' /\ GlobalInv'
  <2>1. TtwidTypes'
    BY <1>9 DEF SetAuth, TtwidTypes
  <2>2. CellInv'
    BY <1>9 DEF SetAuth, CellInv
  <2>3. GlobalInv'
    BY <1>9 DEF SetAuth, GlobalInv
  <2> QED
    BY <2>1, <2>2, <2>3
<1>10. CASE UNCHANGED ttwidVars
  BY <1>10 DEF ttwidVars, TtwidTypes, CellInv, GlobalInv
<1> QED
  BY <1>1, <1>2, <1>3, <1>4, <1>5, <1>6, <1>7, <1>8, <1>9, <1>10 DEF TtwidNext

LEMMA AtMostOne ==
  ASSUME NEW S, NEW e, S \subseteq {e}
  PROVE  Cardinality(S) <= 1
<1>1. S = {} \/ S = {e}
  OBVIOUS
<1>2. Cardinality({}) = 0 /\ Cardinality({e}) = 1
  BY FS_EmptySet, FS_Singleton
<1> QED
  BY <1>1, <1>2

(* For any tasks and extractors: the requests of an extractor carry one    *)
(* ttwid, but that one for a reflow page may have none before the first to *)
(* the API; and all extractors share it unless one was fetched while       *)
(* another was (douyin/utils.rs:145-162, douyin/extractor.rs:138-203).     *)
THEOREM TtwidIsOne == TtwidSpec => []OneTtwid
<1>1. TtwidInit => TtwidTypes /\ CellInv /\ GlobalInv
  <2> SUFFICES ASSUME TtwidInit PROVE TtwidTypes /\ CellInv /\ GlobalInv
    OBVIOUS
  <2>0. \A r \in Requesters : ExtractorOf[r] \in Extractors
    BY DEF Extractors
  <2>1. TtwidTypes
    BY DEF TtwidInit, TtwidTypes
  <2>2. CellInv
    BY <2>0 DEF TtwidInit, CellInv, Initializing, NoCookie
  <2>3. GlobalInv
    BY DEF TtwidInit, GlobalInv, Initializing
  <2> QED
    BY <2>1, <2>2, <2>3
<1>2. CellInv /\ GlobalInv => OneTtwid
  <2> SUFFICES ASSUME CellInv, GlobalInv PROVE OneTtwid
    OBVIOUS
  <2>0. ASSUME NEW x \in Extractors PROVE Carried(x) \subseteq {cell[x]}
    BY DEF CellInv, Carried
  <2>1. ASSUME NEW x \in Extractors PROVE Cardinality(Carried(x)) <= 1
    BY <2>0, AtMostOne
  <2>2. ASSUME ~raced PROVE Cardinality(UNION {Carried(x) : x \in Extractors}) <= 1
    <3>1. ASSUME NEW x \in Extractors PROVE Carried(x) \subseteq {globalTtwid}
      <4>1. NoTtwid \notin Carried(x)
        BY DEF Carried
      <4>2. cell[x] \in {NoTtwid, globalTtwid}
        BY <2>2 DEF GlobalInv
      <4> QED
        BY <2>0, <4>1, <4>2
    <3>2. UNION {Carried(x) : x \in Extractors} \subseteq {globalTtwid}
      BY <3>1
    <3> QED
      BY <3>2, AtMostOne
  <2> QED
    BY <2>1, <2>2 DEF OneTtwid, CellInv
<1> QED
  BY <1>1, <1>2, TtwidStep, PTL DEF TtwidSpec

-----------------------------------------------------------------------------
(* Detail and status.                                                      *)
(* Which request of a detail or status call decides whether the room is    *)
(* live, and at which place it is made.                                    *)
RoomAsk(pf) ==
  CASE pf = "bilibili" -> "room_info"
    [] pf = "douyu" -> "betard"
    [] pf = "huya" -> "page"
    [] pf = "douyin" -> "enter"
    [] pf = "twitch" -> "shell"

RoomPlace(pf, o, s) ==
  IF o = "detail" /\ (pf = "bilibili" \/ (pf = "douyin" /\ s.alias)) THEN 2 ELSE 1

(* What the platform says of the room; first is the id it was asked for.   *)
RoomReply(pf, o, s, first) ==
  CASE pf = "bilibili" -> BilibiliAnswer("room_info", s, 1)
    [] pf = "douyu" -> DouyuAnswer("betard", s, 1)
    [] pf = "huya" -> HuyaAnswer(o, "page", s, 1)
    [] pf = "douyin" -> DouyinAnswer(o, "enter", <<first>>, s, 1)
    [] pf = "twitch" -> TwitchAnswer("shell", s, 1)

(* A reply that lacks the room is an error in all calls but these.         *)
Unseen(pf, o) == pf \in {"douyu", "douyin"} \/ (pf = "bilibili" /\ o = "status")

Lacks(pf) == IF pf = "douyin" THEN DouyinLacking ELSE {Missing}

(* The deciding reply is what the platform says, or, in these calls, lacks *)
(* the room.                                                               *)
RoomTold(pf, o, s, h, f) ==
  Len(h) >= RoomPlace(pf, o, s) =>
    \/ h[RoomPlace(pf, o, s)] = RoomReply(pf, o, s, h[1])
    \/ f /\ Unseen(pf, o) /\ h[RoomPlace(pf, o, s)] \in Lacks(pf)

(* And so is the id that a long one stands for.                            *)
IdTold(pf, o, s, h, f) ==
  (pf = "douyin" /\ o = "detail" /\ s.alias /\ Len(h) >= 1) => h[1] = "reflow" \/ f

(* What has been heard is a list.                                          *)
IsListed(s) == Len(s) \in Nat /\ s = [i \in 1..Len(s) |-> s[i]]

(* A viewer that asks has an extractor, and what it has heard of the room  *)
(* is true of the site.                                                    *)
ExtractorInv ==
  /\ op \in Ops \union {NoOp, "qualities", "urls"}
  /\ platform \in Platforms \union {NoPlatform}
  /\ platform # NoPlatform => site \in Sites(platform)
  /\ op # NoOp => platform # NoPlatform
  /\ IsListed(heard)
  /\ op \in {"detail", "status"} =>
       /\ RoomTold(platform, op, site, heard, failed)
       /\ IdTold(platform, op, site, heard, failed)
  /\ StatusIsTrue

(* What Append does to a list of whatever values.                          *)
LEMMA ListGrows ==
  \A s, x : IsListed(s) =>
    /\ IsListed(Append(s, x)) /\ Len(Append(s, x)) = Len(s) + 1
    /\ \A i \in 1..Len(s) : Append(s, x)[i] = s[i]
    /\ Append(s, x)[Len(s) + 1] = x
<1> SUFFICES ASSUME NEW s, NEW x, IsListed(s)
             PROVE  /\ IsListed(Append(s, x)) /\ Len(Append(s, x)) = Len(s) + 1
                    /\ \A i \in 1..Len(s) : Append(s, x)[i] = s[i]
                    /\ Append(s, x)[Len(s) + 1] = x
  OBVIOUS
<1> DEFINE S == {s[i] : i \in 1..Len(s)} \union {x}
<1>1. s \in Seq(S)
  <2>1. s \in [1..Len(s) -> S]
    BY DEF IsListed
  <2> QED
    BY <2>1, SeqDef DEF IsListed
<1>2. x \in S
  OBVIOUS
<1> HIDE DEF S
<1>3. /\ Append(s, x) \in Seq(S) /\ Len(Append(s, x)) = Len(s) + 1
      /\ \A i \in 1..Len(s) : Append(s, x)[i] = s[i]
      /\ Append(s, x)[Len(s) + 1] = x
  BY <1>1, <1>2, AppendProperties
<1>4. IsListed(Append(s, x))
  BY <1>3, LenProperties DEF IsListed
<1> QED
  BY <1>3, <1>4

(* The least of a set is told by what it is.                               *)
LEMMA FirstOf ==
  \A S \in SUBSET Nat : \A m \in S : (\A y \in S : m <= y) => Min(S) = m
<1> SUFFICES ASSUME NEW S \in SUBSET Nat, NEW m \in S, \A y \in S : m <= y
             PROVE  Min(S) = m
  OBVIOUS
<1>1. \A x \in S : (\A y \in S : x <= y) => x = m
  BY SMT
<1>2. \E x \in S : \A y \in S : x <= y
  OBVIOUS
<1>3. Min(S) \in S /\ \A y \in S : Min(S) <= y
  BY <1>2, Zenon DEF Min
<1> QED
  BY <1>1, <1>3

(* A URL's extractor is one of those that are registered.                  *)
LEMMA ByUrlFinds == \A link : ByUrl(link) \in Platforms \union {NoPlatform}
<1> SUFFICES ASSUME NEW link PROVE ByUrl(link) \in Platforms \union {NoPlatform}
  OBVIOUS
<1> DEFINE found == {i \in DOMAIN Registered : Supports(Registered[i], link)}
<1>1. DOMAIN Registered = 1..5 /\ \A i \in 1..5 : Registered[i] \in Platforms
  BY DEF Registered, Platforms
<1>2. CASE found = {}
  BY <1>2 DEF ByUrl
<1>3. CASE found # {}
  <2>1. PICK m \in found : \A y \in found : m <= y
    <3>1. found \in SUBSET (1..5)
      BY <1>1
    <3> HIDE DEF found
    <3> QED
      <4>1. CASE 1 \in found
        BY <3>1, <4>1
      <4>2. CASE 1 \notin found /\ 2 \in found
        BY <3>1, <4>2
      <4>3. CASE 1 \notin found /\ 2 \notin found /\ 3 \in found
        BY <3>1, <4>3
      <4>4. CASE 1 \notin found /\ 2 \notin found /\ 3 \notin found
        <5>1. \A y \in found : y = 4 \/ y = 5
          BY <3>1, <4>4
        <5>2. CASE 4 \in found
          BY <5>1, <5>2
        <5>3. CASE 4 \notin found
          BY <1>3, <5>1, <5>3
        <5> QED
          BY <5>2, <5>3
      <4> QED
        BY <4>1, <4>2, <4>3, <4>4
  <2>2. found \in SUBSET Nat
    BY <1>1
  <2>3. Min(found) = m
    <3> HIDE DEF found
    <3> QED
      BY <2>1, <2>2, FirstOf
  <2>4. ByUrl(link) = Registered[m]
    BY <1>3, <2>3 DEF ByUrl
  <2> QED
    BY <1>1, <2>1, <2>4
<1> QED
  BY <1>2, <1>3

(* Where the deciding request of a call is, and that it is the last but on *)
(* Bilibili, where two that can be done without follow it.                 *)
LEMMA RoomRequest ==
  ASSUME ExtractorInv, op \in {"detail", "status"}
  PROVE  /\ Len(Requests) \in Nat /\ Len(Requests) >= RoomPlace(platform, op, site)
         /\ Requests[RoomPlace(platform, op, site)].ask = RoomAsk(platform)
         /\ Requests[RoomPlace(platform, op, site)].policy =
              IF Unseen(platform, op) THEN "unchecked" ELSE "required"
         /\ (platform = "bilibili" /\ op = "detail") \/ Len(Requests) = RoomPlace(platform, op, site)
         /\ (RoomPlace(platform, op, site) = 2 /\ platform = "douyin") => Requests[1] = Optional("reflow")
<1>1. platform \in Platforms /\ site \in Sites(platform)
  BY ExtractorAssumption DEF ExtractorInv, Ops, ListingOps
<1>2. CASE platform = "bilibili"
  <2>1. CASE op = "status"
    BY <1>2, <2>1 DEF Requests, BilibiliRequests, RoomPlace, RoomAsk, Unseen, Unchecked
  <2>2. CASE op = "detail"
    <3> DEFINE ahead == <<Required("room_init"), Required("room_info"), Optional("keys")>>
               rest == IF Len(heard) > 2 /\ heard[3] = Missing THEN <<>> ELSE <<Optional("danmu_info")>>
               S == {Required("room_init"), Required("room_info"), Optional("keys"), Optional("danmu_info")}
    <3>1. Requests = ahead \o rest
      BY <1>2, <2>2 DEF Requests, BilibiliRequests
    <3>2. ahead \in Seq(S) /\ Len(ahead) = 3 /\ ahead[2] = Required("room_info")
      OBVIOUS
    <3>4. rest \in Seq(S)
      <4>1. <<>> \in Seq(S) /\ <<Optional("danmu_info")>> \in Seq(S)
        OBVIOUS
      <4> QED
        BY <4>1
    <3> HIDE DEF ahead, rest, S
    <3>3. Len(Requests) \in Nat /\ Len(Requests) >= 3 /\ Requests[2] = Required("room_info")
      <4>1. Len(ahead) \in Nat /\ Len(rest) \in Nat
        BY <3>2, <3>4, LenProperties
      <4>3. Len(ahead \o rest) = Len(ahead) + Len(rest)
        BY <3>2, <3>4, ConcatProperties, Zenon
      <4>2. Len(ahead \o rest) = Len(ahead) + Len(rest) /\ (ahead \o rest)[2] = ahead[2]
        BY <3>2, <3>4, <4>1, <4>3, SMTT(30)
      <4> QED
        BY <3>1, <3>2, <4>1, <4>2
    <3> QED
      BY <1>2, <2>2, <3>3 DEF RoomPlace, RoomAsk, Unseen, Required
  <2> QED
    BY <2>1, <2>2
<1>3. CASE platform = "douyu"
  BY <1>3 DEF Requests, DouyuRequests, RoomPlace, RoomAsk, Unseen, Unchecked
<1>4. CASE platform = "huya"
  BY <1>4 DEF Requests, HuyaRequests, RoomPlace, RoomAsk, Unseen, Required
<1>5. CASE platform = "douyin"
  <2>1. CASE op = "status"
    BY <1>5, <2>1 DEF Requests, DouyinRequests, RoomPlace, RoomAsk, Unseen, Unchecked
  <2>2. CASE op = "detail" /\ site.alias
    <3>1. Requests = <<Optional("reflow")>> \o <<Unchecked("enter")>>
      BY <1>5, <2>2 DEF Requests, DouyinRequests
    <3> DEFINE S == {Optional("reflow"), Unchecked("enter")}
    <3>3. <<Optional("reflow")>> \in Seq(S) /\ <<Unchecked("enter")>> \in Seq(S)
      OBVIOUS
    <3> HIDE DEF S
    <3>2. Len(Requests) = 2 /\ Requests[1] = Optional("reflow") /\ Requests[2] = Unchecked("enter")
      BY <3>1, <3>3, ConcatProperties
    <3> QED
      BY <1>5, <2>2, <3>2 DEF RoomPlace, RoomAsk, Unseen, Unchecked
  <2>3. CASE op = "detail" /\ ~site.alias
    <3>1. Requests = <<>> \o <<Unchecked("enter")>>
      BY <1>5, <2>3 DEF Requests, DouyinRequests
    <3>2. Requests = <<Unchecked("enter")>>
      BY <3>1
    <3> QED
      BY <1>5, <2>3, <3>2 DEF RoomPlace, RoomAsk, Unseen, Unchecked
  <2> QED
    BY <2>1, <2>2, <2>3
<1>6. CASE platform = "twitch"
  BY <1>6 DEF Requests, TwitchRequests, RoomPlace, RoomAsk, Unseen, Required
<1> QED
  BY <1>1, <1>2, <1>3, <1>4, <1>5, <1>6 DEF Platforms

(* The answer to the deciding request is what the platform says.           *)
LEMMA RoomAnswer ==
  ASSUME ExtractorInv, op \in {"detail", "status"}, NEW first,
         RoomPlace(platform, op, site) = 2 => first = heard[1]
  PROVE  AnswerTo(RoomAsk(platform)) = RoomReply(platform, op, site, first)
<1>1. platform \in Platforms /\ site \in Sites(platform)
  BY ExtractorAssumption DEF ExtractorInv, Ops, ListingOps
<1>2. CASE platform = "bilibili"
  BY <1>2 DEF AnswerTo, RoomAsk, RoomReply, BilibiliAnswer
<1>3. CASE platform = "douyu"
  BY <1>3 DEF AnswerTo, RoomAsk, RoomReply, DouyuAnswer
<1>4. CASE platform = "huya"
  BY <1>4 DEF AnswerTo, RoomAsk, RoomReply, HuyaAnswer
<1>5. CASE platform = "douyin"
  <2>1. CASE op = "status" \/ first = heard[1]
    BY <1>5, <2>1 DEF AnswerTo, RoomAsk, RoomReply, DouyinAnswer
  <2>2. CASE op = "detail" /\ ~site.alias
    BY <1>5, <2>2 DEF AnswerTo, RoomAsk, RoomReply, DouyinAnswer
  <2> QED
    BY <1>5, <2>1, <2>2 DEF RoomPlace
<1>6. CASE platform = "twitch"
  BY <1>6 DEF AnswerTo, RoomAsk, RoomReply, TwitchAnswer
<1> QED
  BY <1>1, <1>2, <1>3, <1>4, <1>5, <1>6 DEF Platforms

(* The last of a list.                                                     *)
LEMMA LastIs == \A s : IsListed(s) /\ Len(s) > 0 => Last(s) = s[Len(s)]
BY Zenon DEF Last

(* What a finished call tells of the room, if it tells anything.           *)
Told == IF op = "detail" THEN Outcome.value.status ELSE Outcome.value

(* Where the deciding reply is, once a call has been answered.             *)
LEMMA DecidingReply ==
  ASSUME ExtractorInv, op \in {"detail", "status"}, Len(heard) = Len(Requests)
  PROVE  /\ IsListed(heard) /\ Len(heard) >= RoomPlace(platform, op, site)
         /\ RoomPlace(platform, op, site) \in {1, 2}
         /\ ~(platform = "bilibili" /\ op = "detail") =>
              Last(heard) = heard[RoomPlace(platform, op, site)]
<1>1. IsListed(heard) /\ Len(heard) >= RoomPlace(platform, op, site)
  BY RoomRequest DEF ExtractorInv
<1>2. RoomPlace(platform, op, site) \in {1, 2}
  BY DEF RoomPlace
<1>3. ~(platform = "bilibili" /\ op = "detail") => Len(heard) = RoomPlace(platform, op, site)
  BY RoomRequest
<1> QED
  BY <1>1, <1>2, <1>3, LastIs

(* A reply that lacks the room is told as a room that is off, if at all.   *)
LEMMA LackIsOff ==
  ASSUME ExtractorInv, op \in {"detail", "status"}, Len(heard) = Len(Requests), Outcome.ok,
         Unseen(platform, op), heard[RoomPlace(platform, op, site)] \in Lacks(platform)
  PROVE  ~Told
<1> DEFINE reply == Last(heard)
<1>1. reply \in Lacks(platform)
  BY DecidingReply DEF Unseen
<1>2. platform \in Platforms /\ site \in Sites(platform)
  BY ExtractorAssumption DEF ExtractorInv, Ops, ListingOps
<1>3. Missing # 1 /\ [room |-> Missing] # Missing
  BY <1>2, ExtractorAssumption
<1>4. CASE platform = "bilibili"
  <2>1. op = "status" /\ reply = Missing
    BY <1>1, <1>4 DEF Unseen, Lacks
  <2>2. Outcome = Success(BilibiliIsLive(Missing))
    BY <1>4, <2>1 DEF Outcome, BilibiliResult
  <2> QED
    BY <1>3, <2>1, <2>2 DEF Told, BilibiliIsLive, Success
<1>5. CASE platform = "douyu"
  <2>1. reply = Missing
    BY <1>1, <1>5 DEF Lacks
  <2>2. ~DouyuIsLive(<<>>)
    BY DEF DouyuIsLive
  <2>3. CASE op = "detail"
    <3>1. Outcome = DouyuDetail(<<>>)
      BY <1>5, <2>1, <2>3 DEF Outcome, DouyuResult
    <3> QED
      BY <2>2, <2>3, <3>1 DEF Told, DouyuDetail, Detail, Success
  <2>4. CASE op = "status"
    <3>1. Outcome = Success(DouyuIsLive(<<>>))
      BY <1>5, <2>1, <2>4 DEF Outcome, DouyuResult
    <3> QED
      BY <2>2, <2>4, <3>1 DEF Told, Success
  <2> QED
    BY <2>3, <2>4
<1>6. CASE platform = "douyin"
  <2>1. reply = Missing \/ (reply # Missing /\ reply.room = Missing)
    BY <1>1, <1>3, <1>6 DEF Lacks, DouyinLacking
  <2> HIDE DEF reply
  <2>2. CASE op = "detail"
    <3>1. Outcome = DouyinDetail(reply)
      BY <1>6, <2>2 DEF Outcome, DouyinResult, reply
    <3> QED
      BY <2>1, <2>2, <3>1 DEF Told, DouyinDetail, Detail, Success, Failure
  <2>3. CASE op = "status"
    <3>1. Outcome = DouyinStatus(reply)
      BY <1>6, <2>3 DEF Outcome, DouyinResult, reply
    <3> QED
      BY <2>1, <2>3, <3>1 DEF Told, DouyinStatus, Success
  <2> QED
    BY <2>2, <2>3
<1> QED
  BY <1>4, <1>5, <1>6 DEF Unseen

(* What a finished call makes of the deciding reply.                       *)
LEMMA OutcomeIsTrue ==
  ASSUME ExtractorInv, op \in {"detail", "status"}, Len(heard) = Len(Requests), Outcome.ok
  PROVE  /\ Told => site.state = "live" \/ TakenForLive
         /\ site.state = "live" => Told \/ TakenForOff
<1> DEFINE place == RoomPlace(platform, op, site)
           reply == RoomReply(platform, op, site, heard[1])
           live == site.state = "live"
           quiet == "status" \in site.silent
<1>1. platform \in Platforms /\ site \in Sites(platform)
  BY ExtractorAssumption DEF ExtractorInv, Ops, ListingOps
<1>2. /\ site.state \in {"live", "replay", "offline"}
      /\ site.renamed \in BOOLEAN /\ site.alias \in BOOLEAN
      /\ Missing # 1 /\ Missing # 2 /\ Missing # "reflow"
  BY <1>1, ExtractorAssumption
<1>3. IsListed(heard) /\ Len(heard) >= place /\ place \in {1, 2}
  BY DecidingReply
<1>4. CASE heard[place] # reply
  <2>1. failed /\ Unseen(platform, op) /\ heard[place] \in Lacks(platform)
    BY <1>3, <1>4 DEF ExtractorInv, RoomTold
  <2>2. ~Told
    BY <2>1, LackIsOff
  <2>3. TakenForOff
    BY <2>1 DEF TakenForOff, Unseen
  <2> QED
    BY <2>2, <2>3
<1> SUFFICES ASSUME heard[place] = reply
             PROVE  /\ Told => live \/ TakenForLive
                    /\ live => Told \/ TakenForOff
  BY <1>4
<1>5. ~(platform = "bilibili" /\ op = "detail") => Last(heard) = reply
  BY DecidingReply
<1>6. CASE platform = "bilibili"
  <2>1. BilibiliIsLive(reply) <=> live /\ ~quiet
    BY <1>2, <1>6 DEF BilibiliIsLive, RoomReply, BilibiliAnswer
  <2>2. Told <=> BilibiliIsLive(reply)
    <3>1. CASE op = "detail"
      <4>1. heard[2] = reply
        BY <1>6, <3>1 DEF RoomPlace
      <4>2. Outcome = BilibiliDetail(heard)
        BY <1>6, <3>1 DEF Outcome, BilibiliResult
      <4> QED
        BY <3>1, <4>1, <4>2 DEF Told, BilibiliDetail, BilibiliIsLive, Detail, Success
    <3>2. CASE op = "status"
      <4>1. Outcome = Success(BilibiliIsLive(reply))
        BY <1>5, <1>6, <3>2 DEF Outcome, BilibiliResult
      <4> QED
        BY <3>2, <4>1 DEF Told, BilibiliIsLive, Success
    <3> QED
      BY <3>1, <3>2
  <2> QED
    BY <2>1, <2>2 DEF TakenForOff
<1>7. CASE platform = "douyu"
  <2> DEFINE status == IF quiet THEN Missing ELSE IF site.state = "offline" THEN 2 ELSE 1
  <2>1. reply = IF site.renamed THEN <<Missing, status, status>> ELSE <<status, Missing, Missing>>
    BY <1>7 DEF RoomReply, DouyuAnswer
  <2>2. reply # Missing
    BY <1>1, <1>7, <2>1, ExtractorAssumption
  <2>3. status = 1 <=> ~quiet /\ site.state # "offline"
    BY <1>2
  <2>4. DouyuIsLive(reply) <=> status = 1
    <3> DEFINE said == {i \in DOMAIN reply : reply[i] # Missing}
    <3>1. DouyuIsLive(reply) <=> said # {} /\ reply[Min(said)] = 1
      <4> HIDE DEF reply
      <4> QED
        BY Zenon DEF DouyuIsLive
    <3>2. CASE status = Missing
      <4>1. said = {}
        <5>1. \A i \in DOMAIN reply : reply[i] = Missing
          BY <2>1, <3>2
        <5> QED
          BY <5>1
      <4>2. status # 1
        BY <1>2, <3>2
      <4> HIDE DEF reply, said, status
      <4> QED
        BY <3>1, <4>1, <4>2
    <3>3. CASE status # Missing /\ site.renamed
      <4>1. reply = <<Missing, status, status>>
        BY <2>1, <3>3
      <4>2. said = {2, 3} /\ reply[2] = status
        BY <3>3, <4>1
      <4>3. Min({2, 3}) = 2
        BY FirstOf
      <4> HIDE DEF reply, said, status
      <4> QED
        BY <3>1, <4>2, <4>3
    <3>4. CASE status # Missing /\ ~site.renamed
      <4>1. reply = <<status, Missing, Missing>>
        BY <2>1, <3>4
      <4>2. said = {1} /\ reply[1] = status
        BY <3>4, <4>1
      <4>3. Min({1}) = 1
        BY FirstOf
      <4> HIDE DEF reply, said, status
      <4> QED
        BY <3>1, <4>2, <4>3
    <3> QED
      BY <3>2, <3>3, <3>4
  <2>5. Last(heard) = reply
    BY <1>5, <1>7
  <2>6. Told <=> DouyuIsLive(reply)
    <3> HIDE DEF reply
    <3>1. CASE op = "detail"
      <4>1. Outcome = DouyuDetail(reply)
        BY <1>7, <2>2, <2>5, <3>1 DEF Outcome, DouyuResult
      <4> QED
        BY <3>1, <4>1 DEF Told, DouyuDetail, Detail, Success
    <3>2. CASE op = "status"
      <4>1. Outcome = Success(DouyuIsLive(reply))
        BY <1>7, <2>2, <2>5, <3>2 DEF Outcome, DouyuResult
      <4> QED
        BY <3>2, <4>1 DEF Told, Success
    <3> QED
      BY <3>1, <3>2
  <2>7. Told <=> ~quiet /\ site.state # "offline"
    BY <2>3, <2>4, <2>6
  <2> HIDE DEF reply, status
  <2> QED
    BY <1>2, <1>7, <2>7 DEF TakenForOff, TakenForLive
<1>8. CASE platform = "huya"
  <2>1. /\ "on" \in reply.room <=> site.state # "offline" /\ ~quiet
        /\ "replay" \in reply.room <=> site.state = "replay" /\ "replay" \notin site.silent
    BY <1>8 DEF RoomReply, HuyaAnswer
  <2>2. Last(heard) = reply
    BY <1>5, <1>8
  <2> HIDE DEF reply
  <2>3. Told <=> HuyaIsLive(reply.room)
    <3>1. CASE op = "detail"
      <4>1. Outcome = HuyaDetail(reply)
        BY <1>8, <2>2, <3>1 DEF Outcome, HuyaResult
      <4>2. reply.stream.infos # Missing
        BY <4>1 DEF HuyaDetail, Failure
      <4> QED
        BY <3>1, <4>1, <4>2 DEF Told, HuyaDetail, Detail, Success
    <3>2. CASE op = "status"
      <4>1. Outcome = Success(HuyaIsLive(reply.room))
        BY <1>8, <2>2, <3>2 DEF Outcome, HuyaResult
      <4> QED
        BY <3>2, <4>1 DEF Told, Success
    <3> QED
      BY <3>1, <3>2
  <2> QED
    BY <1>2, <1>8, <2>1, <2>3 DEF HuyaIsLive, TakenForOff, TakenForLive
<1>9. CASE platform = "douyin"
  <2>1. Last(heard) = reply
    BY <1>5, <1>9
  <2> DEFINE unknown == site.alias /\ (op = "status" \/ heard[1] = Missing)
             none == unknown \/ (site.state = "offline" /\ site.renamed)
             status == IF quiet THEN Missing ELSE IF live THEN 2 ELSE 4
             present == [status |-> status, play |-> site.play]
  <2>2. reply = [room |-> IF none THEN Missing ELSE present]
    BY <1>9 DEF RoomReply, DouyinAnswer
  <2>3. unknown => TakenForOff
    <3>1. SUFFICES ASSUME unknown PROVE TakenForOff
      OBVIOUS
    <3>2. CASE op = "status"
      BY <1>9, <3>1, <3>2 DEF TakenForOff
    <3>3. CASE op = "detail"
      <4>1. failed
        BY <1>2, <1>3, <1>9, <3>1, <3>3 DEF ExtractorInv, IdTold, RoomPlace
      <4> QED
        BY <1>9, <4>1 DEF TakenForOff
    <3> QED
      BY <3>2, <3>3
  <2>4. status \in {1, 2, 4, Missing}
    OBVIOUS
  <2>5. present # Missing /\ [room |-> present] # Missing /\ [room |-> Missing] # Missing
    BY <1>1, <1>9, <2>4, ExtractorAssumption
  <2>6. present.status = 2 <=> live /\ ~quiet
    BY <1>2
  <2>7. reply # Missing /\ reply.room = IF none THEN Missing ELSE present
    BY <2>2, <2>5
  <2> HIDE DEF reply, present, none
  <2>8. Told <=> ~none /\ present.status = 2
    <3>1. CASE op = "detail"
      <4>1. Outcome = DouyinDetail(reply)
        BY <1>9, <2>1, <3>1 DEF Outcome, DouyinResult
      <4> QED
        BY <2>5, <2>7, <3>1, <4>1 DEF Told, DouyinDetail, DouyinIsLive, Detail, Success
    <3>2. CASE op = "status"
      <4>1. Outcome = DouyinStatus(reply)
        BY <1>9, <2>1, <3>2 DEF Outcome, DouyinResult
      <4> QED
        BY <2>5, <2>7, <3>2, <4>1 DEF Told, DouyinStatus, DouyinIsLive, Success
    <3> QED
      BY <3>1, <3>2
  <2>9. live /\ none => TakenForOff
    BY <2>3 DEF none
  <2>10. quiet => TakenForOff
    BY DEF TakenForOff
  <2> QED
    BY <2>6, <2>8, <2>9, <2>10
<1>10. CASE platform = "twitch"
  <2>1. TwitchIsLive(reply) <=> live /\ ~quiet
    BY <1>2, <1>10 DEF RoomReply, TwitchAnswer, TwitchIsLive
  <2>2. Last(heard) = reply
    BY <1>5, <1>10
  <2> HIDE DEF reply
  <2>3. Told <=> TwitchIsLive(reply)
    <3>1. CASE op = "detail"
      <4>1. Outcome = TwitchDetail(reply)
        BY <1>10, <2>2, <3>1 DEF Outcome, TwitchResult
      <4> QED
        BY <3>1, <4>1 DEF Told, TwitchDetail, TwitchIsLive, Detail, Success
    <3>2. CASE op = "status"
      <4>1. Outcome = Success(TwitchIsLive(reply))
        BY <1>10, <2>2, <3>2 DEF Outcome, TwitchResult
      <4> QED
        BY <3>2, <4>1 DEF Told, TwitchIsLive, Success
    <3> QED
      BY <3>1, <3>2
  <2> QED
    BY <2>1, <2>3 DEF TakenForOff
<1> QED
  BY <1>1, <1>6, <1>7, <1>8, <1>9, <1>10 DEF Platforms

(* A reply that comes when a list has been heard leaves the earlier ones.  *)
LEMMA ToldGrows ==
  ASSUME NEW pf, NEW o, NEW s, NEW h, NEW x, NEW f, NEW g,
         IsListed(h), RoomTold(pf, o, s, h, f), IdTold(pf, o, s, h, f), f => g,
         Len(h) + 1 = RoomPlace(pf, o, s) =>
           x = RoomReply(pf, o, s, Append(h, x)[1]) \/ (g /\ Unseen(pf, o) /\ x \in Lacks(pf)),
         (RoomPlace(pf, o, s) = 2 /\ pf = "douyin" /\ Len(h) = 0) => x = "reflow" \/ g
  PROVE  RoomTold(pf, o, s, Append(h, x), g) /\ IdTold(pf, o, s, Append(h, x), g)
<1> DEFINE more == Append(h, x)
<1>1. /\ Len(h) \in Nat /\ Len(more) = Len(h) + 1
      /\ \A i \in 1..Len(h) : more[i] = h[i]
      /\ more[Len(h) + 1] = x
  <2>1. Len(h) \in Nat
    BY DEF IsListed
  <2> QED
    BY <2>1, ListGrows
<1>2. RoomPlace(pf, o, s) \in {1, 2}
  BY DEF RoomPlace
<1> HIDE DEF more
<1>3. RoomTold(pf, o, s, more, g)
  <2>1. CASE Len(h) + 1 = RoomPlace(pf, o, s)
    BY <1>1, <2>1 DEF RoomTold, more
  <2>2. CASE Len(h) + 1 # RoomPlace(pf, o, s)
    BY <1>1, <1>2, <2>2 DEF RoomTold
  <2> QED
    BY <2>1, <2>2
<1>4. IdTold(pf, o, s, more, g)
  <2>1. CASE Len(h) = 0
    BY <1>1, <2>1 DEF IdTold, RoomPlace
  <2>2. CASE Len(h) # 0
    BY <1>1, <2>2 DEF IdTold
  <2> QED
    BY <2>1, <2>2
<1> QED
  BY <1>3, <1>4 DEF more

(* A call that begins has heard nothing.                                   *)
LEMMA AskStarts ==
  ASSUME NEW o, NEW p, Ask(o, p)
  PROVE  /\ op' = o /\ IsListed(heard') /\ StatusIsTrue'
         /\ \A pf, s, f : RoomTold(pf, o, s, heard', f) /\ IdTold(pf, o, s, heard', f)
<1>1. op' = o /\ heard' = <<>> /\ result' = NoResult
  BY DEF Ask
<1>2. IsListed(heard')
  BY <1>1 DEF IsListed
<1>3. StatusIsTrue'
  BY <1>1 DEF StatusIsTrue
<1>4. ASSUME NEW pf, NEW s, NEW f
      PROVE  RoomTold(pf, o, s, heard', f) /\ IdTold(pf, o, s, heard', f)
  BY <1>1 DEF RoomTold, IdTold, RoomPlace
<1> QED
  BY <1>1, <1>2, <1>3, <1>4

(* Every step of a viewer and its platform keeps the invariant.            *)
LEMMA ExtractorStep == ExtractorInv /\ [ExtractorNext]_extractorVars => ExtractorInv'
<1> SUFFICES ASSUME ExtractorInv, [ExtractorNext]_extractorVars
             PROVE  ExtractorInv'
  OBVIOUS
<1>1. ASSUME NEW link \in Links, Open(link)
      PROVE  ExtractorInv'
  <2>1. /\ platform' = ByUrl(link) /\ platform' \in Platforms /\ site' \in Sites(platform')
        /\ op' = op /\ heard' = heard /\ result' = result
    BY <1>1, ByUrlFinds DEF Open, call
  <2>2. op = NoOp
    BY <1>1 DEF Open, ExtractorInv
  <2>3. op' \notin {"detail", "status"}
    BY <2>1, <2>2, ExtractorAssumption DEF Ops
  <2> QED
    BY <2>1, <2>2, <2>3 DEF ExtractorInv, StatusIsTrue
<1>2. ASSUME NEW o \in Ops, Begin(o)
      PROVE  ExtractorInv'
  <2>1. Ask(o, 1) /\ platform # NoPlatform /\ UNCHANGED <<platform, site, failed>>
    BY <1>2 DEF Begin
  <2> QED
    BY <2>1, AskStarts DEF ExtractorInv
<1>3. CASE Granted
  <2> DEFINE ask == Requests[Len(heard) + 1].ask
  <2>1. /\ heard' = Append(heard, AnswerTo(ask)) /\ result = NoResult /\ op # NoOp
        /\ UNCHANGED <<platform, site, op, result, failed>>
    BY <1>3 DEF Granted, Waiting
  <2>2. StatusIsTrue'
    BY <2>1 DEF StatusIsTrue
  <2>3. IsListed(heard')
    BY <2>1, ListGrows DEF ExtractorInv
  <2>4. ASSUME op \in {"detail", "status"}
        PROVE  /\ RoomTold(platform, op, site, heard', failed)
               /\ IdTold(platform, op, site, heard', failed)
    <3> DEFINE x == AnswerTo(ask)
    <3>1. IsListed(heard) /\ RoomTold(platform, op, site, heard, failed)
            /\ IdTold(platform, op, site, heard, failed)
      BY <2>4 DEF ExtractorInv
    <3>2. ASSUME Len(heard) + 1 = RoomPlace(platform, op, site)
          PROVE  x = RoomReply(platform, op, site, Append(heard, x)[1])
      <4>1. x = AnswerTo(RoomAsk(platform))
        BY <2>4, <3>2, RoomRequest
      <4>2. RoomPlace(platform, op, site) = 2 => Append(heard, x)[1] = heard[1]
        BY <3>1, <3>2, ListGrows
      <4> QED
        BY <2>4, <4>1, <4>2, RoomAnswer
    <3>3. ASSUME RoomPlace(platform, op, site) = 2, platform = "douyin", Len(heard) = 0
          PROVE  x = "reflow"
      <4>1. ask = "reflow"
        BY <2>4, <3>3, RoomRequest DEF Optional
      <4> QED
        BY <3>3, <4>1 DEF AnswerTo, DouyinAnswer
    <3> HIDE DEF x
    <3> QED
      BY <2>1, <3>1, <3>2, <3>3, ToldGrows DEF x
  <2> QED
    BY <2>1, <2>2, <2>3, <2>4 DEF ExtractorInv
<1>4. ASSUME Refused \/ Broken
      PROVE  ExtractorInv'
  <2> DEFINE asked == Requests[Len(heard) + 1]
  <2>1. /\ UNCHANGED <<platform, site, op>> /\ failed' /\ result = NoResult /\ op # NoOp
        /\ \/ heard' = heard /\ result' = Failure
           \/ /\ \E reply : /\ heard' = Append(heard, reply)
                            /\ asked.policy # "optional" =>
                                 asked.policy = "unchecked" /\ reply \in LackingReplies
              /\ result' = result
    BY <1>4 DEF Refused, Broken, Without, Waiting
  <2>2. StatusIsTrue'
    BY <2>1 DEF StatusIsTrue, Failure
  <2>3. CASE heard' = heard
    BY <2>1, <2>2, <2>3 DEF ExtractorInv, RoomTold, IdTold
  <2>4. ASSUME NEW reply, heard' = Append(heard, reply),
               asked.policy # "optional" => asked.policy = "unchecked" /\ reply \in LackingReplies
        PROVE  ExtractorInv'
    <3>1. IsListed(heard')
      BY <2>4, ListGrows DEF ExtractorInv
    <3>2. ASSUME op \in {"detail", "status"}
          PROVE  /\ RoomTold(platform, op, site, heard', TRUE)
                 /\ IdTold(platform, op, site, heard', TRUE)
      <4>1. IsListed(heard) /\ RoomTold(platform, op, site, heard, failed)
              /\ IdTold(platform, op, site, heard, failed)
        BY <3>2 DEF ExtractorInv
      <4>2. ASSUME Len(heard) + 1 = RoomPlace(platform, op, site)
            PROVE  Unseen(platform, op) /\ reply \in Lacks(platform)
        <5>1. /\ asked.ask = RoomAsk(platform)
              /\ asked.policy = IF Unseen(platform, op) THEN "unchecked" ELSE "required"
          BY <3>2, <4>2, RoomRequest
        <5>2. Unseen(platform, op) /\ reply \in LackingReplies
          BY <2>4, <5>1
        <5>3. asked.ask = "enter" <=> platform = "douyin"
          BY <5>1, <5>2 DEF RoomAsk, Unseen
        <5> QED
          BY <5>2, <5>3 DEF LackingReplies, Lacks
      <4> QED
        BY <2>4, <4>1, <4>2, ToldGrows
    <3> QED
      BY <2>1, <2>2, <3>1, <3>2 DEF ExtractorInv
  <2> QED
    BY <2>1, <2>3, <2>4
<1>5. CASE Return
  <2>1. UNCHANGED <<platform, site, op, heard, failed>> /\ Len(heard) = Len(Requests) /\ result' = Outcome
    BY <1>5 DEF Return
  <2>2. StatusIsTrue'
    <3>1. SUFFICES ASSUME op \in {"detail", "status"}, Outcome.ok
                   PROVE  /\ ToldLive' => site'.state = "live" \/ TakenForLive'
                          /\ site'.state = "live" => ToldLive' \/ TakenForOff'
      BY <2>1 DEF StatusIsTrue
    <3>2. (TakenForLive' <=> TakenForLive) /\ (TakenForOff' <=> TakenForOff) /\ site' = site
      BY <2>1 DEF TakenForLive, TakenForOff
    <3>3. ToldLive' = Told
      BY <2>1 DEF ToldLive, Told
    <3>4. /\ Told => site.state = "live" \/ TakenForLive
          /\ site.state = "live" => Told \/ TakenForOff
      BY <2>1, <3>1, OutcomeIsTrue
    <3> QED
      BY <3>2, <3>3, <3>4
  <2> QED
    BY <2>1, <2>2 DEF ExtractorInv
<1>6. ASSUME NextPage \/ AskQualities \/ AskUrls \/ AskNextUrls
      PROVE  ExtractorInv'
  <2>1. PICK o \in ListingOps \union {"qualities", "urls"}, p \in {1, page + 1} :
               Ask(o, p) /\ platform' = platform /\ site' = site
    BY <1>6 DEF NextPage, AskQualities, AskUrls, AskNextUrls
  <2>2. o \notin {"detail", "status"} /\ o \in Ops \union {"qualities", "urls"}
    BY DEF ListingOps, Ops
  <2>3. platform # NoPlatform
    BY <1>6, ExtractorAssumption DEF ExtractorInv, NextPage, AskQualities, AskUrls, AskNextUrls, Returned, Ops
  <2> QED
    BY <2>1, <2>2, <2>3, AskStarts DEF ExtractorInv
<1>7. CASE Leave
  <2>1. Ask(NoOp, 0) /\ platform' = NoPlatform
    BY <1>7 DEF Leave
  <2>2. NoOp \notin {"detail", "status"}
    BY ExtractorAssumption DEF Ops
  <2> QED
    BY <2>1, <2>2, AskStarts DEF ExtractorInv
<1>8. CASE UNCHANGED extractorVars
  BY <1>8 DEF extractorVars, call, ExtractorInv, StatusIsTrue, ToldLive, TakenForLive, TakenForOff
<1> QED
  BY <1>1, <1>2, <1>3, <1>4, <1>5, <1>6, <1>7, <1>8 DEF ExtractorNext

LEMMA ExtractorStarts == ExtractorInit => ExtractorInv
<1> SUFFICES ASSUME ExtractorInit PROVE ExtractorInv
  OBVIOUS
<1>1. op = NoOp /\ NoOp \notin {"detail", "status"}
  BY ExtractorAssumption DEF ExtractorInit, Ops
<1>2. IsListed(heard)
  BY DEF ExtractorInit, IsListed
<1> QED
  BY <1>1, <1>2 DEF ExtractorInit, ExtractorInv, StatusIsTrue

(* In every behaviour, whatever the platforms say of their rooms or leave  *)
(* out, a room that a detail or a status tells live is live, but for the   *)
(* recordings TakenForLive names; and one that is live is told so, but for *)
(* what TakenForOff names.                                                 *)
THEOREM StatusIsAlwaysTrue == ExtractorSpec => []StatusIsTrue
<1>1. ExtractorInv => StatusIsTrue
  BY DEF ExtractorInv
<1> QED
  BY <1>1, ExtractorStarts, ExtractorStep, PTL DEF ExtractorSpec

-----------------------------------------------------------------------------
(* Filters and pages: a set of numbers has a least, which is the induction *)
(* that what is picked of a list, element by element, is proved with.      *)

LEMMA LeastOf ==
  ASSUME NEW T \in SUBSET Nat, T # {}
  PROVE  \E n \in T : \A m \in T : n <= m
<1>1. PICK n \in T : \A m \in T : ~(<<m, n>> \in OpToRel(<, Nat))
  BY NatLessThanWellFounded, WFMin
<1>2. \A m \in T : ~(m < n)
  BY <1>1 DEF OpToRel
<1> QED
  BY <1>2

(* What holds at the start and goes on up to m holds throughout.           *)
LEMMA Upwards ==
  ASSUME NEW m \in Nat, NEW T, 0 \in T, \A n \in 0..m : n # m /\ n \in T => n + 1 \in T
  PROVE  \A n \in 0..m : n \in T
<1> DEFINE bad == {n \in 0..m : n \notin T}
<1>1. SUFFICES ASSUME bad # {} PROVE FALSE
  OBVIOUS
<1>2. PICK n \in bad : \A k \in bad : n <= k
  <2>1. bad \in SUBSET Nat
    OBVIOUS
  <2> HIDE DEF bad
  <2> QED
    BY <1>1, <2>1, LeastOf
<1>3. n \in 0..m /\ n \notin T /\ n # 0
  BY <1>2
<1>4. n - 1 \in 0..m /\ n - 1 # m /\ (n - 1) + 1 = n /\ ~(n <= n - 1)
  BY <1>3
<1>5. n - 1 \in T
  BY <1>2, <1>4
<1>6. (n - 1) + 1 \in T
  BY <1>4, <1>5
<1> QED
  BY <1>3, <1>4, <1>6

-----------------------------------------------------------------------------
(* Filters: the places in a list of what passes are a set.                 *)

(* The recursion of Filtered, up to the m-th of the list.                  *)
Picks(f, list, places, m) ==
  \A n \in 0..m :
    f[n] = IF n = 0 THEN <<>>
           ELSE IF n \in places THEN Append(f[n - 1], list[n]) ELSE f[n - 1]

(* What is at the places, of the first n of a list for each n.             *)
Upto(list, places) ==
  CHOOSE f : f = [n \in 0..Len(list) |-> f[n]] /\ Picks(f, list, places, Len(list))

Picked(list, places) == Upto(list, places)[Len(list)]

LEMMA PicksOnce ==
  ASSUME NEW m \in Nat, NEW f, NEW g, NEW list, NEW other, NEW places, NEW others,
         Picks(f, list, places, m), Picks(g, other, others, m),
         \A n \in 1..m : list[n] = other[n] /\ (n \in places <=> n \in others)
  PROVE  \A n \in 0..m : f[n] = g[n]
<1> DEFINE T == {n \in 0..m : f[n] = g[n]}
<1>1. 0 \in T
  BY DEF Picks
<1>2. ASSUME NEW n \in 0..m, n # m, n \in T PROVE n + 1 \in T
  <2>1. n + 1 \in 0..m /\ n + 1 \in 1..m /\ n + 1 # 0 /\ (n + 1) - 1 = n
    BY <1>2
  <2>2. /\ f[n + 1] = IF n + 1 \in places THEN Append(f[n], list[n + 1]) ELSE f[n]
        /\ g[n + 1] = IF n + 1 \in others THEN Append(g[n], other[n + 1]) ELSE g[n]
    BY <2>1 DEF Picks
  <2>3. f[n + 1] = g[n + 1]
    BY <1>2, <2>1, <2>2
  <2> QED
    BY <2>1, <2>3
<1> HIDE DEF T
<1>3. \A n \in 0..m : n \in T
  BY <1>1, <1>2, Upwards
<1> QED
  BY <1>3 DEF T

(* There is such a function, and what it picks is what is at the places.   *)
LEMMA PicksSome ==
  ASSUME NEW list, NEW places, NEW m \in Nat, NEW S, \A n \in 1..m : n \in places => list[n] \in S
  PROVE  \E f \in [0..m -> Seq(S)] : Picks(f, list, places, m)
<1> DEFINE Good(n) == \E f \in [0..n -> Seq(S)] : Picks(f, list, places, n)
           T == {n \in 0..m : Good(n)}
<1>1. Good(0)
  <2> DEFINE f == [n \in 0..0 |-> <<>>]
  <2>1. f \in [0..0 -> Seq(S)] /\ f[0] = <<>> /\ \A n \in 0..0 : n = 0
    OBVIOUS
  <2> HIDE DEF f
  <2>2. Picks(f, list, places, 0)
    BY <2>1 DEF Picks
  <2> QED
    BY <2>1, <2>2
<1>2. ASSUME NEW n \in 0..m, n # m, Good(n) PROVE Good(n + 1)
  <2>1. PICK f \in [0..n -> Seq(S)] : Picks(f, list, places, n)
    BY <1>2
  <2> DEFINE last == IF n + 1 \in places THEN Append(f[n], list[n + 1]) ELSE f[n]
             g == [i \in 0..(n + 1) |-> IF i = n + 1 THEN last ELSE f[i]]
  <2>2. n \in 0..n /\ n + 1 \in 1..m /\ n \in Nat
    BY <1>2
  <2>3. last \in Seq(S)
    <3>1. f[n] \in Seq(S)
      BY <2>1, <2>2
    <3>2. n + 1 \in places => list[n + 1] \in S
      BY <2>2
    <3> QED
      BY <3>1, <3>2
  <2>4. g \in [0..(n + 1) -> Seq(S)]
    <3> HIDE DEF last
    <3>1. \A i \in 0..(n + 1) : i # n + 1 => i \in 0..n
      BY <2>2
    <3> QED
      BY <2>1, <2>3, <3>1
  <2>5. /\ g[n + 1] = last /\ n + 1 \in 0..(n + 1)
        /\ \A i \in 0..n : g[i] = f[i]
    <3> HIDE DEF last
    <3> QED
      BY <2>2
  <2> HIDE DEF g
  <2>6. Picks(g, list, places, n + 1)
    <3> SUFFICES ASSUME NEW i \in 0..(n + 1)
                 PROVE  g[i] = IF i = 0 THEN <<>>
                               ELSE IF i \in places THEN Append(g[i - 1], list[i]) ELSE g[i - 1]
      BY DEF Picks
    <3>1. CASE i = n + 1
      <4>1. i # 0 /\ i - 1 = n /\ g[n] = f[n]
        BY <2>2, <2>5, <3>1
      <4> QED
        BY <2>5, <3>1, <4>1
    <3>2. CASE i # n + 1
      <4>1. i \in 0..n /\ (i # 0 => i - 1 \in 0..n)
        BY <2>2, <3>2
      <4> QED
        BY <2>1, <2>5, <4>1 DEF Picks
    <3> QED
      BY <3>1, <3>2
  <2> QED
    BY <2>4, <2>6
<1> HIDE DEF Good
<1>3. 0 \in T /\ \A n \in 0..m : n # m /\ n \in T => n + 1 \in T
  <2>1. \A n \in 0..m : n # m => n + 1 \in 0..m
    OBVIOUS
  <2> QED
    BY <1>1, <1>2, <2>1
<1> HIDE DEF T
<1>4. m \in T
  <2>1. m \in 0..m
    OBVIOUS
  <2> QED
    BY <1>3, <2>1, Upwards
<1> QED
  BY <1>4 DEF T, Good

LEMMA UptoIs ==
  ASSUME NEW S, NEW list, Len(list) \in Nat, NEW places,
         \A n \in 1..Len(list) : n \in places => list[n] \in S
  PROVE  /\ Upto(list, places) \in [0..Len(list) -> Seq(S)]
         /\ Picks(Upto(list, places), list, places, Len(list))
         /\ Picked(list, places) \in Seq(S)
<1> DEFINE m == Len(list)
           F == Upto(list, places)
<1>1. PICK g \in [0..m -> Seq(S)] : Picks(g, list, places, m)
  BY PicksSome
<1>2. F = [n \in 0..m |-> F[n]] /\ Picks(F, list, places, m)
  <2>1. g = [n \in 0..m |-> g[n]] /\ Picks(g, list, places, m)
    BY <1>1
  <2> QED
    BY <2>1, Zenon DEF Upto
<1> HIDE DEF F
<1>3. \A n \in 0..m : F[n] = g[n]
  BY <1>1, <1>2, PicksOnce
<1>4. m \in 0..m
  OBVIOUS
<1>5. F \in [0..m -> Seq(S)]
  <2> HIDE DEF m
  <2> QED
    BY <1>1, <1>2, <1>3
<1>6. F[m] \in Seq(S)
  BY <1>4, <1>5
<1> QED
  BY <1>2, <1>5, <1>6 DEF Picked, F

LEMMA AppendOn ==
  \A S : \A x \in S : \A s, t \in Seq(S) : Append(s \o t, x) = s \o Append(t, x)
<1> SUFFICES ASSUME NEW S, NEW x \in S, NEW s \in Seq(S), NEW t \in Seq(S)
             PROVE  Append(s \o t, x) = s \o Append(t, x)
  OBVIOUS
<1> DEFINE one == Append(s \o t, x)
           two == s \o Append(t, x)
<1>1. Len(s) \in Nat /\ Len(t) \in Nat
  BY LenProperties
<1>2. /\ s \o t \in Seq(S) /\ Len(s \o t) = Len(s) + Len(t)
      /\ \A i \in 1..(Len(s) + Len(t)) : (s \o t)[i] = IF i <= Len(s) THEN s[i] ELSE t[i - Len(s)]
  BY ConcatProperties
<1>3. /\ Append(t, x) \in Seq(S) /\ Len(Append(t, x)) = Len(t) + 1
      /\ \A i \in 1..Len(t) : Append(t, x)[i] = t[i]
      /\ Append(t, x)[Len(t) + 1] = x
  BY AppendProperties
<1>4. /\ one \in Seq(S) /\ Len(one) = Len(s) + Len(t) + 1
      /\ \A i \in 1..(Len(s) + Len(t)) : one[i] = (s \o t)[i]
      /\ one[Len(s) + Len(t) + 1] = x
  BY <1>2, AppendProperties
<1>5. /\ two \in Seq(S) /\ Len(two) = Len(s) + Len(t) + 1
      /\ \A i \in 1..(Len(s) + Len(t) + 1) : two[i] = IF i <= Len(s) THEN s[i] ELSE Append(t, x)[i - Len(s)]
  <2>1. /\ two \in Seq(S) /\ Len(two) = Len(s) + Len(Append(t, x))
        /\ \A i \in 1..(Len(s) + Len(Append(t, x))) :
             two[i] = IF i <= Len(s) THEN s[i] ELSE Append(t, x)[i - Len(s)]
    BY <1>3, ConcatProperties
  <2>2. Len(s) + Len(Append(t, x)) = Len(s) + Len(t) + 1
    BY <1>1, <1>3
  <2> QED
    BY <2>1, <2>2
<1> HIDE DEF one, two
<1>6. ASSUME NEW i \in 1..(Len(s) + Len(t) + 1) PROVE one[i] = two[i]
  <2>1. CASE i = Len(s) + Len(t) + 1
    <3>1. ~(i <= Len(s)) /\ i - Len(s) = Len(t) + 1
      BY <1>1, <2>1
    <3> QED
      BY <1>3, <1>4, <1>5, <2>1, <3>1
  <2>2. CASE i <= Len(s)
    <3>1. i \in 1..(Len(s) + Len(t))
      BY <1>1, <2>2
    <3> QED
      BY <1>2, <1>4, <1>5, <2>2, <3>1
  <2>3. CASE ~(i <= Len(s)) /\ i # Len(s) + Len(t) + 1
    <3>1. i \in 1..(Len(s) + Len(t)) /\ i - Len(s) \in 1..Len(t)
      BY <1>1, <2>3
    <3> QED
      BY <1>2, <1>3, <1>4, <1>5, <2>3, <3>1
  <2> QED
    BY <2>1, <2>2, <2>3
<1> QED
  BY <1>4, <1>5, <1>6, SeqEqual DEF one, two

(* A list that is long enough and continues as another does where its own  *)
(* places are the other's, picks what came before and what the other picks.*)
LEMMA PickedOn ==
  ASSUME NEW S, NEW long \in Seq(S), NEW list \in Seq(S), NEW from \in Nat, NEW places, NEW others,
         from + Len(list) <= Len(long),
         \A n \in 1..Len(list) : list[n] = long[from + n] /\ (n \in others <=> from + n \in places)
  PROVE  Upto(long, places)[from + Len(list)] = Upto(long, places)[from] \o Picked(list, others)
<1> DEFINE m == Len(list)
           F == Upto(long, places)
           G == Upto(list, others)
           T == {n \in 0..m : F[from + n] = F[from] \o G[n]}
<1>1. m \in Nat /\ Len(long) \in Nat /\ from \in 0..Len(long)
  BY LenProperties
<1>2. F \in [0..Len(long) -> Seq(S)] /\ Picks(F, long, places, Len(long))
  BY <1>1, UptoIs, ElementOfSeq
<1>3. G \in [0..m -> Seq(S)] /\ Picks(G, list, others, m)
  BY <1>1, UptoIs, ElementOfSeq
<1> HIDE DEF F, G
<1>4. 0 \in T
  <2>1. G[0] = <<>>
    BY <1>1, <1>3 DEF Picks
  <2>2. F[from] \in Seq(S)
    BY <1>1, <1>2
  <2>3. F[from] \o <<>> = F[from]
    BY <2>2, ConcatEmptySeq
  <2>4. 0 \in 0..m /\ from + 0 = from
    BY <1>1
  <2> HIDE DEF m
  <2> QED
    BY <2>1, <2>3, <2>4
<1>5. ASSUME NEW n \in 0..m, n # m, n \in T PROVE n + 1 \in T
  <2>1. /\ n + 1 \in 0..m /\ n + 1 \in 1..m /\ n + 1 # 0 /\ (n + 1) - 1 = n
        /\ from + (n + 1) \in 0..Len(long) /\ from + (n + 1) # 0 /\ (from + (n + 1)) - 1 = from + n
        /\ from + n \in 0..Len(long)
    <3>1. n \in Nat /\ m \in Nat /\ n < m /\ from + m <= Len(long)
      BY <1>1, <1>5
    <3> HIDE DEF m
    <3> QED
      BY <1>1, <3>1
  <2> DEFINE x == list[n + 1]
  <2>2. x = long[from + (n + 1)] /\ x \in S /\ (n + 1 \in others <=> from + (n + 1) \in places)
    BY <2>1, ElementOfSeq
  <2>3. F[from + (n + 1)] = IF from + (n + 1) \in places THEN Append(F[from + n], x) ELSE F[from + n]
    <3>1. F[from + (n + 1)] = IF from + (n + 1) \in places
                              THEN Append(F[from + n], long[from + (n + 1)]) ELSE F[from + n]
      BY <1>2, <2>1 DEF Picks
    <3> QED
      BY <2>2, <3>1
  <2>4. G[n + 1] = IF n + 1 \in others THEN Append(G[n], x) ELSE G[n]
    BY <1>3, <2>1 DEF Picks
  <2>5. F[from + n] = F[from] \o G[n]
    BY <1>5
  <2>6. F[from] \in Seq(S) /\ G[n] \in Seq(S)
    BY <1>1, <1>2, <1>3
  <2> HIDE DEF x, m
  <2>7. Append(F[from] \o G[n], x) = F[from] \o Append(G[n], x)
    <3>1. x \in S
      BY <2>2
    <3>2. \A s, t \in Seq(S) : Append(s \o t, x) = s \o Append(t, x)
      BY <3>1, AppendOn, Zenon
    <3> QED
      BY <2>6, <3>2, Zenon
  <2>8. F[from + (n + 1)] = F[from] \o G[n + 1]
    BY <2>2, <2>3, <2>4, <2>5, <2>7
  <2> QED
    BY <2>1, <2>8
<1> HIDE DEF T
<1>6. m \in T
  <2>1. m \in 0..m
    BY <1>1
  <2> QED
    BY <1>1, <1>4, <1>5, <2>1, Upwards
<1> QED
  BY <1>6 DEF T, F, G, Picked

(* Where everything passes the list remains.                               *)
LEMMA PickedAll ==
  ASSUME NEW S, NEW list \in Seq(S), NEW places, \A n \in 1..Len(list) : n \in places
  PROVE  Picked(list, places) = list
<1> DEFINE m == Len(list)
           F == Upto(list, places)
           Begins(s, n) == Len(s) = n /\ \A i \in 1..n : s[i] = list[i]
           T == {n \in 0..m : Begins(F[n], n)}
<1>1. m \in Nat /\ \A n \in 1..m : list[n] \in S
  BY LenProperties, ElementOfSeq
<1>2. F \in [0..m -> Seq(S)] /\ Picks(F, list, places, m)
  BY <1>1, UptoIs
<1> HIDE DEF F
<1>3. 0 \in T
  BY <1>1, <1>2 DEF Picks
<1>4. ASSUME NEW n \in 0..m, n # m, n \in T PROVE n + 1 \in T
  <2>1. n \in Nat /\ n + 1 \in 0..m /\ n + 1 \in 1..m /\ n + 1 # 0 /\ (n + 1) - 1 = n
    BY <1>1, <1>4
  <2>2. F[n + 1] = Append(F[n], list[n + 1])
    BY <1>2, <2>1 DEF Picks
  <2>3. F[n] \in Seq(S) /\ list[n + 1] \in S /\ Begins(F[n], n)
    BY <1>1, <1>2, <1>4, <2>1
  <2>4. Begins(F[n + 1], n + 1)
    <3>1. /\ Len(F[n + 1]) = n + 1 /\ F[n + 1][n + 1] = list[n + 1]
          /\ \A i \in 1..n : F[n + 1][i] = list[i]
      BY <2>2, <2>3, AppendProperties
    <3>2. \A i \in 1..(n + 1) : i \in 1..n \/ i = n + 1
      BY <2>1
    <3> QED
      BY <3>1, <3>2
  <2> QED
    BY <2>1, <2>4
<1> HIDE DEF T
<1>5. m \in T
  <2>1. m \in 0..m
    BY <1>1
  <2> QED
    BY <1>1, <1>3, <1>4, <2>1, Upwards
<1>6. F[m] \in Seq(S) /\ Len(F[m]) = m /\ \A i \in 1..m : F[m][i] = list[i]
  BY <1>1, <1>2, <1>5 DEF T
<1>7. F[m] = list
  BY <1>6, SeqEqual
<1> QED
  BY <1>7 DEF Picked, F

(* The ids of entries.                                                     *)
Ids(list) == [i \in DOMAIN list |-> list[i].id]

LEMMA IdsOf ==
  ASSUME NEW S, NEW I, \A e \in S : e.id \in I, NEW list \in Seq(S)
  PROVE  /\ Ids(list) \in Seq(I) /\ Len(Ids(list)) = Len(list)
         /\ \A i \in 1..Len(list) : Ids(list)[i] = list[i].id
<1>1. DOMAIN list = 1..Len(list) /\ Len(list) \in Nat /\ \A i \in 1..Len(list) : list[i] \in S
  BY LenProperties, ElementOfSeq
<1>2. Ids(list) \in [1..Len(list) -> I]
  BY <1>1 DEF Ids
<1>3. \A i \in 1..Len(list) : Ids(list)[i] = list[i].id
  BY <1>1 DEF Ids
<1> QED
  BY <1>1, <1>2, <1>3, SeqDef, LenProperties

LEMMA IdsAppended ==
  ASSUME NEW S, NEW list \in Seq(S), NEW e \in S
  PROVE  Ids(Append(list, e)) = Append(Ids(list), e.id)
<1> DEFINE I == {x.id : x \in S}
           one == Ids(Append(list, e))
           two == Append(Ids(list), e.id)
<1>1. \A x \in S : x.id \in I
  OBVIOUS
<1> HIDE DEF I
<1>2. /\ Append(list, e) \in Seq(S) /\ Len(Append(list, e)) = Len(list) + 1
      /\ \A i \in 1..Len(list) : Append(list, e)[i] = list[i]
      /\ Append(list, e)[Len(list) + 1] = e
  BY AppendProperties
<1>3. /\ Ids(list) \in Seq(I) /\ Len(Ids(list)) = Len(list)
      /\ \A i \in 1..Len(list) : Ids(list)[i] = list[i].id
  BY <1>1, IdsOf
<1>4. /\ one \in Seq(I) /\ Len(one) = Len(Append(list, e))
      /\ \A i \in 1..Len(Append(list, e)) : one[i] = Append(list, e)[i].id
  BY <1>1, <1>2, IdsOf
<1>5. /\ two \in Seq(I) /\ Len(two) = Len(list) + 1
      /\ \A i \in 1..Len(list) : two[i] = Ids(list)[i]
      /\ two[Len(list) + 1] = e.id
  BY <1>1, <1>3, AppendProperties
<1> HIDE DEF one, two
<1>6. Len(list) \in Nat /\ \A i \in 1..(Len(list) + 1) : i \in 1..Len(list) \/ i = Len(list) + 1
  BY LenProperties
<1>7. \A i \in 1..(Len(list) + 1) : one[i] = two[i]
  <2>1. \A i \in 1..(Len(list) + 1) : one[i] = Append(list, e)[i].id
    BY <1>2, <1>4
  <2> QED
    BY <1>2, <1>3, <1>5, <1>6, <2>1
<1>8. Len(one) = Len(two)
  BY <1>2, <1>4, <1>5
<1> QED
  BY <1>2, <1>4, <1>5, <1>7, <1>8, SeqEqual DEF one, two

LEMMA IdsJoined ==
  ASSUME NEW S, NEW s \in Seq(S), NEW t \in Seq(S)
  PROVE  Ids(s \o t) = Ids(s) \o Ids(t)
<1> DEFINE I == {x.id : x \in S}
           one == Ids(s \o t)
           two == Ids(s) \o Ids(t)
<1>1. \A x \in S : x.id \in I
  OBVIOUS
<1> HIDE DEF I
<1>2. Len(s) \in Nat /\ Len(t) \in Nat
  BY LenProperties
<1>3. /\ s \o t \in Seq(S) /\ Len(s \o t) = Len(s) + Len(t)
      /\ \A i \in 1..(Len(s) + Len(t)) : (s \o t)[i] = IF i <= Len(s) THEN s[i] ELSE t[i - Len(s)]
  BY ConcatProperties
<1>4. /\ Ids(s) \in Seq(I) /\ Len(Ids(s)) = Len(s) /\ \A i \in 1..Len(s) : Ids(s)[i] = s[i].id
      /\ Ids(t) \in Seq(I) /\ Len(Ids(t)) = Len(t) /\ \A i \in 1..Len(t) : Ids(t)[i] = t[i].id
  BY <1>1, IdsOf
<1>5. /\ one \in Seq(I) /\ Len(one) = Len(s) + Len(t)
      /\ \A i \in 1..(Len(s) + Len(t)) : one[i] = (s \o t)[i].id
  <2>1. /\ one \in Seq(I) /\ Len(one) = Len(s \o t)
        /\ \A i \in 1..Len(s \o t) : one[i] = (s \o t)[i].id
    BY <1>1, <1>3, IdsOf
  <2> HIDE DEF one
  <2> QED
    BY <1>3, <2>1
<1>6. /\ two \in Seq(I) /\ Len(two) = Len(s) + Len(t)
      /\ \A i \in 1..(Len(s) + Len(t)) : two[i] = IF i <= Len(s) THEN Ids(s)[i] ELSE Ids(t)[i - Len(s)]
  <2>1. /\ two \in Seq(I) /\ Len(two) = Len(Ids(s)) + Len(Ids(t))
        /\ \A i \in 1..(Len(Ids(s)) + Len(Ids(t))) :
             two[i] = IF i <= Len(Ids(s)) THEN Ids(s)[i] ELSE Ids(t)[i - Len(Ids(s))]
    <3> DEFINE a == Ids(s)
               b == Ids(t)
    <3>1. a \in Seq(I) /\ b \in Seq(I)
      BY <1>4
    <3> HIDE DEF a, b
    <3>2. /\ a \o b \in Seq(I) /\ Len(a \o b) = Len(a) + Len(b)
          /\ \A i \in 1..(Len(a) + Len(b)) : (a \o b)[i] = IF i <= Len(a) THEN a[i] ELSE b[i - Len(a)]
      BY <3>1, ConcatProperties
    <3> QED
      BY <3>2 DEF a, b
  <2> HIDE DEF two
  <2> QED
    BY <1>4, <2>1
<1> HIDE DEF one, two
<1>7. ASSUME NEW i \in 1..(Len(s) + Len(t)) PROVE one[i] = two[i]
  <2>1. CASE i <= Len(s)
    <3>1. i \in 1..Len(s)
      BY <1>2, <2>1
    <3> QED
      BY <1>3, <1>4, <1>5, <1>6, <2>1, <3>1
  <2>2. CASE ~(i <= Len(s))
    <3>1. i - Len(s) \in 1..Len(t)
      BY <1>2, <2>2
    <3> QED
      BY <1>3, <1>4, <1>5, <1>6, <2>2, <3>1
  <2> QED
    BY <2>1, <2>2
<1> QED
  BY <1>5, <1>6, <1>7, SeqEqual DEF one, two

(* Upto is such a function whatever the list is of.                        *)
LEMMA UptoAny ==
  ASSUME NEW list, Len(list) \in Nat, NEW places
  PROVE  /\ Upto(list, places) = [n \in 0..Len(list) |-> Upto(list, places)[n]]
         /\ Picks(Upto(list, places), list, places, Len(list))
<1> DEFINE S == {list[n] : n \in 1..Len(list)}
<1>1. \A n \in 1..Len(list) : list[n] \in S
  OBVIOUS
<1> HIDE DEF S
<1>2. /\ Upto(list, places) \in [0..Len(list) -> Seq(S)]
      /\ Picks(Upto(list, places), list, places, Len(list))
  BY <1>1, UptoIs
<1> QED
  BY <1>2

(* Picking from ids is picking from what has them.                         *)
LEMMA PickedIds ==
  ASSUME NEW S, NEW list \in Seq(S), NEW places
  PROVE  Picked(Ids(list), places) = Ids(Picked(list, places))
<1> DEFINE I == {x.id : x \in S}
           m == Len(list)
           F == Upto(list, places)
           G == Upto(Ids(list), places)
           T == {n \in 0..m : G[n] = Ids(F[n])}
<1>1. \A x \in S : x.id \in I
  OBVIOUS
<1> HIDE DEF I
<1>2. m \in Nat /\ \A n \in 1..m : list[n] \in S
  BY LenProperties, ElementOfSeq
<1>3. /\ Ids(list) \in Seq(I) /\ Len(Ids(list)) = m
      /\ \A i \in 1..m : Ids(list)[i] = list[i].id
  BY <1>1, IdsOf
<1>4. F \in [0..m -> Seq(S)] /\ Picks(F, list, places, m)
  BY <1>2, UptoIs
<1>5. Picks(G, Ids(list), places, m)
  BY <1>2, <1>3, UptoAny
<1> HIDE DEF F, G
<1>6. 0 \in T
  <2>1. 0 \in 0..m /\ F[0] = <<>> /\ G[0] = <<>>
    BY <1>2, <1>4, <1>5 DEF Picks
  <2>2. Ids(<<>>) = <<>>
    BY DEF Ids
  <2> QED
    BY <2>1, <2>2
<1>7. ASSUME NEW n \in 0..m, n # m, n \in T PROVE n + 1 \in T
  <2>1. n + 1 \in 0..m /\ n + 1 \in 1..m /\ n + 1 # 0 /\ (n + 1) - 1 = n
    BY <1>2, <1>7
  <2>2. F[n + 1] = IF n + 1 \in places THEN Append(F[n], list[n + 1]) ELSE F[n]
    BY <1>4, <2>1 DEF Picks
  <2>3. G[n + 1] = IF n + 1 \in places THEN Append(G[n], Ids(list)[n + 1]) ELSE G[n]
    BY <1>5, <2>1 DEF Picks
  <2>4. F[n] \in Seq(S) /\ list[n + 1] \in S /\ Ids(list)[n + 1] = list[n + 1].id /\ G[n] = Ids(F[n])
    BY <1>2, <1>3, <1>4, <1>7, <2>1
  <2>5. Ids(Append(F[n], list[n + 1])) = Append(Ids(F[n]), list[n + 1].id)
    BY <2>4, IdsAppended
  <2>6. G[n + 1] = Ids(F[n + 1])
    BY <2>2, <2>3, <2>4, <2>5
  <2> QED
    BY <2>1, <2>6
<1> HIDE DEF T
<1>8. m \in T
  <2>1. m \in 0..m
    BY <1>2
  <2> QED
    BY <1>2, <1>6, <1>7, <2>1, Upwards
<1>9. G[m] = Ids(F[m])
  BY <1>8 DEF T
<1> QED
  BY <1>3, <1>9 DEF Picked, F, G, m

(* What passes the tests of the listings, and those of the viewer: one     *)
(* lemma for each test, since a lemma cannot be about any test.            *)
LEMMA ReadableIs ==
  ASSUME NEW list, Len(list) \in Nat
  PROVE  Filtered(list, Whole) = Picked(list, {n \in 1..Len(list) : list[n].whole})
<1> DEFINE m == Len(list)
           Step(f) == [n \in 0..Len(list) |->
                         IF n = 0 THEN <<>>
                         ELSE IF Whole(list[n]) THEN Append(f[n - 1], list[n]) ELSE f[n - 1]]
           upto == CHOOSE f : f = Step(f)
           places == {n \in 1..Len(list) : list[n].whole}
           F == Upto(list, places)
<1>1. Filtered(list, Whole) = upto[Len(list)]
  BY Zenon DEF Filtered
<1>2. \A n \in 0..m : n # 0 => (n \in places <=> Whole(list[n]))
  BY DEF Whole
<1>3. F = [n \in 0..m |-> F[n]] /\ Picks(F, list, places, m)
  BY UptoAny
<1> HIDE DEF places, F
<1>4. F = Step(F)
  <2>1. \A n \in 0..m : F[n] = IF n = 0 THEN <<>>
                               ELSE IF Whole(list[n]) THEN Append(F[n - 1], list[n]) ELSE F[n - 1]
    BY <1>2, <1>3 DEF Picks
  <2> QED
    BY <1>3, <2>1
<1>5. upto = Step(upto)
  BY <1>4
<1> HIDE DEF upto
<1>6. Picks(upto, list, places, m)
  <2>1. \A n \in 0..m : upto[n] = IF n = 0 THEN <<>>
                                  ELSE IF Whole(list[n]) THEN Append(upto[n - 1], list[n]) ELSE upto[n - 1]
    BY <1>5
  <2> QED
    BY <1>2, <2>1 DEF Picks
<1>7. \A n \in 0..m : upto[n] = F[n]
  BY <1>3, <1>6, PicksOnce
<1>8. m \in 0..m
  OBVIOUS
<1> QED
  BY <1>1, <1>7, <1>8 DEF Picked, F, places

LEMMA OnAirIs ==
  ASSUME NEW list, Len(list) \in Nat
  PROVE  Filtered(list, OnAir) = Picked(list, {n \in 1..Len(list) : list[n].live /\ list[n].whole})
<1> DEFINE m == Len(list)
           Step(f) == [n \in 0..Len(list) |->
                         IF n = 0 THEN <<>>
                         ELSE IF OnAir(list[n]) THEN Append(f[n - 1], list[n]) ELSE f[n - 1]]
           upto == CHOOSE f : f = Step(f)
           places == {n \in 1..Len(list) : list[n].live /\ list[n].whole}
           F == Upto(list, places)
<1>1. Filtered(list, OnAir) = upto[Len(list)]
  BY Zenon DEF Filtered
<1>2. \A n \in 0..m : n # 0 => (n \in places <=> OnAir(list[n]))
  BY DEF OnAir
<1>3. F = [n \in 0..m |-> F[n]] /\ Picks(F, list, places, m)
  BY UptoAny
<1> HIDE DEF places, F
<1>4. F = Step(F)
  <2>1. \A n \in 0..m : F[n] = IF n = 0 THEN <<>>
                               ELSE IF OnAir(list[n]) THEN Append(F[n - 1], list[n]) ELSE F[n - 1]
    BY <1>2, <1>3 DEF Picks
  <2> QED
    BY <1>3, <2>1
<1>5. upto = Step(upto)
  BY <1>4
<1> HIDE DEF upto
<1>6. Picks(upto, list, places, m)
  <2>1. \A n \in 0..m : upto[n] = IF n = 0 THEN <<>>
                                  ELSE IF OnAir(list[n]) THEN Append(upto[n - 1], list[n]) ELSE upto[n - 1]
    BY <1>5
  <2> QED
    BY <1>2, <2>1 DEF Picks
<1>7. \A n \in 0..m : upto[n] = F[n]
  BY <1>3, <1>6, PicksOnce
<1>8. m \in 0..m
  OBVIOUS
<1> QED
  BY <1>1, <1>7, <1>8 DEF Picked, F, places

LEMMA EntriesAre ==
  ASSUME NEW list, Len(list) \in Nat
  PROVE  Filtered(list, IsEntry) = Picked(list, {n \in 1..Len(list) : list[n] # Missing})
<1> DEFINE m == Len(list)
           Step(f) == [n \in 0..Len(list) |->
                         IF n = 0 THEN <<>>
                         ELSE IF IsEntry(list[n]) THEN Append(f[n - 1], list[n]) ELSE f[n - 1]]
           upto == CHOOSE f : f = Step(f)
           places == {n \in 1..Len(list) : list[n] # Missing}
           F == Upto(list, places)
<1>1. Filtered(list, IsEntry) = upto[Len(list)]
  BY Zenon DEF Filtered
<1>2. \A n \in 0..m : n # 0 => (n \in places <=> IsEntry(list[n]))
  BY DEF IsEntry
<1>3. F = [n \in 0..m |-> F[n]] /\ Picks(F, list, places, m)
  BY UptoAny
<1> HIDE DEF places, F
<1>4. F = Step(F)
  <2>1. \A n \in 0..m : F[n] = IF n = 0 THEN <<>>
                               ELSE IF IsEntry(list[n]) THEN Append(F[n - 1], list[n]) ELSE F[n - 1]
    BY <1>2, <1>3 DEF Picks
  <2> QED
    BY <1>3, <2>1
<1>5. upto = Step(upto)
  BY <1>4
<1> HIDE DEF upto
<1>6. Picks(upto, list, places, m)
  <2>1. \A n \in 0..m : upto[n] = IF n = 0 THEN <<>>
                                  ELSE IF IsEntry(list[n]) THEN Append(upto[n - 1], list[n]) ELSE upto[n - 1]
    BY <1>5
  <2> QED
    BY <1>2, <2>1 DEF Picks
<1>7. \A n \in 0..m : upto[n] = F[n]
  BY <1>3, <1>6, PicksOnce
<1>8. m \in 0..m
  OBVIOUS
<1> QED
  BY <1>1, <1>7, <1>8 DEF Picked, F, places

LEMMA PromisedAre ==
  ASSUME NEW list, Len(list) \in Nat
  PROVE  Filtered(list, Promised) = Picked(list, {n \in 1..Len(list) : Promised(list[n])})
<1> DEFINE m == Len(list)
           Step(f) == [n \in 0..Len(list) |->
                         IF n = 0 THEN <<>>
                         ELSE IF Promised(list[n]) THEN Append(f[n - 1], list[n]) ELSE f[n - 1]]
           upto == CHOOSE f : f = Step(f)
           places == {n \in 1..Len(list) : Promised(list[n])}
           F == Upto(list, places)
<1>1. Filtered(list, Promised) = upto[Len(list)]
  BY Zenon DEF Filtered
<1>2. \A n \in 0..m : n # 0 => (n \in places <=> Promised(list[n]))
  BY DEF Promised
<1>3. F = [n \in 0..m |-> F[n]] /\ Picks(F, list, places, m)
  BY UptoAny
<1> HIDE DEF places, F
<1>4. F = Step(F)
  <2>1. \A n \in 0..m : F[n] = IF n = 0 THEN <<>>
                               ELSE IF Promised(list[n]) THEN Append(F[n - 1], list[n]) ELSE F[n - 1]
    BY <1>2, <1>3 DEF Picks
  <2> QED
    BY <1>3, <2>1
<1>5. upto = Step(upto)
  BY <1>4
<1> HIDE DEF upto
<1>6. Picks(upto, list, places, m)
  <2>1. \A n \in 0..m : upto[n] = IF n = 0 THEN <<>>
                                  ELSE IF Promised(list[n]) THEN Append(upto[n - 1], list[n]) ELSE upto[n - 1]
    BY <1>5
  <2> QED
    BY <1>2, <2>1 DEF Picks
<1>7. \A n \in 0..m : upto[n] = F[n]
  BY <1>3, <1>6, PicksOnce
<1>8. m \in 0..m
  OBVIOUS
<1> QED
  BY <1>1, <1>7, <1>8 DEF Picked, F, places

-----------------------------------------------------------------------------
(* A listing, page by page.                                                *)

(* How many entries the first pages show.                                  *)
Reached(pages, entries) ==
  IF pages * PageSize < Len(entries) THEN pages * PageSize ELSE Len(entries)

(* The entries of a list that the viewer is promised.                      *)
Served(list) == {n \in 1..Len(list) : Promised(list[n])}

ShownOf(n) == Ids(Upto(site.entries, Served(site.entries))[n])

Page(p) == PageOf(site.entries, (p - 1) * PageSize)

LEMMA Multiples ==
  ASSUME NEW p \in Nat \ {0}
  PROVE  /\ (p - 1) * PageSize \in Nat /\ p * PageSize \in Nat
         /\ p * PageSize = (p - 1) * PageSize + PageSize
         /\ ((p - 1) * PageSize) \div PageSize = p - 1
<1>1. PageSize \in Nat \ {0} /\ p - 1 \in Nat
  BY ExtractionAssumption
<1>2. p * PageSize = (p - 1) * PageSize + PageSize
  BY <1>1, SMT
<1>3. (p - 1) * PageSize \in Nat
  BY <1>1, SMT
<1>4. ((p - 1) * PageSize) \div PageSize = p - 1
  BY <1>1, <1>3, SMT
<1> QED
  BY <1>1, <1>2, <1>3, <1>4

(* The number of pages, rounded up.                                        *)
LEMMA PagesAre ==
  ASSUME NEW p \in Nat \ {0}, NEW n \in Nat
  PROVE  p < (n + PageSize - 1) \div PageSize <=> p * PageSize < n
<1> DEFINE a == n + PageSize - 1
           q == a \div PageSize
<1>1. PageSize \in Nat \ {0} /\ a \in Nat
  BY ExtractionAssumption
<1> HIDE DEF a
<1>2. q \in Nat /\ PageSize * q <= a /\ a < PageSize * q + PageSize
  BY <1>1, SMT
<1> HIDE DEF q
<1>3. PageSize * q \in Nat /\ p * PageSize \in Nat
  BY <1>1, <1>2, SMT
<1>4. ASSUME p < q PROVE p * PageSize < n
  <2>1. p + 1 <= q /\ p + 1 \in Nat
    BY <1>2, <1>4
  <2>2. (p + 1) * PageSize <= PageSize * q
    BY <1>1, <1>2, <2>1, SMT
  <2>3. (p + 1) * PageSize = p * PageSize + PageSize
    BY <1>1, SMT
  <2> QED
    BY <1>1, <1>2, <1>3, <2>2, <2>3 DEF a
<1>5. ASSUME ~(p < q) PROVE ~(p * PageSize < n)
  <2>1. PageSize * q <= p * PageSize
    BY <1>1, <1>2, <1>5, SMT
  <2> QED
    BY <1>1, <1>2, <1>3, <2>1 DEF a
<1> QED
  BY <1>4, <1>5 DEF q, a

LEMMA PageIs ==
  ASSUME NEW S, NEW entries \in Seq(S), NEW p \in Nat \ {0}, NEW body,
         body = PageOf(entries, (p - 1) * PageSize)
  PROVE  /\ body.list \in Seq(S)
         /\ Reached(p - 1, entries) \in Nat /\ Reached(p, entries) <= Len(entries)
         /\ Reached(p - 1, entries) + Len(body.list) = Reached(p, entries)
         /\ \A n \in 1..Len(body.list) : body.list[n] = entries[Reached(p - 1, entries) + n]
         /\ body.more <=> p * PageSize < Len(entries)
         /\ p < body.pages <=> p * PageSize < Len(entries)
         /\ body.page = p /\ body.found = Len(entries)
         /\ RowsBefore(p) + Len(body.list) < body.found <=> p * PageSize < Len(entries)
         /\ Len(body.list) < PageSize => Reached(p, entries) = Len(entries)
         /\ body.list # <<>> => (p - 1) * PageSize < Len(entries)
<1> DEFINE L == Len(entries)
           from == (p - 1) * PageSize
           to == p * PageSize
           end == IF to < L THEN to ELSE L
           list == SubSeq(entries, from + 1, end)
           low == Reached(p - 1, entries)
<1>1. /\ L \in Nat /\ PageSize \in Nat \ {0} /\ from \in Nat /\ to \in Nat /\ to = from + PageSize
      /\ from \div PageSize = p - 1 /\ p \in Nat
  BY ExtractionAssumption, Multiples, LenProperties
<1>2. /\ body.list = SubSeq(entries, from + 1, IF from + PageSize < L THEN from + PageSize ELSE L)
      /\ body.more = (from + PageSize < L)
      /\ body.page = from \div PageSize + 1 /\ body.found = L
      /\ body.pages = (L + PageSize - 1) \div PageSize
  BY DEF PageOf
<1>3. low = (IF from < L THEN from ELSE L) /\ Reached(p, entries) = end
  BY DEF Reached
<1>4. p < body.pages <=> to < L
  BY <1>1, <1>2, PagesAre
<1>5. RowsBefore(p) = from
  BY DEF RowsBefore
<1> HIDE DEF L, from, to
<1>6. body.list = list /\ (body.more <=> to < L) /\ body.page = p
  <2>1. (p - 1) + 1 = p
    BY <1>1
  <2>2. from + PageSize = to
    BY <1>1
  <2>3. body.page = p
    BY <1>1, <1>2, <2>1
  <2> QED
    BY <1>2, <2>2, <2>3
<1>7. end \in Nat /\ end <= L /\ low \in Nat
  BY <1>1, <1>3
<1> HIDE DEF end, low
<1>8. /\ list \in Seq(S) /\ Len(list) = IF from + 1 <= end THEN end - (from + 1) + 1 ELSE 0
      /\ \A n \in 1..(end - (from + 1) + 1) : list[n] = entries[(from + 1) + n - 1]
  <2>1. \A i \in (from + 1)..end : entries[i] \in S
    <3>1. \A i \in (from + 1)..end : i \in 1..L
      BY <1>1, <1>7
    <3> QED
      BY <3>1, ElementOfSeq DEF L
  <2>2. from + 1 \in Int /\ end \in Int
    BY <1>1, <1>7
  <2> QED
    BY <2>1, <2>2, SubSeqProperties
<1> HIDE DEF list
<1>9. low + Len(list) = end
  BY <1>1, <1>3, <1>8 DEF end
<1>10. ASSUME NEW n \in 1..Len(list) PROVE list[n] = entries[low + n]
  <2>1. from + 1 <= end /\ n \in 1..(end - (from + 1) + 1) /\ n \in Nat
    BY <1>1, <1>7, <1>8, <1>10
  <2>2. from < L /\ low = from
    BY <1>1, <1>3, <1>7, <2>1
  <2>3. (from + 1) + n - 1 = low + n
    BY <1>1, <2>1, <2>2
  <2> QED
    BY <1>8, <2>1, <2>3
<1>11. Len(list) < PageSize => end = L
  BY <1>1, <1>8 DEF end
<1>12. list # <<>> => from < L
  <2>1. ~(from < L) => Len(list) = 0
    BY <1>1, <1>7, <1>8
  <2> QED
    BY <1>8, <2>1, EmptySeq
<1>13. from + Len(list) < L <=> to < L
  BY <1>1, <1>8 DEF end
<1>14. /\ Reached(p - 1, entries) = low /\ Reached(p, entries) = end
       /\ body.list = list /\ body.found = L /\ body.page = p
  BY <1>2, <1>3, <1>6 DEF low
<1>15. /\ body.list \in Seq(S) /\ Reached(p - 1, entries) \in Nat /\ Reached(p, entries) <= L
       /\ Reached(p - 1, entries) + Len(body.list) = Reached(p, entries)
       /\ \A n \in 1..Len(body.list) : body.list[n] = entries[Reached(p - 1, entries) + n]
  BY <1>7, <1>8, <1>9, <1>10, <1>14
<1>16. RowsBefore(p) + Len(body.list) < body.found <=> to < L
  BY <1>5, <1>13, <1>14
<1>17. /\ Len(body.list) < PageSize => Reached(p, entries) = L
       /\ body.list # <<>> => from < L
  BY <1>11, <1>12, <1>14
<1> QED
  BY <1>4, <1>6, <1>14, <1>15, <1>16, <1>17 DEF L, from, to

(* What an extractor makes of a page that it is served.                    *)
TellsPage(out, p) ==
  /\ out # NoResult /\ out.ok
  /\ \/ out.value.items = Ids(Picked(Page(p).list, Served(Page(p).list)))
     \/ ~LiveOnly /\ out.value.items = Ids(Page(p).list)
  /\ out.value.more => (p - 1) * PageSize < Len(site.entries)
  /\ (~out.value.more /\ (CountsEntries => \A i \in DOMAIN site.entries : site.entries[i].whole)) =>
       Reached(p, site.entries) = Len(site.entries)

LEMMA ListingIs ==
  ASSUME NEW list, NEW more
  PROVE  /\ Listing(list, more) # NoResult /\ Listing(list, more).ok
         /\ Listing(list, more).value.items = Ids(list) /\ Listing(list, more).value.more = more
<1> DEFINE out == Listing(list, more)
<1>1. DOMAIN out = {"ok", "value"} /\ DOMAIN NoResult = {"asking"}
  BY DEF Listing, Success, NoResult
<1>2. "ok" # "asking"
  OBVIOUS
<1>3. out # NoResult
  BY <1>1, <1>2
<1> QED
  BY <1>3 DEF Listing, Success, Ids

LEMMA EntriesAreTyped ==
  ASSUME platform \in Platforms, site \in Sites(platform)
  PROVE  /\ site.entries \in Seq(Range(site.entries)) /\ Len(site.entries) \in Nat
         /\ \A e \in Range(site.entries) :
              e.whole \in BOOLEAN /\ e.live \in BOOLEAN /\ (e.whole <=> e.id # Missing)
<1>1. /\ site.entries \in Seq(Range(site.entries))
      /\ \A i \in DOMAIN site.entries :
           /\ site.entries[i].whole \in BOOLEAN /\ site.entries[i].live \in BOOLEAN
           /\ site.entries[i].whole <=> site.entries[i].id # Missing
  BY ExtractorAssumption
<1>2. \A e \in Range(site.entries) : \E i \in DOMAIN site.entries : site.entries[i] = e
  BY DEF Range
<1> QED
  BY <1>1, <1>2, LenProperties

(* The tests of the listings pass what is promised.                        *)
LEMMA PageIsServed ==
  ASSUME platform \in Platforms, site \in Sites(platform), NEW p \in Nat \ {0}
  PROVE  LET list == Page(p).list
         IN  /\ ~LiveOnly => Readable(list) = Picked(list, Served(list))
             /\ LiveOnly => Filtered(list, OnAir) = Picked(list, Served(list))
             /\ list = <<>> => Picked(list, Served(list)) = <<>>
             /\ (~LiveOnly /\ \A i \in DOMAIN site.entries : site.entries[i].whole) =>
                  Picked(list, Served(list)) = list
<1> DEFINE list == Page(p).list
           S == Range(site.entries)
<1>1. list \in Seq(S) /\ Len(list) \in Nat /\ \A n \in 1..Len(list) : list[n] \in S
  <2> DEFINE entries == site.entries
  <2>0. entries \in Seq(S) /\ list = PageOf(entries, (p - 1) * PageSize).list
    BY EntriesAreTyped DEF Page
  <2> HIDE DEF list, S, entries
  <2>1. list \in Seq(S)
    BY <2>0, PageIs
  <2> QED
    BY <2>1, LenProperties, ElementOfSeq
<1>2. \A n \in 1..Len(list) : list[n].whole \in BOOLEAN /\ list[n].live \in BOOLEAN
  BY <1>1, EntriesAreTyped
<1> HIDE DEF list, S
<1>3. ~LiveOnly => Readable(list) = Picked(list, Served(list))
  <2>1. Readable(list) = Picked(list, {n \in 1..Len(list) : list[n].whole})
    BY <1>1, ReadableIs DEF Readable
  <2>2. ~LiveOnly => {n \in 1..Len(list) : list[n].whole} = Served(list)
    BY <1>2 DEF Served, Promised
  <2> QED
    BY <2>1, <2>2
<1>4. LiveOnly => Filtered(list, OnAir) = Picked(list, Served(list))
  <2>1. Filtered(list, OnAir) = Picked(list, {n \in 1..Len(list) : list[n].live /\ list[n].whole})
    BY <1>1, OnAirIs
  <2>2. LiveOnly => {n \in 1..Len(list) : list[n].live /\ list[n].whole} = Served(list)
    BY <1>2 DEF Served, Promised
  <2> QED
    BY <2>1, <2>2
<1>5. list = <<>> => Picked(list, Served(list)) = <<>>
  <2>1. list = <<>> => \A n \in 1..Len(list) : n \in Served(list)
    BY <1>1
  <2> QED
    BY <1>1, <2>1, PickedAll
<1>6. ASSUME ~LiveOnly, \A i \in DOMAIN site.entries : site.entries[i].whole
      PROVE  Picked(list, Served(list)) = list
  <2>1. \A e \in S : e.whole
    BY <1>6 DEF S, Range
  <2>2. \A n \in 1..Len(list) : n \in Served(list)
    BY <1>1, <1>6, <2>1 DEF Served, Promised
  <2> QED
    BY <1>1, <2>2, PickedAll
<1> QED
  BY <1>3, <1>4, <1>5, <1>6 DEF list

(* The rules by which the extractors tell whether there are more.          *)
LEMMA FlagTells ==
  ASSUME platform \in Platforms, site \in Sites(platform), NEW p \in Nat \ {0}, NEW out, NEW list, NEW more,
         out = Listing(list, more),
         list = Picked(Page(p).list, Served(Page(p).list)) \/ (~LiveOnly /\ list = Page(p).list),
         more <=> p * PageSize < Len(site.entries)
  PROVE  TellsPage(out, p)
<1>1. out # NoResult /\ out.ok /\ out.value.items = Ids(list) /\ out.value.more = more
  BY ListingIs
<1>2. /\ (p - 1) * PageSize \in Nat /\ p * PageSize \in Nat /\ PageSize \in Nat /\ Len(site.entries) \in Nat
      /\ p * PageSize = (p - 1) * PageSize + PageSize
  BY Multiples, ExtractionAssumption, EntriesAreTyped
<1>3. more => (p - 1) * PageSize < Len(site.entries)
  BY <1>2
<1>4. ~more => Reached(p, site.entries) = Len(site.entries)
  BY <1>2 DEF Reached
<1> QED
  BY <1>1, <1>3, <1>4 DEF TellsPage

(* Counting what could be read.                                            *)
LEMMA CountTells ==
  ASSUME platform \in Platforms, site \in Sites(platform), NEW p \in Nat \ {0}, NEW out, NEW list, NEW more,
         out = Listing(list, more), list = Readable(Page(p).list), ~LiveOnly, CountsEntries,
         (more <=> Len(list) >= PageSize) \/ (more <=> list # <<>>)
  PROVE  TellsPage(out, p)
<1> DEFINE all == Page(p).list
<1>1. out # NoResult /\ out.ok /\ out.value.items = Ids(list) /\ out.value.more = more
  BY ListingIs
<1>2. /\ list = Picked(all, Served(all)) /\ (all = <<>> => list = <<>>)
      /\ (\A i \in DOMAIN site.entries : site.entries[i].whole) => list = all
  BY PageIsServed
<1>3. /\ all \in Seq(Range(site.entries))
      /\ Len(all) < PageSize => Reached(p, site.entries) = Len(site.entries)
      /\ all # <<>> => (p - 1) * PageSize < Len(site.entries)
  <2> DEFINE body == Page(p)
             entries == site.entries
  <2>1. body = PageOf(entries, (p - 1) * PageSize) /\ entries \in Seq(Range(entries))
    BY EntriesAreTyped DEF Page
  <2> HIDE DEF body, entries
  <2>2. /\ body.list \in Seq(Range(entries))
        /\ Len(body.list) < PageSize => Reached(p, entries) = Len(entries)
        /\ body.list # <<>> => (p - 1) * PageSize < Len(entries)
    BY <2>1, PageIs
  <2> QED
    BY <2>2 DEF body, entries
<1> HIDE DEF all
<1>4. PageSize \in Nat \ {0} /\ Len(<<>>) = 0 /\ Len(all) \in Nat
  BY <1>3, ExtractionAssumption, LenProperties
<1>5. more => list # <<>>
  BY <1>4
<1>6. ASSUME ~more, \A i \in DOMAIN site.entries : site.entries[i].whole
      PROVE  Reached(p, site.entries) = Len(site.entries)
  <2>1. list = all
    BY <1>2, <1>6
  <2>2. Len(all) < PageSize
    BY <1>4, <1>6, <2>1
  <2> QED
    BY <1>3, <2>2
<1> QED
  BY <1>1, <1>2, <1>3, <1>5, <1>6 DEF TellsPage, all

(* Each of the seven rules, on the platform that goes by it, fits.         *)
LEMMA PageTells ==
  ASSUME ExtractorInv, op \in ListingOps, HasPages, page \in Nat \ {0}, page <= Len(site.entries) \div PageSize + 2,
         Last(heard) = Page(page)
  PROVE  TellsPage(Outcome, page)
<1> DEFINE body == Page(page)
           entries == site.entries
           goesOn == page * PageSize < Len(entries)
<1>1. platform \in Platforms /\ site \in Sites(platform)
  BY ExtractorAssumption DEF ExtractorInv, Ops
<1>2. entries \in Seq(Range(entries)) /\ Len(entries) \in Nat
  BY <1>1, EntriesAreTyped
<1>3. body = PageOf(entries, (page - 1) * PageSize)
  BY DEF Page
<1> HIDE DEF body, entries
<1>4. /\ body.list \in Seq(Range(entries))
      /\ body.more <=> goesOn
      /\ page < body.pages <=> goesOn
      /\ body.page = page
      /\ RowsBefore(page) + Len(body.list) < body.found <=> goesOn
      /\ Len(body.list) < PageSize => Reached(page, entries) = Len(entries)
      /\ body.list # <<>> => (page - 1) * PageSize < Len(entries)
  <2> DEFINE S == Range(entries)
  <2>1. entries \in Seq(S)
    BY <1>2
  <2> HIDE DEF S, goesOn
  <2>2. body.list \in Seq(S)
    BY <1>3, <2>1, PageIs
  <2>3. /\ body.more <=> page * PageSize < Len(entries)
        /\ page < body.pages <=> page * PageSize < Len(entries)
        /\ body.page = page
    BY <1>3, <2>1, PageIs
  <2>4. RowsBefore(page) + Len(body.list) < body.found <=> page * PageSize < Len(entries)
    BY <1>3, <2>1, PageIs
  <2>5. /\ Len(body.list) < PageSize => Reached(page, entries) = Len(entries)
        /\ body.list # <<>> => (page - 1) * PageSize < Len(entries)
    BY <1>3, <2>1, PageIs
  <2> QED
    BY <2>2, <2>3, <2>4, <2>5 DEF S, goesOn
<1> HIDE DEF goesOn
<1>5. /\ ~LiveOnly => Readable(body.list) = Picked(body.list, Served(body.list))
      /\ LiveOnly => Filtered(body.list, OnAir) = Picked(body.list, Served(body.list))
  BY <1>1, PageIsServed DEF body
<1>6. \A list, more :
        (\/ list = Picked(body.list, Served(body.list))
         \/ ~LiveOnly /\ list = body.list) /\ (more <=> goesOn) => TellsPage(Listing(list, more), page)
  BY <1>1, FlagTells DEF body, goesOn, entries
<1>7. ~LiveOnly /\ CountsEntries =>
        \A more : (more <=> Len(Readable(body.list)) >= PageSize) \/ (more <=> Readable(body.list) # <<>>) =>
          TellsPage(Listing(Readable(body.list), more), page)
  BY <1>1, CountTells DEF body
<1>8. Last(heard) = body
  BY DEF body
<1>9. body # Missing /\ PageIn(body) = body
  <2>1. page \in 1..(Len(entries) \div PageSize + 2)
    <3>1. Len(entries) \div PageSize \in Nat
      BY <1>2, ExtractionAssumption
    <3> QED
      BY <3>1 DEF entries
  <2>2. body # Missing
    BY <1>1, <1>3, <2>1, ExtractorAssumption DEF entries
  <2> QED
    BY <2>2 DEF PageIn
<1>10. CASE platform = "bilibili"
  <2>1. ~LiveOnly
    BY <1>10 DEF LiveOnly
  <2>2. CASE op \in {"search_rooms", "search_anchors"}
    <3>1. Outcome = Listing(Readable(body.list), Len(Readable(body.list)) >= PageSize)
      BY <1>8, <1>10, <1>9, <2>2 DEF Outcome, BilibiliResult, BilibiliSearch
    <3>2. CountsEntries
      BY <1>10, <2>2 DEF CountsEntries
    <3> QED
      BY <1>7, <2>1, <3>1, <3>2
  <2>3. CASE op \in {"category_rooms", "recommend_rooms"}
    <3>1. Outcome = Listing(Readable(body.list), body.more)
      BY <1>8, <1>10, <1>9, <2>3 DEF Outcome, BilibiliResult, BilibiliRooms
    <3> QED
      BY <1>4, <1>5, <1>6, <2>1, <3>1
  <2> QED
    BY <2>2, <2>3 DEF ListingOps
<1>11. CASE platform = "douyu"
  <2>2. CASE op = "search_rooms"
    <3>1. Outcome = Listing(Readable(body.list), body.list # <<>>)
      BY <1>8, <1>11, <1>9, <2>2 DEF Outcome, DouyuResult, DouyuSearch
    <3>2. ~LiveOnly
      BY <1>11, <2>2 DEF LiveOnly
    <3>3. Outcome # NoResult /\ Outcome.ok /\ Outcome.value.items = Ids(Readable(body.list)) /\ Outcome.value.more = (body.list # <<>>)
      BY <3>1, ListingIs
    <3>4. body.list = <<>> => Reached(page, entries) = Len(entries)
      BY <1>4, ExtractionAssumption
    <3> QED
      BY <1>4, <1>5, <3>2, <3>3, <3>4 DEF TellsPage, body, entries
  <2>3. CASE op = "search_anchors"
    <3>1. Outcome = Listing(Readable(body.list), Readable(body.list) # <<>>)
      BY <1>8, <1>11, <1>9, <2>3 DEF Outcome, DouyuResult, DouyuSearch
    <3>2. ~LiveOnly /\ CountsEntries
      BY <1>11, <2>3 DEF LiveOnly, CountsEntries
    <3> QED
      BY <1>7, <3>1, <3>2
  <2>4. CASE op \in {"category_rooms", "recommend_rooms"}
    <3>1. Outcome = Listing(Filtered(body.list, OnAir), page < body.pages)
      BY <1>8, <1>11, <1>9, <2>4 DEF Outcome, DouyuResult, DouyuRooms
    <3>2. LiveOnly
      BY <1>11, <2>4 DEF LiveOnly
    <3> QED
      BY <1>4, <1>5, <1>6, <3>1, <3>2
  <2> QED
    BY <2>2, <2>3, <2>4 DEF ListingOps
<1>12. CASE platform = "huya"
  <2>1. ~LiveOnly
    BY <1>12 DEF LiveOnly
  <2>2. CASE op \in {"search_rooms", "search_anchors"}
    <3>1. Outcome = Listing(body.list, RowsBefore(page) + Len(body.list) < body.found)
      BY <1>8, <1>12, <2>2 DEF Outcome, HuyaResult, HuyaSearch
    <3> QED
      BY <1>4, <1>6, <2>1, <3>1
  <2>3. CASE op \in {"category_rooms", "recommend_rooms"}
    <3>1. Outcome = Listing(Readable(body.list), body.page < body.pages)
      BY <1>8, <1>12, <2>3 DEF Outcome, HuyaResult, HuyaRooms
    <3> QED
      BY <1>4, <1>5, <1>6, <2>1, <3>1
  <2> QED
    BY <2>2, <2>3 DEF ListingOps
<1>13. CASE platform = "douyin"
  <2>1. ~LiveOnly /\ CountsEntries /\ op \in {"search_rooms", "category_rooms"}
    BY <1>13 DEF LiveOnly, CountsEntries, HasPages, ListingOps
  <2>3. Outcome = Listing(Readable(body.list), Len(Readable(body.list)) >= PageSize)
    BY <1>8, <1>13, <1>9, <2>1
       DEF Outcome, DouyinResult, DouyinSearch, DouyinCategoryRooms, DouyinPage
  <2> QED
    BY <1>7, <2>1, <2>3
<1>14. CASE platform = "twitch"
  <2>1. CASE op = "search_rooms"
    <3>1. Outcome = Listing(Filtered(body.list, OnAir), body.more)
      BY <1>8, <1>14, <1>9, <2>1 DEF Outcome, TwitchResult, TwitchSearchRooms
    <3>2. LiveOnly
      BY <1>14, <2>1 DEF LiveOnly
    <3> QED
      BY <1>4, <1>5, <1>6, <3>1, <3>2
  <2>2. CASE op \in {"search_anchors", "category_rooms", "recommend_rooms"}
    <3>1. Outcome = Listing(Readable(body.list), body.more)
      BY <1>8, <1>14, <1>9, <2>2 DEF Outcome, TwitchResult, TwitchSearchAnchors, TwitchStreams
    <3>2. ~LiveOnly
      BY <1>14, <2>2 DEF LiveOnly
    <3> QED
      BY <1>4, <1>5, <1>6, <3>1, <3>2
  <2> QED
    BY <2>1, <2>2 DEF ListingOps
<1> QED
  BY <1>1, <1>10, <1>11, <1>12, <1>13, <1>14 DEF Platforms

-----------------------------------------------------------------------------
(* What the viewer is shown.                                               *)

EntryIds == {e.id : e \in Range(site.entries)}

LEMMA EntryIdsAre == \A e \in Range(site.entries) : e.id \in EntryIds
BY DEF EntryIds

(* What passes of two lists one after the other.                           *)
LEMMA EntriesJoined ==
  ASSUME NEW I, NEW s \in Seq(I), NEW t \in Seq(I)
  PROVE  Filtered(s \o t, IsEntry) = Filtered(s, IsEntry) \o Filtered(t, IsEntry)
<1> DEFINE long == s \o t
           E(list) == {n \in 1..Len(list) : list[n] # Missing}
           m == Len(s)
<1>1. m \in Nat /\ Len(t) \in Nat
  BY LenProperties
<1>2. /\ long \in Seq(I) /\ Len(long) = m + Len(t)
      /\ \A i \in 1..(m + Len(t)) : long[i] = IF i <= m THEN s[i] ELSE t[i - m]
  BY ConcatProperties
<1> HIDE DEF long
<1>0. Len(long) \in Nat /\ m + Len(t) <= Len(long)
  BY <1>1, <1>2
<1>3. /\ Filtered(long, IsEntry) = Picked(long, E(long))
      /\ Filtered(s, IsEntry) = Picked(s, E(s))
      /\ Filtered(t, IsEntry) = Picked(t, E(t))
  <2>1. Filtered(long, IsEntry) = Picked(long, E(long))
    BY <1>0, EntriesAre
  <2>2. Filtered(s, IsEntry) = Picked(s, E(s))
    BY <1>1, EntriesAre
  <2>3. Filtered(t, IsEntry) = Picked(t, E(t))
    BY <1>1, EntriesAre
  <2> QED
    BY <2>1, <2>2, <2>3
<1>4. \A n \in 1..m : long[n] = s[n] /\ (n \in E(long) <=> n \in E(s))
  <2>1. \A n \in 1..m : n \in 1..(m + Len(t)) /\ n <= m
    BY <1>1
  <2> QED
    BY <1>2, <2>1
<1>5. \A n \in 1..Len(t) : t[n] = long[m + n] /\ (n \in E(t) <=> m + n \in E(long))
  <2>1. \A n \in 1..Len(t) : m + n \in 1..(m + Len(t)) /\ ~(m + n <= m) /\ (m + n) - m = n
    BY <1>1
  <2> QED
    BY <1>2, <2>1
<1> HIDE DEF E
<1>6. Upto(long, E(long))[m + Len(t)] = Upto(long, E(long))[m] \o Picked(t, E(t))
  <2> DEFINE K == E(long)
             K1 == E(t)
  <2>1. \A n \in 1..Len(t) : t[n] = long[m + n] /\ (n \in K1 <=> m + n \in K)
    BY <1>5
  <2> HIDE DEF K, K1, m
  <2>2. Upto(long, K)[m + Len(t)] = Upto(long, K)[m] \o Picked(t, K1)
    BY <1>0, <1>1, <1>2, <2>1, PickedOn
  <2> QED
    BY <2>2 DEF K, K1
<1>7. Upto(long, E(long))[m] = Picked(s, E(s))
  <2> DEFINE F == Upto(long, E(long))
             G == Upto(s, E(s))
  <2>1. Picks(F, long, E(long), Len(long)) /\ Picks(G, s, E(s), m)
    BY <1>0, <1>1, UptoAny
  <2> HIDE DEF F, G
  <2>2. Picks(F, long, E(long), m)
    <3>1. \A n \in 0..m : n \in 0..Len(long)
      BY <1>1, <1>2
    <3> QED
      BY <2>1, <3>1 DEF Picks
  <2>3. \A n \in 0..m : F[n] = G[n]
    BY <1>1, <1>4, <2>1, <2>2, PicksOnce
  <2>4. m \in 0..m
    BY <1>1
  <2> QED
    BY <2>3, <2>4 DEF Picked, F, G, m
<1> QED
  BY <1>2, <1>3, <1>6, <1>7 DEF Picked, long

(* A page that is shown adds what was promised of it.                      *)
LEMMA PageShown ==
  ASSUME platform \in Platforms, site \in Sites(platform), NEW p \in Nat \ {0},
         NEW before \in Seq(EntryIds), NEW items,
         Filtered(before, IsEntry) = ShownOf(Reached(p - 1, site.entries)),
         \/ items = Ids(Picked(Page(p).list, Served(Page(p).list)))
         \/ ~LiveOnly /\ items = Ids(Page(p).list)
  PROVE  /\ before \o items \in Seq(EntryIds)
         /\ Filtered(before \o items, IsEntry) = ShownOf(Reached(p, site.entries))
<1> DEFINE entries == site.entries
           S == Range(entries)
           body == Page(p)
           list == body.list
           low == Reached(p - 1, entries)
           P == Picked(list, Served(list))
<1>1. /\ entries \in Seq(S) /\ Len(entries) \in Nat
      /\ \A e \in S : e.whole \in BOOLEAN /\ e.live \in BOOLEAN /\ (e.whole <=> e.id # Missing)
      /\ \A e \in S : e.id \in EntryIds
  BY EntriesAreTyped, EntryIdsAre
<1>2. body = PageOf(entries, (p - 1) * PageSize)
  BY DEF Page
<1> HIDE DEF S, body
<1>3. /\ list \in Seq(S) /\ low \in Nat /\ Reached(p, entries) <= Len(entries)
      /\ low + Len(list) = Reached(p, entries)
      /\ \A n \in 1..Len(list) : list[n] = entries[low + n]
  <2> HIDE DEF entries
  <2>1. /\ body.list \in Seq(S)
        /\ Reached(p - 1, entries) \in Nat /\ Reached(p, entries) <= Len(entries)
    BY <1>1, <1>2, PageIs
  <2>2. Reached(p - 1, entries) + Len(body.list) = Reached(p, entries)
    BY <1>1, <1>2, PageIs
  <2>3. \A n \in 1..Len(body.list) : body.list[n] = entries[Reached(p - 1, entries) + n]
    BY <1>1, <1>2, PageIs
  <2> QED
    BY <2>1, <2>2, <2>3
<1> HIDE DEF entries, low, list
<1>4. Len(list) \in Nat /\ \A n \in 1..Len(list) : list[n] \in S
  BY <1>3, LenProperties, ElementOfSeq
<1>5. P \in Seq({e \in S : e.whole}) /\ P \in Seq(S)
  <2>1. \A n \in 1..Len(list) : n \in Served(list) => list[n] \in {e \in S : e.whole}
    BY <1>4 DEF Served, Promised
  <2> DEFINE W == {e \in S : e.whole}
  <2>2. P \in Seq(W)
    <3> HIDE DEF W
    <3> QED
      BY <1>4, <2>1, UptoIs DEF W
  <2>3. P \in Seq(S)
    BY <1>4, UptoIs
  <2> QED
    BY <2>2, <2>3
<1> HIDE DEF P
<1>6. items \in Seq(EntryIds) /\ Filtered(items, IsEntry) = Ids(P)
  <2>1. CASE items = Ids(P)
    <3>1. /\ items \in Seq(EntryIds) /\ Len(items) = Len(P)
          /\ \A n \in 1..Len(P) : items[n] = P[n].id
      BY <1>1, <1>5, <2>1, IdsOf
    <3>2. \A n \in 1..Len(P) : P[n] \in {e \in S : e.whole}
      BY <1>5, ElementOfSeq
    <3> DEFINE E == {n \in 1..Len(items) : items[n] # Missing}
    <3>3. \A n \in 1..Len(items) : n \in E
      BY <1>1, <3>1, <3>2
    <3>4. Len(items) \in Nat /\ Filtered(items, IsEntry) = Picked(items, E)
      BY <3>1, EntriesAre, LenProperties
    <3> HIDE DEF E
    <3>5. Picked(items, E) = items
      BY <3>1, <3>3, PickedAll
    <3> QED
      BY <2>1, <3>1, <3>4, <3>5
  <2>2. CASE ~LiveOnly /\ items = Ids(list)
    <3>1. /\ items \in Seq(EntryIds) /\ Len(items) = Len(list)
          /\ \A n \in 1..Len(list) : items[n] = list[n].id
      BY <1>1, <1>3, <2>2, IdsOf
    <3> DEFINE E == {n \in 1..Len(items) : items[n] # Missing}
    <3>2. E = Served(list)
      BY <1>1, <1>4, <2>2, <3>1 DEF Served, Promised
    <3>3. Len(items) \in Nat /\ Filtered(items, IsEntry) = Picked(items, E)
      BY <3>1, EntriesAre, LenProperties
    <3> HIDE DEF E
    <3>4. Picked(Ids(list), Served(list)) = Ids(P)
      BY <1>3, PickedIds DEF P
    <3> QED
      BY <2>2, <3>1, <3>2, <3>3, <3>4
  <2> QED
    BY <2>1, <2>2 DEF P, list, body
<1>7. ShownOf(Reached(p, entries)) = ShownOf(low) \o Ids(P)
  <2> DEFINE F == Upto(entries, Served(entries))
  <2>1. \A n \in 1..Len(list) : list[n] = entries[low + n] /\ (n \in Served(list) <=> low + n \in Served(entries))
    <3>1. \A n \in 1..Len(list) : low + n \in 1..Len(entries)
      BY <1>1, <1>3, <1>4
    <3> QED
      BY <1>3, <3>1 DEF Served
  <2>2. low + Len(list) <= Len(entries)
    BY <1>3
  <2>3. F[low + Len(list)] = F[low] \o P
    <3> DEFINE K == Served(entries)
               K1 == Served(list)
    <3>1. \A n \in 1..Len(list) : list[n] = entries[low + n] /\ (n \in K1 <=> low + n \in K)
      BY <2>1
    <3> HIDE DEF K, K1
    <3>2. Upto(entries, K)[low + Len(list)] = Upto(entries, K)[low] \o Picked(list, K1)
      <4>1. entries \in Seq(S) /\ list \in Seq(S) /\ low \in Nat
        BY <1>1, <1>3
      <4> HIDE DEF F
      <4> QED
        BY <2>2, <3>1, <4>1, PickedOn
    <3> QED
      BY <3>2 DEF P, K, K1
  <2>4. F[low] \in Seq(S)
    <3>1. low \in 0..Len(entries)
      BY <1>1, <1>3, <1>4
    <3>2. F \in [0..Len(entries) -> Seq(S)]
      BY <1>1, UptoIs, ElementOfSeq
    <3> QED
      BY <3>1, <3>2
  <2> HIDE DEF F
  <2>5. Ids(F[low] \o P) = Ids(F[low]) \o Ids(P)
    BY <1>5, <2>4, IdsJoined
  <2> QED
    BY <1>3, <2>3, <2>5 DEF ShownOf, F, entries
<1>8. before \o items \in Seq(EntryIds)
  BY <1>6, ConcatProperties
<1>9. Filtered(before \o items, IsEntry) = Filtered(before, IsEntry) \o Filtered(items, IsEntry)
  BY <1>6, EntriesJoined
<1> QED
  BY <1>6, <1>7, <1>8, <1>9 DEF low, entries

-----------------------------------------------------------------------------
(* A listing call, step by step.                                           *)

(* Where the request for the page is: Bilibili asks for its keys first.    *)
ListPlace == IF platform = "bilibili" THEN 2 ELSE 1

LEMMA ListRequest ==
  ASSUME ExtractorInv, op \in ListingOps, HasPages
  PROVE  Len(Requests) = ListPlace /\ AnswerTo(Requests[ListPlace].ask) = Page(page)
<1>1. platform \in Platforms
  BY ExtractorAssumption DEF ExtractorInv, Ops
<1>2. /\ NumberedPage(site.entries, page) = Page(page)
      /\ PageOf(site.entries, RowsBefore(page)) = Page(page)
  BY DEF NumberedPage, RowsBefore, Page
<1>3. CASE platform = "bilibili"
  <2>1. Requests = <<Required("keys"), Unchecked("list")>>
    BY <1>3 DEF Requests, BilibiliRequests, ListingOps
  <2>2. AnswerTo("list") = NumberedPage(site.entries, page)
    BY <1>3 DEF AnswerTo, BilibiliAnswer
  <2> QED
    BY <1>2, <1>3, <2>1, <2>2 DEF ListPlace, Unchecked
<1>4. CASE platform = "douyu"
  <2>1. Requests = <<Required("list")>>
    BY <1>4 DEF Requests, DouyuRequests, ListingOps
  <2>2. AnswerTo("list") = NumberedPage(site.entries, page)
    BY <1>4 DEF AnswerTo, DouyuAnswer
  <2> QED
    BY <1>2, <1>4, <2>1, <2>2 DEF ListPlace, Required
<1>5. CASE platform = "huya"
  <2>1. Requests = <<Required("list")>>
    BY <1>5 DEF Requests, HuyaRequests, ListingOps
  <2>2. AnswerTo("list") = Page(page)
    BY <1>2, <1>5 DEF AnswerTo, HuyaAnswer
  <2> QED
    BY <1>5, <2>1, <2>2 DEF ListPlace, Required
<1>6. CASE platform = "douyin"
  <2>1. op \in {"search_rooms", "category_rooms"}
    BY <1>6 DEF HasPages, ListingOps
  <2>2. Len(Requests) = 1 /\ Requests[1].ask = op
    BY <1>6, <2>1 DEF Requests, DouyinRequests, Required, Unchecked
  <2>3. AnswerTo(op) = PageOf(site.entries, RowsBefore(page))
    BY <1>6, <2>1 DEF AnswerTo, DouyinAnswer
  <2> QED
    BY <1>2, <1>6, <2>2, <2>3 DEF ListPlace
<1>7. CASE platform = "twitch"
  <2>1. Requests = <<Unchecked("list")>>
    BY <1>7 DEF Requests, TwitchRequests, ListingOps
  <2>2. AnswerTo("list") = PageOf(site.entries, RowsBefore(page))
    BY <1>7 DEF AnswerTo, TwitchAnswer
  <2> QED
    BY <1>2, <1>7, <2>1, <2>2 DEF ListPlace, Unchecked
<1> QED
  BY <1>1, <1>3, <1>4, <1>5, <1>6, <1>7 DEF Platforms

(* A page after the first is asked for when there are entries before it.   *)
LEMMA PageBound ==
  ASSUME NEW p \in Nat \ {0}, NEW n \in Nat, p > 1 => (p - 2) * PageSize < n
  PROVE  p <= n \div PageSize + 2
<1> DEFINE q == n \div PageSize
<1>1. PageSize \in Nat \ {0}
  BY ExtractionAssumption
<1>2. q \in Nat /\ PageSize * q <= n /\ n < PageSize * q + PageSize
  BY <1>1, SMT
<1> HIDE DEF q
<1>3. CASE p > 1
  <2> DEFINE k == p - 2
  <2>1. k \in Nat /\ k * PageSize < n
    BY <1>3
  <2> HIDE DEF k
  <2>2. k <= q
    <3>1. SUFFICES ASSUME q + 1 <= k PROVE FALSE
      BY <1>2, <2>1
    <3>2. (q + 1) * PageSize <= k * PageSize
      BY <1>1, <1>2, <2>1, <3>1, SMT
    <3>3. (q + 1) * PageSize = PageSize * q + PageSize
      BY <1>1, <1>2, SMT
    <3>4. PageSize * q \in Nat /\ k * PageSize \in Nat
      BY <1>1, <1>2, <2>1, SMT
    <3> QED
      BY <1>1, <1>2, <2>1, <3>2, <3>3, <3>4
  <2>3. p - 2 <= q
    BY <2>2 DEF k
  <2> QED
    BY <1>2, <2>3 DEF q
<1>4. CASE ~(p > 1)
  BY <1>2, <1>4 DEF q
<1> QED
  BY <1>3, <1>4

(* What is shown of no pages.                                              *)
LEMMA ShownNone ==
  ASSUME NEW S, NEW list \in Seq(S), NEW places
  PROVE  Ids(Upto(list, places)[Reached(0, list)]) = <<>>
<1>1. Len(list) \in Nat /\ PageSize \in Nat
  BY LenProperties, ExtractionAssumption
<1>2. 0 * PageSize = 0
  BY <1>1
<1>3. Reached(0, list) = 0
  BY <1>1, <1>2 DEF Reached
<1>4. Upto(list, places)[0] = <<>>
  <2>1. Picks(Upto(list, places), list, places, Len(list))
    BY <1>1, UptoAny
  <2>2. 0 \in 0..Len(list)
    BY <1>1
  <2> QED
    BY <2>1, <2>2 DEF Picks
<1>5. Ids(<<>>) = <<>>
  BY DEF Ids
<1> QED
  BY <1>3, <1>4, <1>5

(* What of the ids shown is an entry's.                                    *)
EntriesOf(list) == Filtered(list, IsEntry)

LEMMA NoEntries == EntriesOf(<<>>) = <<>>
<1> DEFINE none == {n \in 1..Len(<<>>) : <<>>[n] # Missing}
<1>1. Len(<<>>) = 0 /\ <<>> \in Seq({})
  OBVIOUS
<1>2. Filtered(<<>>, IsEntry) = Picked(<<>>, none)
  BY <1>1, EntriesAre
<1>3. \A n \in 1..Len(<<>>) : n \in none
  BY <1>1
<1> HIDE DEF none
<1>4. Picked(<<>>, none) = <<>>
  BY <1>1, <1>3, PickedAll
<1> QED
  BY <1>2, <1>4 DEF EntriesOf

(* While no request has failed, what is shown is what was promised of the  *)
(* pages so far.                                                           *)
ShowsFirst(pages) == EntriesOf(shown) = ShownOf(Reached(pages, site.entries))

Paging ==
  /\ page \in Nat \ {0} /\ (page > 1 => (page - 2) * PageSize < Len(site.entries))
  /\ shown \in Seq(EntryIds)
  /\ Len(heard) = ListPlace => heard[ListPlace] = Page(page)
  /\ result = NoResult => ShowsFirst(page - 1)
  /\ result # NoResult => (TellsPage(result, page) /\ ShowsFirst(page))

ListingInv ==
  /\ op = NoOp => shown = <<>>
  /\ (op \in ListingOps /\ HasPages /\ ~failed) => Paging

(* What is promised of a site depends on the call and on nothing else.     *)
LEMMA SameListing ==
  ASSUME UNCHANGED <<platform, site, op>>
  PROVE  /\ HasPages' <=> HasPages
         /\ \A p : ShownOf(Reached(p, site.entries))' = ShownOf(Reached(p, site.entries))
         /\ \A out, p : TellsPage(out, p)' <=> TellsPage(out, p)
<1>1. LiveOnly' <=> LiveOnly
  BY DEF LiveOnly
<1>2. CountsEntries' <=> CountsEntries
  BY DEF CountsEntries
<1>3. \A list : Served(list)' = Served(list)
  BY <1>1 DEF Served, Promised
<1>4. \A p : Page(p)' = Page(p)
  BY DEF Page
<1>5. \A p : ShownOf(Reached(p, site.entries))' = ShownOf(Reached(p, site.entries))
  BY <1>3 DEF ShownOf
<1>6. \A out, p : TellsPage(out, p)' <=> TellsPage(out, p)
  BY <1>1, <1>2, <1>3, <1>4 DEF TellsPage
<1>7. HasPages' <=> HasPages
  BY DEF HasPages
<1> QED
  BY <1>5, <1>6, <1>7

(* A call for the next page begins with what the pages so far have shown.  *)
LEMMA PageAsked ==
  ASSUME ExtractorInv, ListingInv, op \in ListingOps, HasPages, ~failed, result # NoResult, result.value.more,
         UNCHANGED <<platform, site, op, shown>>, Ask(op, page + 1)
  PROVE  Paging'
<1>1. /\ page \in Nat \ {0} /\ shown \in Seq(EntryIds)
      /\ TellsPage(result, page) /\ ShowsFirst(page)
  BY DEF ListingInv, Paging
<1>2. page' = page + 1 /\ heard' = <<>> /\ result' = NoResult
  BY DEF Ask
<1>3. /\ page' \in Nat \ {0} /\ page' - 2 = page - 1 /\ page' - 1 = page
  BY <1>1, <1>2
<1>4. (page' - 2) * PageSize < Len(site.entries)
  BY <1>1, <1>3 DEF TellsPage
<1>5. ListPlace' # 0 /\ Len(heard') = 0
  BY <1>2 DEF ListPlace
<1>6. ShowsFirst(page - 1)'
  BY <1>1, <1>3, SameListing DEF ShowsFirst
<1>7. shown' \in Seq(EntryIds')
  BY <1>1 DEF EntryIds
<1> QED
  BY <1>2, <1>3, <1>4, <1>5, <1>6, <1>7 DEF Paging

(* So does the first call, with nothing.                                   *)
LEMMA PagingBegins ==
  ASSUME ExtractorInv, ListingInv, NEW o \in Ops, Begin(o), o \in ListingOps
  PROVE  Paging'
<1>1. /\ op = NoOp /\ platform # NoPlatform /\ shown = <<>> /\ shown' = <<>> /\ site' = site
      /\ op' = o /\ page' = 1 /\ heard' = <<>> /\ result' = NoResult
  BY DEF Begin, Ask, ListingInv, viewer
<1>2. platform \in Platforms /\ site \in Sites(platform)
  BY <1>1 DEF ExtractorInv
<1>3. site'.entries \in Seq(Range(site'.entries))
  BY <1>1, <1>2, EntriesAreTyped
<1>4. EntriesOf(shown') = <<>>
  BY <1>1, NoEntries
<1>5. ShownOf(Reached(0, site.entries))' = <<>>
  BY <1>3, ShownNone DEF ShownOf
<1>6. ShowsFirst(page - 1)'
  <2>1. page' - 1 = 0
    BY <1>1
  <2> QED
    BY <1>4, <1>5, <2>1 DEF ShowsFirst
<1>7. ListPlace' # 0 /\ Len(heard') = 0 /\ page' \in Nat \ {0} /\ ~(page' > 1)
  BY <1>1 DEF ListPlace
<1>8. shown' \in Seq(EntryIds')
  BY <1>1
<1> QED
  BY <1>1, <1>6, <1>7, <1>8 DEF Paging

(* What the request for the page brings is the page.                       *)
LEMMA PagingHears ==
  ASSUME ExtractorInv, ListingInv, op \in ListingOps, HasPages, ~failed, Granted
  PROVE  Paging'
<1> DEFINE x == AnswerTo(Requests[Len(heard) + 1].ask)
<1>1. /\ heard' = Append(heard, x)
      /\ UNCHANGED <<platform, site, op, page, result, shown>> /\ result = NoResult
  BY DEF Granted, Waiting, viewer
<1>2. Paging
  BY DEF ListingInv
<1>3. Len(heard') = Len(heard) + 1 /\ heard'[Len(heard) + 1] = x
  BY <1>1, ListGrows DEF ExtractorInv
<1>4. Len(heard) + 1 = ListPlace => x = Page(page)
  BY ListRequest
<1> HIDE DEF x
<1>5. (Len(heard) = ListPlace => heard[ListPlace] = Page(page))'
  <2>1. Len(heard') = ListPlace => heard'[ListPlace] = Page(page)
    BY <1>3, <1>4
  <2>2. ListPlace' = ListPlace /\ Page(page)' = Page(page)
    BY <1>1 DEF ListPlace, Page
  <2> QED
    BY <2>1, <2>2
<1>6. ShowsFirst(page - 1)'
  BY <1>1, <1>2, SameListing DEF Paging, ShowsFirst
<1>7. (page \in Nat \ {0} /\ (page > 1 => (page - 2) * PageSize < Len(site.entries)))'
  BY <1>1, <1>2 DEF Paging
<1>8. (shown \in Seq(EntryIds))'
  BY <1>1, <1>2 DEF Paging, EntryIds
<1> QED
  BY <1>1, <1>5, <1>6, <1>7, <1>8 DEF Paging

(* What the call makes of the page is added to what was shown.             *)
LEMMA PagingReturns ==
  ASSUME ExtractorInv, ListingInv, op \in ListingOps, HasPages, ~failed, Return
  PROVE  Paging'
<1>1. /\ UNCHANGED <<platform, site, op, page, heard>> /\ result = NoResult
      /\ Len(heard) = Len(Requests) /\ result' = Outcome
      /\ shown' = IF Outcome.ok THEN shown \o Outcome.value.items ELSE shown
  BY DEF Return
<1>2. Paging /\ ShowsFirst(page - 1) /\ shown \in Seq(EntryIds) /\ page \in Nat \ {0}
  BY <1>1 DEF ListingInv, Paging
<1>3. platform \in Platforms /\ site \in Sites(platform)
  BY ExtractorAssumption DEF ExtractorInv, Ops
<1>4. page <= Len(site.entries) \div PageSize + 2
  BY <1>2, <1>3, EntriesAreTyped, PageBound DEF Paging
<1>5. Last(heard) = Page(page)
  <2>1. Len(heard) = ListPlace /\ ListPlace \in {1, 2}
    BY <1>1, ListRequest DEF ListPlace
  <2>2. Last(heard) = heard[ListPlace]
    BY <2>1, LastIs DEF ExtractorInv
  <2> QED
    BY <1>2, <2>1, <2>2 DEF Paging
<1>6. TellsPage(Outcome, page)
  BY <1>2, <1>4, <1>5, PageTells
<1> DEFINE items == Outcome.value.items
<1>7. /\ \/ items = Ids(Picked(Page(page).list, Served(Page(page).list)))
         \/ ~LiveOnly /\ items = Ids(Page(page).list)
      /\ shown' = shown \o items
  BY <1>1, <1>6 DEF TellsPage
<1> HIDE DEF items
<1>8. Filtered(shown, IsEntry) = ShownOf(Reached(page - 1, site.entries))
  BY <1>2 DEF ShowsFirst, EntriesOf
<1>9. /\ shown \o items \in Seq(EntryIds)
      /\ Filtered(shown \o items, IsEntry) = ShownOf(Reached(page, site.entries))
  BY <1>2, <1>3, <1>7, <1>8, PageShown
<1>10. shown' \in Seq(EntryIds) /\ EntriesOf(shown') = ShownOf(Reached(page, site.entries))
  BY <1>7, <1>9 DEF EntriesOf
<1>11. ShowsFirst(page)'
  BY <1>1, <1>10, SameListing DEF ShowsFirst
<1>12. TellsPage(result, page)'
  BY <1>1, <1>6, SameListing
<1>13. result' # NoResult
  BY <1>1, <1>6 DEF TellsPage
<1>14. (Len(heard) = ListPlace => heard[ListPlace] = Page(page))'
  <2>1. ListPlace' = ListPlace /\ Page(page)' = Page(page)
    BY <1>1 DEF ListPlace, Page
  <2> QED
    BY <1>1, <1>2, <2>1 DEF Paging
<1>15. (page \in Nat \ {0} /\ (page > 1 => (page - 2) * PageSize < Len(site.entries)))'
  BY <1>1, <1>2 DEF Paging
<1>16. (shown \in Seq(EntryIds))'
  BY <1>1, <1>10 DEF EntryIds
<1> QED
  BY <1>11, <1>12, <1>13, <1>14, <1>15, <1>16 DEF Paging

(* Every step keeps what is shown in line with the pages.                  *)
LEMMA ListingStep ==
  ExtractorInv /\ ListingInv /\ [ExtractorNext]_extractorVars => ListingInv'
<1> SUFFICES ASSUME ExtractorInv, ListingInv, [ExtractorNext]_extractorVars
             PROVE  ListingInv'
  OBVIOUS
<1>0. NoOp \notin ListingOps /\ "qualities" \notin ListingOps /\ "urls" \notin ListingOps
      /\ "qualities" # NoOp /\ "urls" # NoOp
  BY ExtractorAssumption DEF Ops, ListingOps
<1>1. ASSUME NEW link \in Links, Open(link)
      PROVE  ListingInv'
  <2>1. op = NoOp /\ op' = op /\ shown' = shown
    BY <1>1 DEF Open, call, viewer, ExtractorInv
  <2> QED
    BY <1>0, <2>1 DEF ListingInv
<1>2. ASSUME NEW o \in Ops, Begin(o)
      PROVE  ListingInv'
  <2>1. op' = o /\ o # NoOp
    BY <1>2, ExtractorAssumption DEF Begin, Ask
  <2>2. o \in ListingOps => Paging'
    BY <1>2, PagingBegins
  <2> QED
    BY <2>1, <2>2 DEF ListingInv
<1>3. CASE Granted
  <2>1. UNCHANGED <<platform, site, op, failed, shown>>
    BY <1>3 DEF Granted, viewer
  <2> QED
    BY <1>3, <2>1, PagingHears, SameListing DEF ListingInv
<1>4. ASSUME NEW policies, NEW replies, Without(policies, replies)
      PROVE  ListingInv'
  <2>1. failed' /\ op' = op /\ shown' = shown
    BY <1>4 DEF Without, viewer
  <2> QED
    BY <2>1 DEF ListingInv
<1>5. CASE Return
  <2>1. UNCHANGED <<platform, site, op, failed>> /\ op # NoOp
    BY <1>5 DEF Return
  <2> QED
    BY <1>5, <2>1, PagingReturns, SameListing DEF ListingInv
<1>6. CASE NextPage
  <2>1. /\ UNCHANGED <<platform, site, op, failed, shown>> /\ Ask(op, page + 1)
        /\ op \in ListingOps /\ result # NoResult /\ result.value.more
    BY <1>6 DEF NextPage, Ask, viewer
  <2>2. HasPages /\ ~failed => Paging'
    BY <2>1, PageAsked
  <2> QED
    BY <1>0, <2>1, <2>2, SameListing DEF ListingInv
<1>7. ASSUME AskQualities \/ AskUrls \/ AskNextUrls
      PROVE  ListingInv'
  <2>1. op' \in {"qualities", "urls"}
    BY <1>7 DEF AskQualities, AskUrls, AskNextUrls, Ask
  <2> QED
    BY <1>0, <2>1 DEF ListingInv
<1>8. CASE Leave
  <2>1. op' = NoOp /\ shown' = <<>>
    BY <1>8 DEF Leave, Ask
  <2> QED
    BY <1>0, <2>1 DEF ListingInv
<1>9. CASE UNCHANGED extractorVars
  <2>1. UNCHANGED <<platform, site, op, page, heard, result, failed, shown>>
    BY <1>9 DEF extractorVars, call, viewer
  <2>2. ASSUME Paging PROVE Paging'
    <3>1. (Len(heard) = ListPlace => heard[ListPlace] = Page(page))'
      <4>1. ListPlace' = ListPlace /\ Page(page)' = Page(page)
        BY <2>1 DEF ListPlace, Page
      <4> QED
        BY <2>1, <2>2, <4>1 DEF Paging
    <3>2. (result = NoResult => ShowsFirst(page - 1))'
      BY <2>1, <2>2, SameListing DEF Paging, ShowsFirst
    <3>3. (result # NoResult => ShowsFirst(page))'
      BY <2>1, <2>2, SameListing DEF Paging, ShowsFirst
    <3>4. (result # NoResult => TellsPage(result, page))'
      BY <2>1, <2>2, SameListing DEF Paging
    <3>5. (/\ page \in Nat \ {0} /\ (page > 1 => (page - 2) * PageSize < Len(site.entries))
           /\ shown \in Seq(EntryIds))'
      BY <2>1, <2>2 DEF Paging, EntryIds
    <3> QED
      BY <3>1, <3>2, <3>3, <3>4, <3>5 DEF Paging
  <2> QED
    BY <2>1, <2>2, SameListing DEF ListingInv
<1> QED
  BY <1>1, <1>2, <1>3, <1>4, <1>5, <1>6, <1>7, <1>8, <1>9 DEF ExtractorNext, Refused, Broken

(* Where the pages end everything that was promised has been shown.        *)
LEMMA ListingShows == ExtractorInv /\ ListingInv => PagesShowAll
<1> SUFFICES ASSUME ExtractorInv, ListingInv, op \in ListingOps, HasPages, ~failed, result # NoResult
             PROVE  /\ result.ok
                    /\ page <= Len(site.entries) \div PageSize + 2
                    /\ (~result.value.more /\ (CountsEntries => \A i \in DOMAIN site.entries : site.entries[i].whole)) =>
                         LET promised == Filtered(site.entries, Promised)
                         IN  Filtered(shown, IsEntry) = [i \in DOMAIN promised |-> promised[i].id]
  BY DEF PagesShowAll
<1>1. /\ page \in Nat \ {0} /\ (page > 1 => (page - 2) * PageSize < Len(site.entries))
      /\ TellsPage(result, page) /\ ShowsFirst(page)
  BY DEF ListingInv, Paging
<1>2. Len(site.entries) \in Nat
  <2>1. platform \in Platforms /\ site \in Sites(platform)
    BY ExtractorAssumption DEF ExtractorInv, Ops
  <2> QED
    BY <2>1, EntriesAreTyped
<1>3. page <= Len(site.entries) \div PageSize + 2
  BY <1>1, <1>2, PageBound
<1>4. ASSUME ~result.value.more, CountsEntries => \A i \in DOMAIN site.entries : site.entries[i].whole
      PROVE  LET promised == Filtered(site.entries, Promised)
             IN  Filtered(shown, IsEntry) = [i \in DOMAIN promised |-> promised[i].id]
  <2> DEFINE promised == Filtered(site.entries, Promised)
  <2>1. Reached(page, site.entries) = Len(site.entries)
    BY <1>1, <1>4 DEF TellsPage
  <2>2. Filtered(shown, IsEntry) = Ids(Picked(site.entries, Served(site.entries)))
    BY <1>1, <2>1 DEF ShowsFirst, ShownOf, EntriesOf, Picked
  <2>3. promised = Picked(site.entries, Served(site.entries))
    BY <1>2, PromisedAre DEF Served
  <2> HIDE DEF promised
  <2>4. Filtered(shown, IsEntry) = [i \in DOMAIN promised |-> promised[i].id]
    BY <2>2, <2>3 DEF Ids
  <2> QED
    BY <2>4 DEF promised
<1>5. result.ok
  BY <1>1 DEF TellsPage
<1> QED
  BY <1>3, <1>4, <1>5

(* In every behaviour, whatever the platforms list and however long their  *)
(* pages, a viewer that pages until there are no more has been shown every *)
(* entry that is promised, once and in order, and paging ends, unless a    *)
(* request has failed.                                                     *)
THEOREM PagesAreShown == ExtractorSpec => []PagesShowAll
<1>1. ExtractorInit => ListingInv
  BY ExtractorAssumption DEF ExtractorInit, ListingInv, Ops
<1> QED
  BY <1>1, ExtractorStarts, ExtractorStep, ListingStep, ListingShows, PTL DEF ExtractorSpec

=============================================================================
