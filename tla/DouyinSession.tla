---------------------------- MODULE DouyinSession ----------------------------
(***************************************************************************)
(* The ttwid of the Douyin extractors (douyin/utils.rs, douyin/            *)
(* extractor.rs): one global value behind a lock, and in every extractor a *)
(* OnceCell that keeps what it got from there.  Requests to the API put    *)
(* the extractor's ttwid and login in its jar just before they are sent    *)
(* with it; a search has a header of its own for the two; and the page a   *)
(* long id is resolved by (reflow) is asked for with whatever the jar has. *)
(* tokio may run the requests of an extractor on several threads.          *)
(***************************************************************************)
EXTENDS FiniteSets, Naturals

CONSTANTS
  Requesters,    (* tasks that make requests                               *)
  ExtractorOf,   (* per task: whose extractor it uses                      *)
  NoTtwid, DEFAULT_TTWID,
  NoAuth, Auths, (* logins given to set_cookies                            *)
  MaxRequests    (* bound on the requests an extractor begins or repeats   *)

ASSUME TtwidAssumption == NoTtwid \notin Requesters \union {DEFAULT_TTWID}

Extractors == {ExtractorOf[r] : r \in Requesters}

VARIABLES
  globalTtwid,
  cell,      (* per extractor: its OnceCell                                *)
  auth,      (* per extractor: auth_cookies                                *)
  cookie,    (* per extractor: the jar, a ttwid and a login                *)
  doing,     (* per task: where its request is                             *)
  fetched,   (* per task: the ttwid its cell is to have                    *)
  headers,   (* per task: the cookies it is about to put in the jar        *)
  made,      (* per extractor: the requests sent                           *)
  sent,      (* history, per extractor: their kinds and the ttwids they had *)
  raced      (* history: a ttwid was fetched while another was             *)

ttwidVars == <<globalTtwid, cell, auth, cookie, doing, fetched, headers, made, sent, raced>>

NoCookie == [ttwid |-> NoTtwid, auth |-> NoAuth]

TtwidInit ==
  /\ globalTtwid = NoTtwid
  /\ cell = [x \in Extractors |-> NoTtwid]
  /\ auth = [x \in Extractors |-> NoAuth]
  /\ cookie = [x \in Extractors |-> NoCookie]
  /\ doing = [r \in Requesters |-> "idle"]
  /\ fetched = [r \in Requesters |-> NoTtwid]
  /\ headers = [r \in Requesters |-> NoCookie]
  /\ made = [x \in Extractors |-> 0]
  /\ sent = [x \in Extractors |-> {}]
  /\ raced = FALSE

Proceed(r, next) == doing' = [doing EXCEPT ![r] = next]

(* A request goes out, with a ttwid or NoTtwid.                            *)
Sends(x, kind, ttwid) ==
  /\ sent' = [sent EXCEPT ![x] = @ \union {[kind |-> kind, ttwid |-> ttwid]}]
  /\ made' = [made EXCEPT ![x] = @ + 1]

(* Fetching, or holding a ttwid that is not stored everywhere yet.         *)
Initializing(r) == doing[r] \in {"fetching", "storing", "filling"}

-----------------------------------------------------------------------------
(* ensure_ttwid: the first task initialises the cell while the others of   *)
(* the extractor wait; it takes the global ttwid or fetches one.           *)
EnsureTtwid(r) ==
  LET x == ExtractorOf[r]
  IN  /\ doing[r] = "idle"
      /\ made[x] < MaxRequests
      /\ \/ /\ cell[x] # NoTtwid
            /\ Proceed(r, "headers")
            /\ UNCHANGED <<fetched, raced>>
         \/ /\ cell[x] = NoTtwid
            /\ \A o \in Requesters : ExtractorOf[o] = x => ~Initializing(o)
            /\ Proceed(r, IF globalTtwid = NoTtwid THEN "fetching" ELSE "filling")
            /\ fetched' = [fetched EXCEPT ![r] = globalTtwid]
            /\ raced' = (raced \/ (globalTtwid = NoTtwid /\ \E o \in Requesters : Initializing(o)))
      /\ UNCHANGED <<globalTtwid, cell, auth, cookie, headers, made, sent>>

(* fetch_ttwid: the platform's, here named for the task; or the default.   *)
Fetched(r) ==
  /\ doing[r] = "fetching"
  /\ \E ttwid \in {r, DEFAULT_TTWID} : fetched' = [fetched EXCEPT ![r] = ttwid]
  /\ Proceed(r, "storing")
  /\ UNCHANGED <<globalTtwid, cell, auth, cookie, headers, made, sent, raced>>

(* The future is dropped: another may initialise the cell.                 *)
Dropped(r) ==
  /\ doing[r] = "fetching"
  /\ Proceed(r, "idle")
  /\ UNCHANGED <<globalTtwid, cell, auth, cookie, fetched, headers, made, sent, raced>>

StoreGlobal(r) ==
  /\ doing[r] = "storing"
  /\ globalTtwid' = fetched[r]
  /\ Proceed(r, "filling")
  /\ UNCHANGED <<cell, auth, cookie, fetched, headers, made, sent, raced>>

FillCell(r) ==
  /\ doing[r] = "filling"
  /\ cell' = [cell EXCEPT ![ExtractorOf[r]] = fetched[r]]
  /\ fetched' = [fetched EXCEPT ![r] = NoTtwid]
  /\ Proceed(r, "headers")
  /\ UNCHANGED <<globalTtwid, auth, cookie, headers, made, sent, raced>>

(* Mutant: the global ttwid is read for every request.                     *)
GlobalOf(x) == globalTtwid

TtwidOf(x) == cell[x]

(* request_headers clones the login, and then sets the jar.                *)
CloneAuth(r) ==
  LET x == ExtractorOf[r]
  IN  /\ doing[r] = "headers"
      /\ headers' = [headers EXCEPT ![r] = [ttwid |-> TtwidOf(x), auth |-> auth[x]]]
      /\ Proceed(r, "cookie")
      /\ UNCHANGED <<globalTtwid, cell, auth, cookie, fetched, made, sent, raced>>

PutCookie(r) ==
  /\ doing[r] = "cookie"
  /\ cookie' = [cookie EXCEPT ![ExtractorOf[r]] = headers[r]]
  /\ headers' = [headers EXCEPT ![r] = NoCookie]
  /\ Proceed(r, "send")
  /\ UNCHANGED <<globalTtwid, cell, auth, fetched, made, sent, raced>>

(* fetch_json, fetch_room_enter, get_categories: with the jar as it is     *)
(* then, and so is every retry.                                            *)
SendWithCookie(r) ==
  LET x == ExtractorOf[r]
  IN  /\ doing[r] = "send"
      /\ Sends(x, "api", cookie[x].ttwid)
      /\ \/ Proceed(r, "idle")
         \/ made[x] < MaxRequests /\ UNCHANGED doing
      /\ UNCHANGED <<globalTtwid, cell, auth, cookie, fetched, headers, raced>>

(* search_rooms: a header of its own, past the jar.                        *)
SendSearch(r) ==
  /\ doing[r] = "headers"
  /\ Sends(ExtractorOf[r], "search", TtwidOf(ExtractorOf[r]))
  /\ Proceed(r, "idle")
  /\ UNCHANGED <<globalTtwid, cell, auth, cookie, fetched, headers, raced>>

(* get_web_rid: no ttwid is made sure of; the jar may be empty.            *)
SendReflow(r) ==
  LET x == ExtractorOf[r]
  IN  /\ doing[r] = "idle"
      /\ made[x] < MaxRequests
      /\ Sends(x, "reflow", cookie[x].ttwid)
      /\ UNCHANGED <<globalTtwid, cell, auth, cookie, doing, fetched, headers, raced>>

SetAuth(x, a) ==
  /\ auth[x] # a
  /\ auth' = [auth EXCEPT ![x] = a]
  /\ UNCHANGED <<globalTtwid, cell, cookie, doing, fetched, headers, made, sent, raced>>

TtwidNext ==
  \/ \E r \in Requesters : \/ EnsureTtwid(r) \/ Fetched(r) \/ Dropped(r) \/ StoreGlobal(r)
                           \/ FillCell(r) \/ CloneAuth(r) \/ PutCookie(r)
                           \/ SendWithCookie(r) \/ SendSearch(r) \/ SendReflow(r)
  \/ \E x \in Extractors : \E a \in Auths : SetAuth(x, a)

TtwidSpec == TtwidInit /\ [][TtwidNext]_ttwidVars

-----------------------------------------------------------------------------
Carried(x) == {req.ttwid : req \in sent[x]} \ {NoTtwid}

(* The requests of an extractor carry one ttwid, whatever became of the    *)
(* global one meanwhile and whoever initialised the cell; one without is   *)
(* a reflow request (douyin/extractor.rs:138-146), and only while none has *)
(* been made to the API: from then on its ttwid is in the jar.  All        *)
(* extractors share it unless one was fetched while another was            *)
(* (douyin/utils.rs:145-162, douyin/extractor.rs:156-203, 635-665).        *)
OneTtwid ==
  /\ \A x \in Extractors :
       /\ Cardinality(Carried(x)) <= 1
       /\ \A req \in sent[x] :
            /\ req.ttwid = NoTtwid => req.kind = "reflow"
            /\ req.kind = "api" => cookie[x].ttwid = req.ttwid
  /\ ~raced => Cardinality(UNION {Carried(x) : x \in Extractors}) <= 1

=============================================================================
