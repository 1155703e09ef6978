----------------------------- MODULE HttpClient -----------------------------
(***************************************************************************)
(* HttpClient (http_client.rs): the cookie jar that every request of a     *)
(* client is sent with, and the retries of a request.  Method, URL, body   *)
(* and headers are the same in every attempt and are left out.             *)
(***************************************************************************)
EXTENDS Naturals

CONSTANTS
  Users,     (* tasks that make requests with the client                   *)
  NoCookies, (* the empty jar                                              *)
  Answers    (* what the network may do with an attempt                    *)

ASSUME HttpAssumption ==
  Answers \subseteq {"success", "client_error", "not_implemented", "server_error",
                     "timeout", "connect", "other"}

DEFAULT_MAX_RETRIES == 3
DEFAULT_RETRY_BASE_DELAY == 500

VARIABLES
  jar,     (* cookies                                                      *)
  request  (* per user: its request; waited: ms slept; last: the answer    *)

httpVars == <<jar, request>>

NoRequest == [state |-> "none", attempt |-> 0, waited |-> 0, last |-> "none", cookies |-> NoCookies]

HttpInit(cookies) == jar = cookies /\ request = [u \in Users |-> NoRequest]

(* attach_cookies: the jar as it is when the attempt is made.              *)
Send(r) == [r EXCEPT !.state = "sent", !.cookies = jar]

Execute(u) == request' = [request EXCEPT ![u] = Send(NoRequest)]

(* What is worth another attempt: no connection, no answer in time, and    *)
(* the server errors but 501.                                              *)
Transient == {"server_error", "timeout", "connect"}

(* Any other answer is returned as it is, also 4xx; an error is returned   *)
(* at once, or the last one when the attempts are used up.                 *)
After(r, answer) ==
  CASE answer = "other" -> "error"
    [] answer \in Transient -> IF r.attempt < DEFAULT_MAX_RETRIES THEN "sleeping" ELSE "error"
    [] OTHER -> "response"

Answered(u, answer) ==
  /\ request[u].state = "sent"
  /\ request' = [request EXCEPT ![u].state = After(request[u], answer), ![u].last = answer]
  /\ UNCHANGED jar

(* Mutant: the delay is not doubled the first time.                        *)
DelayFlat(attempt) == DEFAULT_RETRY_BASE_DELAY * (IF attempt < 3 THEN 1 ELSE 2)

(* The pause before an attempt.                                            *)
Delay(attempt) == DEFAULT_RETRY_BASE_DELAY * 2^(attempt - 1)

Awake(u) ==
  LET r == request[u]
      next == r.attempt + 1
  IN  /\ r.state = "sleeping"
      /\ request' = [request EXCEPT ![u] =
           Send([r EXCEPT !.attempt = next, !.waited = r.waited + Delay(next)])]
      /\ UNCHANGED jar

Finished(u) == request[u].state \in {"response", "error"}

HttpStep(u, answers) == Awake(u) \/ \E answer \in answers : Answered(u, answer)

(* A caller that makes one request after the other.                        *)
HttpNext ==
  \E u \in Users :
    \/ /\ request[u].state \in {"none", "response", "error"}
       /\ Execute(u)
       /\ UNCHANGED jar
    \/ HttpStep(u, Answers)

HttpSpec == HttpInit(NoCookies) /\ [][HttpNext]_httpVars

-----------------------------------------------------------------------------
(* A request is attempted at most four times, over 3.5 seconds of pauses,  *)
(* each twice the one before; it fails only on an error that is no use     *)
(* repeating or with the last attempt, and never returns an answer that    *)
(* was worth repeating (http_client.rs:218-259).                           *)
RetrySchedule ==
  \A u \in Users :
    LET r == request[u]
    IN  /\ r.attempt <= 3
        /\ r.waited = (<<0, 500, 1500, 3500>>)[r.attempt + 1]
        /\ r.state = "error" => (r.last = "other" \/ (r.attempt = 3 /\ r.last \in Transient))
        /\ r.state = "response" => r.last \in {"success", "client_error", "not_implemented"}

=============================================================================
