------------------------------ MODULE Gateway ------------------------------
(***************************************************************************)
(* proxy_endpoint: a browser's requests on their way through the gateway.  *)
(*                                                                         *)
(* A request is matched against the route table, authenticated, counted by *)
(* the limiter and forwarded; the answer of a sign-in is translated into   *)
(* two cookies.  Requests overlap at the awaits: the limiter's pipeline,   *)
(* the call to the service, and the way of the answer to the browser,      *)
(* whose tabs share one cookie jar.                                        *)
(*                                                                         *)
(* A path is the sequence of its segments under /api/v1.  The tokens a     *)
(* sign-in made are identified with its request.  The applicant service    *)
(* is reduced to its refresh tokens and the transactions that write them,  *)
(* which commit before it answers or after (AuthSessions has the detail),  *)
(* the sliding window of RateLimiter to a queue that attempts leave in     *)
(* order.                                                                  *)
(***************************************************************************)
EXTENDS Naturals, Sequences, FiniteSets, SequencesExt

CONSTANTS
  Requests,
  Applicants,
  Offers,      \* the <<method, path>> pairs the clients send
  AuthLimit,   \* rate_limit_auth_per_minute
  LoanLimit,   \* rate_limit_loans_per_10_min
  MaxFailures, \* calls and answers that get lost, commits that fail
  NoOne,       \* no applicant
  NoToken      \* no cookie

ASSUME OffersAssumption == Offers \subseteq STRING \X Seq(STRING)
ASSUME NoOneAssumption == NoOne \notin Applicants
ASSUME NoTokenAssumption == NoToken \notin Requests
ASSUME BoundsAssumption == {AuthLimit, LoanLimit, MaxFailures} \subseteq Nat

Register == <<"auth", "register">>
Login == <<"auth", "login">>
RefreshPath == <<"auth", "refresh">>
Logout == <<"auth", "logout">>
Me == <<"me">>
Loans == <<"loans">>
Loan(id) == <<"loans", id>>
Documents(id) == <<"loans", id, "documents">>
Webhook == <<"webhooks", "stripe">>

-----------------------------------------------------------------------------
(***************************************************************************)
(* The route table.                                                        *)
(***************************************************************************)

Route(prefix, service, auth, bucket, limit) ==
  [prefix |-> prefix, service |-> service, requires_auth |-> auth,
   bucket |-> bucket, limit |-> limit]

\* "{id}" stands in the table as it is written.
Routes ==
  { Route(Register, "applicant", FALSE, "auth", AuthLimit),
    Route(Login, "applicant", FALSE, "auth", AuthLimit),
    Route(RefreshPath, "applicant", FALSE, "unlimited", 0),
    Route(Me, "applicant", TRUE, "unlimited", 0),
    Route(Loans, "loan", TRUE, "loans", LoanLimit),
    Route(Loan("{id}"), "loan", TRUE, "unlimited", 0),
    Route(Documents("{id}"), "document", TRUE, "unlimited", 0),
    Route(<<"loans", "{id}", "events">>, "none", TRUE, "unlimited", 0),
    Route(Webhook, "loan", FALSE, "unlimited", 0) }

Candidates(path) == {route \in Routes : IsPrefix(route.prefix, path)}

\* The longest of the prefixes that match, if there are any.
Match(path) ==
  CHOOSE route \in Candidates(path) :
    \A other \in Candidates(path) : Len(other.prefix) <= Len(route.prefix)

Routable(path) == Candidates(path) # {} /\ Match(path).service # "none"

IsLogout(path) == IsPrefix(Logout, path)
IsCookieAuth(path) == \E p \in {Register, Login, RefreshPath} : IsPrefix(p, path)

-----------------------------------------------------------------------------
VARIABLES
  pc,         \* where each request is
  offer,      \* its method and path
  presented,  \* the refresh cookie it came with
  user,       \* the applicant it was authenticated as, or signs in
  window,     \* per limiter key: the attempts of the window, oldest first
  txn,        \* the applicant service's transaction for the request
  token,      \* refresh tokens at the applicant service
  first,      \* what comes first there, the commit or the response; never changes
  status,     \* status the gateway answers with
  outcome,    \* status the browser has seen
  jar,        \* the browser's cookies: the sign-ins they come from
  failures

requestVars == <<offer, presented, first>>
vars == <<pc, offer, presented, user, window, txn, token, first, status, outcome, jar, failures>>

Steps == {"idle", "limit", "forward", "wait", "answer", "done"}
Statuses == {"none", "ok", "logged_out", "unauthorized", "not_found", "limited",
             "no_limiter", "error"}

\* One address for the auth routes, one applicant for the loan routes.
RateKeys == {<<"auth">>} \cup ({"loans"} \X Applicants)

NoCookies == [access |-> NoToken, refresh |-> NoToken]

TypeOK ==
  /\ pc \in [Requests -> Steps]
  /\ \A r \in Requests : pc[r] # "idle" => offer[r] \in Offers
  /\ presented \in [Requests -> Requests \cup {NoToken}]
  /\ user \in [Requests -> Applicants \cup {NoOne}]
  /\ window \in [RateKeys -> Seq(Requests)]
  /\ txn \in [Requests -> {"none", "open", "committed", "failed"}]
  /\ token \in [Requests -> {"absent", "valid", "revoked"}]
  /\ first \in {"commit", "respond"}
  /\ status \in [Requests -> Statuses] /\ outcome \in [Requests -> Statuses \cup {"lost"}]
  /\ jar \in [access : Requests \cup {NoToken}, refresh : Requests \cup {NoToken}]
  /\ failures \in 0..MaxFailures

Init ==
  /\ pc = [r \in Requests |-> "idle"]
  /\ offer = [r \in Requests |-> <<>>]
  /\ presented = [r \in Requests |-> NoToken]
  /\ user = [r \in Requests |-> NoOne]
  /\ window = [k \in RateKeys |-> <<>>]
  /\ txn = [r \in Requests |-> "none"]
  /\ token = [r \in Requests |-> "absent"]
  /\ first \in {"commit", "respond"}
  /\ status = [r \in Requests |-> "none"]
  /\ outcome = [r \in Requests |-> "none"]
  /\ jar = NoCookies
  /\ failures = 0

-----------------------------------------------------------------------------
Goto(r, step) == pc' = [pc EXCEPT ![r] = step]
Answer(r, code) == Goto(r, "answer") /\ status' = [status EXCEPT ![r] = code]

\* Bearer header first, then the cg_access cookie.
Authenticate(bearer) ==
  IF bearer # NoOne THEN bearer
  ELSE IF jar.access # NoToken THEN user[jar.access] ELSE NoOne

\* Faulty: sign-ins are counted per applicant.
RateKey_PerApplicant(route, u) == IF u = NoOne THEN <<"auth">> ELSE <<"loans", u>>

RateKey(route, u) == IF route.bucket = "auth" THEN <<"auth">> ELSE <<"loans", u>>

\* What the handler does before its first await: logout, then the route, then the
\* refresh cookie, then the access token.
Dispatch(r, path, u) ==
  IF IsLogout(path) THEN Answer(r, "logged_out")
  ELSE IF ~Routable(path) THEN Answer(r, "not_found")
  ELSE IF path = RefreshPath /\ jar.refresh = NoToken THEN Answer(r, "unauthorized")
  ELSE IF Match(path).requires_auth /\ u = NoOne THEN Answer(r, "unauthorized")
  ELSE /\ Goto(r, IF Match(path).bucket = "unlimited" THEN "forward" ELSE "limit")
       /\ UNCHANGED status

\* A client sends a request, with the cookies of the moment: cg_refresh goes to the
\* refresh path only.  A sign-in names its applicant in its body.
Receive(r) ==
  /\ pc[r] = "idle"
  /\ \E o \in Offers : \E a \in Applicants \cup {NoOne} :
       LET path == o[2]
           u == IF IsCookieAuth(path) THEN a ELSE Authenticate(a)
       IN /\ path \in {Register, Login} => a # NoOne
          /\ path \in {RefreshPath, Logout, Webhook} => a = NoOne
          /\ offer' = [offer EXCEPT ![r] = o]
          /\ presented' = [presented EXCEPT ![r] = IF path = RefreshPath THEN jar.refresh
                                                   ELSE NoToken]
          /\ user' = [user EXCEPT ![r] = IF IsLogout(path) \/ path = Webhook THEN NoOne ELSE u]
          /\ Dispatch(r, path, u)
  /\ UNCHANGED <<first, window, txn, token, outcome, jar, failures>>

\* limiter.allowed: the attempt is counted whether it is admitted or not.
CheckLimit(r) ==
  /\ pc[r] = "limit"
  /\ LET route == Match(offer[r][2])
         key == RateKey(route, user[r])
     IN /\ window' = [window EXCEPT ![key] = Append(@, r)]
        /\ IF Len(window[key]) < route.limit
           THEN Goto(r, "forward") /\ UNCHANGED status
           ELSE Answer(r, "limited")
  /\ UNCHANGED <<requestVars, user, txn, token, outcome, jar, failures>>

\* Redis fails, with the attempt counted or not: an uncaught exception, answered like
\* any other with a 500 (told apart here).
CheckLimitFails(r) ==
  /\ failures < MaxFailures
  /\ pc[r] = "limit"
  /\ LET key == RateKey(Match(offer[r][2]), user[r])
     IN window' \in {window, [window EXCEPT ![key] = Append(@, r)]}
  /\ Answer(r, "no_limiter")
  /\ failures' = failures + 1
  /\ UNCHANGED <<requestVars, user, txn, token, outcome, jar>>

\* The oldest attempt of a window leaves it.
WindowSlides(k) ==
  /\ window[k] # <<>>
  /\ window' = [window EXCEPT ![k] = Tail(@)]
  /\ UNCHANGED <<pc, requestVars, user, txn, token, status, outcome, jar, failures>>

\* _STRIPPED_HEADERS.
StrippedHeaders == {"x-user-id", "x-user-roles", "authorization", "x-correlation-id", "cookie"}

\* _rewrite_headers: what reaches the service of what a client sent as u.
RewriteHeaders(sent, u) ==
  (sent \ StrippedHeaders) \cup {"x-correlation-id"}
    \cup IF u = NoOne THEN {} ELSE {"x-user-id", "x-user-roles"}

\* get_current_applicant_id of the two services: the profile wants the access token
\* itself, the loans the identity the gateway vouches for.
KnowsCaller(path, headers) ==
  /\ path = Me => "authorization" \in headers
  /\ IsPrefix(Loans, path) => "x-user-id" \in headers

\* proxy.forward: the service takes the request.  A refresh finds the row of its
\* token valid, or is refused; any service may answer with an error.
Forward(r) ==
  /\ pc[r] = "forward"
  /\ \/ /\ IsCookieAuth(offer[r][2])
        /\ offer[r][2] = RefreshPath => token[presented[r]] = "valid"
        /\ user' = [user EXCEPT ![r] = IF presented[r] = NoToken THEN @ ELSE user[presented[r]]]
        /\ txn' = [txn EXCEPT ![r] = "open"]
        /\ Goto(r, "wait") /\ UNCHANGED status
     \/ /\ \/ Answer(r, "error")
           \/ /\ ~IsCookieAuth(offer[r][2])
              /\ \E sent \in SUBSET {"authorization", "x-user-id"} :
                   Answer(r, IF KnowsCaller(offer[r][2], RewriteHeaders(sent, user[r]))
                             THEN "ok" ELSE "unauthorized")
        /\ UNCHANGED <<user, txn>>
  /\ UNCHANGED <<requestVars, window, token, outcome, jar, failures>>

\* The tokens of the sign-in exist, and the one it presented is revoked.
Rotate(r) ==
  /\ txn' = [txn EXCEPT ![r] = "committed"]
  /\ token' = [t \in Requests |-> IF t = r THEN "valid"
                                  ELSE IF t = presented[r] THEN "revoked" ELSE token[t]]

\* The service commits, whether or not anybody waits for its answer still.
Commit(r) ==
  /\ txn[r] = "open"
  /\ Rotate(r)
  /\ UNCHANGED <<pc, requestVars, user, window, status, outcome, jar, failures>>

\* The commit raises, done or not done: an error for who waits for it.
CommitFails(r) ==
  /\ failures < MaxFailures
  /\ txn[r] = "open"
  /\ \/ Rotate(r)
     \/ txn' = [txn EXCEPT ![r] = "failed"] /\ UNCHANGED token
  /\ IF first = "commit" /\ pc[r] = "wait" THEN Answer(r, "error") ELSE UNCHANGED <<pc, status>>
  /\ failures' = failures + 1
  /\ UNCHANGED <<requestVars, user, window, outcome, jar>>

\* The gateway has the service's answer.
Respond(r) ==
  /\ pc[r] = "wait"
  /\ first = "commit" => txn[r] = "committed"
  /\ Answer(r, "ok")
  /\ UNCHANGED <<requestVars, user, window, txn, token, outcome, jar, failures>>

\* The call raises (ReadTimeout, ConnectError): 500, whatever the service still does.
ForwardFails(r) ==
  /\ failures < MaxFailures
  /\ pc[r] \in {"forward", "wait"}
  /\ Goto(r, "done")
  /\ status' = [status EXCEPT ![r] = "error"]
  /\ outcome' = [outcome EXCEPT ![r] = "error"]
  /\ failures' = failures + 1
  /\ UNCHANGED <<requestVars, user, window, txn, token, jar>>

\* Faulty: a refresh renews the access cookie only.
SetCookies_AccessOnly(r) ==
  IF status[r] = "logged_out" THEN NoCookies
  ELSE IF status[r] = "ok" /\ offer[r][2] = RefreshPath THEN [jar EXCEPT !.access = r]
  ELSE IF status[r] = "ok" /\ IsCookieAuth(offer[r][2]) THEN [access |-> r, refresh |-> r]
  ELSE jar

\* Faulty: a logout clears cg_access under another path.
SetCookies_WrongPath(r) ==
  IF status[r] = "logged_out" THEN [jar EXCEPT !.refresh = NoToken]
  ELSE IF status[r] = "ok" /\ IsCookieAuth(offer[r][2]) THEN [access |-> r, refresh |-> r]
  ELSE jar

\* Faulty: the tokens are read from an answer without looking at its status.
SetCookies_AnyStatus(r) ==
  IF status[r] = "logged_out" THEN NoCookies
  ELSE IF status[r] = "ok" THEN [access |-> r, refresh |-> r]
  ELSE IF IsCookieAuth(offer[r][2]) THEN [access |-> "", refresh |-> ""]
  ELSE jar

\* The Set-Cookie headers of the answer: both tokens of a sign-in that succeeded
\* (build_cookie_auth_response), both cleared by a logout, else none.
SetCookies(r) ==
  IF status[r] = "logged_out" THEN NoCookies
  ELSE IF status[r] = "ok" /\ IsCookieAuth(offer[r][2]) THEN [access |-> r, refresh |-> r]
  ELSE jar

\* The answer arrives.
Deliver(r) ==
  /\ pc[r] = "answer"
  /\ Goto(r, "done")
  /\ outcome' = [outcome EXCEPT ![r] = status[r]]
  /\ jar' = SetCookies(r)
  /\ UNCHANGED <<requestVars, user, window, txn, token, status, failures>>

\* The browser has gone when the answer comes.
AnswerLost(r) ==
  /\ failures < MaxFailures
  /\ pc[r] = "answer"
  /\ Goto(r, "done")
  /\ outcome' = [outcome EXCEPT ![r] = "lost"]
  /\ failures' = failures + 1
  /\ UNCHANGED <<requestVars, user, window, txn, token, status, jar>>

\* Max-Age of cg_access: fifteen minutes.
AccessExpires ==
  /\ jar.access # NoToken
  /\ jar' = [jar EXCEPT !.access = NoToken]
  /\ UNCHANGED <<pc, requestVars, user, window, txn, token, status, outcome, failures>>

Next ==
  \/ \E r \in Requests :
       \/ Receive(r) \/ CheckLimit(r) \/ Forward(r) \/ Commit(r) \/ Respond(r) \/ Deliver(r)
       \/ CheckLimitFails(r) \/ CommitFails(r) \/ ForwardFails(r) \/ AnswerLost(r)
  \/ \E k \in RateKeys : WindowSlides(k)
  \/ AccessExpires

Spec == Init /\ [][Next]_vars

-----------------------------------------------------------------------------
(***************************************************************************)
(* Properties.                                                             *)
(***************************************************************************)

\* The tabs of a browser never rob each other of the session: the refresh cookie
\* is still worth something, however refreshes, sign-ins and logouts overlap - unless a
\* refresh that used it has its answer under way or lost, or the answer it came with
\* went ahead of a commit, and that one is still to come or has failed.
CookieIsLive ==
  jar.refresh # NoToken =>
    \/ token[jar.refresh] = "valid"
    \/ \E r \in Requests :
         presented[r] = jar.refresh /\ token[r] # "absent" /\ outcome[r] # "ok"
    \/ first = "respond" /\ txn[jar.refresh] \in {"open", "failed"}

\* Both cookies come from one sign-in: a request is never made as one applicant
\* and refreshed as another.
OneSession == jar.access # NoToken => jar.access = jar.refresh

\* Sign-ins and registrations share one budget, and all loan requests of an
\* applicant share another, with cookie or Bearer, in whatever tab: of the
\* attempts still in a window no more than the limit went through.
WentThrough(paths, u) ==
  {r \in Requests : /\ \E k \in RateKeys : \E i \in DOMAIN window[k] : window[k][i] = r
                    /\ status[r] \notin {"limited", "no_limiter"}
                    /\ \E p \in paths : IsPrefix(p, offer[r][2])
                    /\ u # NoOne => user[r] = u}
SharedBudgets ==
  /\ Cardinality(WentThrough({Register, Login}, NoOne)) <= AuthLimit
  /\ \A a \in Applicants : Cardinality(WentThrough({Loans}, a)) <= LoanLimit
=============================================================================
