--------------------------- MODULE Gateway_proofs ---------------------------
(***************************************************************************)
(* Proofs about Gateway, for any requests, applicants, offers, limits and  *)
(* bound on the failures.                                                  *)
(*                                                                         *)
(*   PhaseInv  TypeOK, and how far a request is tells what became of it:   *)
(*             its tokens exist when its sign-in has committed, its        *)
(*             outcome is known only when it is over, and the cookie it    *)
(*             came with is of a sign-in whose answer had arrived, and     *)
(*             which had committed if the service took the request         *)
(*   JarInv    both cookies are of one sign-in, whose answer arrived and   *)
(*             which has committed unless answers go ahead of commits;     *)
(*             this gives OneSession                                       *)
(*   LiveInv   a token is revoked only by a request that presented it and  *)
(*             has new ones, and the jar moves on with the answer; with    *)
(*             it CookieIsLive is inductive                                *)
(*   BudgetInv an attempt in a window is of a request that the route table *)
(*             counts there, and those let through are within the limit;   *)
(*             this gives SharedBudgets                                    *)
(***************************************************************************)
EXTENDS Gateway, FiniteSetTheorems, SequenceTheorems, TLAPS

RequestPhase(r) ==
  /\ pc[r] = "idle" => presented[r] = NoToken
  /\ txn[r] # "none" => pc[r] \in {"wait", "answer", "done"}
  /\ txn[r] # "none" /\ presented[r] # NoToken => txn[presented[r]] = "committed"
  /\ token[r] # "absent" <=> txn[r] = "committed"
  /\ pc[r] = "wait" => txn[r] # "none" /\ IsCookieAuth(offer[r][2])
  /\ pc[r] \in {"idle", "limit", "forward", "wait"} => status[r] = "none"
  /\ pc[r] # "done" => outcome[r] = "none"
  /\ presented[r] # NoToken => offer[r][2] = RefreshPath /\ outcome[presented[r]] = "ok"
  /\ pc[r] # "idle" /\ status[r] = "ok" /\ IsCookieAuth(offer[r][2]) =>
       txn[r] # "none" /\ (first = "commit" => txn[r] = "committed")

PhaseInv ==
  /\ TypeOK
  /\ offer \in [Requests -> Offers \cup {<<>>}]
  /\ \A r \in Requests : RequestPhase(r)

JarInv ==
  /\ OneSession
  /\ jar.refresh # NoToken =>
       /\ outcome[jar.refresh] = "ok" /\ txn[jar.refresh] # "none"
       /\ first = "commit" => txn[jar.refresh] = "committed"

LiveInv ==
  /\ \A t \in Requests :
       token[t] = "revoked" => \E r \in Requests : presented[r] = t /\ token[r] # "absent"
  /\ \A r \in Requests :
       presented[r] # NoToken /\ outcome[r] = "ok" => jar.refresh # presented[r]
  /\ CookieIsLive

\* The attempts of a window, and those of them that were not refused.
Attempts(k) == {window[k][i] : i \in DOMAIN window[k]}
Refusals == {"limited", "no_limiter"}
LetThrough(k) == {x \in Attempts(k) : status[x] \notin Refusals}
LimitOf(k) == IF k = <<"auth">> THEN AuthLimit ELSE LoanLimit

IsLimited(path) == Routable(path) /\ Match(path).bucket # "unlimited"
CountsFor(x, k) ==
  /\ pc[x] \notin {"idle", "limit"} /\ presented[x] = NoToken
  /\ k = RateKey(Match(offer[x][2]), user[x])

BudgetInv ==
  /\ \A x \in Requests : pc[x] = "limit" => IsLimited(offer[x][2])
  /\ \A k \in RateKeys : /\ \A x \in Attempts(k) : CountsFor(x, k)
                         /\ Cardinality(LetThrough(k)) <= LimitOf(k)

-----------------------------------------------------------------------------
\* The refresh path is one of those whose answers set cookies.
LEMMA RefreshIsCookieAuth == IsCookieAuth(RefreshPath)
BY DEF IsCookieAuth, IsPrefix

\* What the handler does before its first await, as far as the cookies are concerned.
Dispatches(r) ==
  /\ \E o \in Offers, p \in Requests \cup {NoToken}, u \in Applicants \cup {NoOne} :
       /\ offer' = [offer EXCEPT ![r] = o]
       /\ presented' = [presented EXCEPT ![r] = p]
       /\ user' = [user EXCEPT ![r] = u]
       /\ p # NoToken => o[2] = RefreshPath /\ p = jar.refresh
  /\ \/ \E step \in {"limit", "forward"} : Goto(r, step) /\ UNCHANGED status
     \/ \E code \in {"logged_out", "not_found", "unauthorized"} : Answer(r, code)
  /\ pc[r] = "idle" /\ UNCHANGED <<first, window, txn, token, outcome, jar, failures>>

\* The cookie goes only with a refresh, and whatever the handler decides before its first
\* await, it does not answer with success.
LEMMA ReceiveDispatches ==
  ASSUME TypeOK, NEW r \in Requests, Receive(r)
  PROVE  Dispatches(r)
<1> DEFINE path(o) == o[2]
           u(o, a) == IF IsCookieAuth(path(o)) THEN a ELSE Authenticate(a)
<1>1. PICK o \in Offers, a \in Applicants \cup {NoOne} :
        /\ offer' = [offer EXCEPT ![r] = o]
        /\ presented' = [presented EXCEPT ![r] = IF path(o) = RefreshPath THEN jar.refresh
                                                 ELSE NoToken]
        /\ user' = [user EXCEPT ![r] = IF IsLogout(path(o)) \/ path(o) = Webhook THEN NoOne
                                       ELSE u(o, a)]
        /\ Dispatch(r, path(o), u(o, a))
  BY DEF Receive
<1>2. u(o, a) \in Applicants \cup {NoOne}
  BY DEF Authenticate, TypeOK
<1>3. jar.refresh \in Requests \cup {NoToken}
  BY DEF TypeOK
<1>4. \/ \E step \in {"limit", "forward"} : Goto(r, step) /\ UNCHANGED status
      \/ \E code \in {"logged_out", "not_found", "unauthorized"} : Answer(r, code)
  BY <1>1 DEF Dispatch
<1>5. pc[r] = "idle" /\ UNCHANGED <<first, window, txn, token, outcome, jar, failures>>
  BY DEF Receive
<1> HIDE DEF u
<1>6. \E p \in Requests \cup {NoToken}, v \in Applicants \cup {NoOne} :
        /\ presented' = [presented EXCEPT ![r] = p]
        /\ user' = [user EXCEPT ![r] = v]
        /\ p # NoToken => path(o) = RefreshPath /\ p = jar.refresh
  BY <1>1, <1>2, <1>3
<1> QED
  BY <1>1, <1>4, <1>5, <1>6 DEF Dispatches

\* A limiter's window takes any number of attempts.
LEMMA WindowGrows ==
  ASSUME window \in [RateKeys -> Seq(Requests)], NEW r \in Requests, NEW key
  PROVE  [window EXCEPT ![key] = Append(@, r)] \in [RateKeys -> Seq(Requests)]
<1>1. CASE key \in RateKeys
  <2>1. Append(window[key], r) \in Seq(Requests)
    BY <1>1
  <2> QED
    BY <2>1
<1>2. CASE key \notin RateKeys
  BY <1>2
<1> QED
  BY <1>1, <1>2

-----------------------------------------------------------------------------
\* Nothing is under way at first.
LEMMA PhaseInvInit == Init => PhaseInv
BY BoundsAssumption DEF Init, PhaseInv, TypeOK, RequestPhase, Steps, Statuses, NoCookies

\* Types: no step takes a variable out of its type, and a request keeps its offer.
LEMMA TypeNext ==
  TypeOK /\ offer \in [Requests -> Offers \cup {<<>>}] /\ [Next]_vars =>
    TypeOK' /\ offer' \in [Requests -> Offers \cup {<<>>}]
<1> DEFINE T == TypeOK /\ offer \in [Requests -> Offers \cup {<<>>}]
<1> SUFFICES ASSUME T, [Next]_vars PROVE T'
  OBVIOUS
<1> USE BoundsAssumption DEF TypeOK, Steps, Statuses, Goto, Answer, requestVars
<1>1. ASSUME NEW r \in Requests, Receive(r) PROVE T'
  <2>1. Dispatches(r)
    BY <1>1, ReceiveDispatches DEF TypeOK
  <2>2. /\ pc' \in [Requests -> Steps] /\ status' \in [Requests -> Statuses]
        /\ \A q \in Requests \ {r} : pc'[q] = pc[q]
    <3>1. \/ \E step \in {"limit", "forward"} : Goto(r, step) /\ UNCHANGED status
          \/ \E code \in {"logged_out", "not_found", "unauthorized"} : Answer(r, code)
      BY <2>1 DEF Dispatches
    <3>2. ASSUME NEW step \in {"limit", "forward"}, Goto(r, step), UNCHANGED status
          PROVE  /\ pc' \in [Requests -> Steps] /\ status' \in [Requests -> Statuses]
                 /\ \A q \in Requests \ {r} : pc'[q] = pc[q]
      BY <3>2
    <3>3. ASSUME NEW code \in {"logged_out", "not_found", "unauthorized"}, Answer(r, code)
          PROVE  /\ pc' \in [Requests -> Steps] /\ status' \in [Requests -> Statuses]
                 /\ \A q \in Requests \ {r} : pc'[q] = pc[q]
      BY <3>3
    <3> QED
      BY <3>1, <3>2, <3>3
  <2>3. /\ presented' \in [Requests -> Requests \cup {NoToken}]
        /\ user' \in [Requests -> Applicants \cup {NoOne}]
        /\ offer' \in [Requests -> Offers \cup {<<>>}]
        /\ offer'[r] \in Offers /\ \A q \in Requests \ {r} : offer'[q] = offer[q]
    BY <2>1 DEF Dispatches
  <2> QED
    BY <2>1, <2>2, <2>3 DEF Dispatches
<1>2. ASSUME NEW r \in Requests, CheckLimit(r) PROVE T'
  <2>1. window' \in [RateKeys -> Seq(Requests)]
    BY <1>2, WindowGrows DEF CheckLimit
  <2>2. /\ pc[r] = "limit"
        /\ UNCHANGED <<offer, presented, first, user, txn, token, outcome, jar, failures>>
    BY <1>2 DEF CheckLimit
  <2>3. (Goto(r, "forward") /\ UNCHANGED status) \/ Answer(r, "limited")
    BY <1>2 DEF CheckLimit
  <2>4. CASE Goto(r, "forward") /\ UNCHANGED status
    BY <2>1, <2>2, <2>4
  <2>5. CASE Answer(r, "limited")
    BY <2>1, <2>2, <2>5
  <2> QED
    BY <2>3, <2>4, <2>5
<1>3. ASSUME NEW r \in Requests, Forward(r) PROVE T'
  <2>1. /\ \/ Goto(r, "wait") /\ UNCHANGED status
           \/ \E code \in {"error", "ok", "unauthorized"} : Answer(r, code)
        /\ pc[r] = "forward"
        /\ UNCHANGED <<offer, presented, first, window, token, outcome, jar, failures>>
    BY <1>3 DEF Forward
  <2>2. /\ user' \in [Requests -> Applicants \cup {NoOne}]
        /\ txn' \in [Requests -> {"none", "open", "committed", "failed"}]
    BY <1>3 DEF Forward
  <2>3. /\ pc' \in [Requests -> Steps] /\ status' \in [Requests -> Statuses]
        /\ \A q \in Requests : pc'[q] # "idle" => pc[q] # "idle"
    <3>1. CASE Goto(r, "wait") /\ UNCHANGED status
      BY <2>1, <3>1
    <3>2. ASSUME NEW code \in {"error", "ok", "unauthorized"}, Answer(r, code)
          PROVE  /\ pc' \in [Requests -> Steps] /\ status' \in [Requests -> Statuses]
                 /\ \A q \in Requests : pc'[q] # "idle" => pc[q] # "idle"
      BY <2>1, <3>2
    <3> QED
      BY <2>1, <3>1, <3>2
  <2>4. \A q \in Requests : pc'[q] # "idle" => offer'[q] \in Offers
    BY <2>1, <2>3
  <2>5. UNCHANGED <<offer, presented, first, window, token, outcome, jar, failures>>
    BY <2>1
  <2> QED
    BY <2>2, <2>3, <2>4, <2>5
<1>4. ASSUME NEW r \in Requests, Commit(r) PROVE T'
  BY <1>4 DEF Commit, Rotate
<1>12. ASSUME NEW r \in Requests, CommitFails(r) PROVE T'
  <2>1. /\ txn' \in [Requests -> {"none", "open", "committed", "failed"}]
        /\ token' \in [Requests -> {"absent", "valid", "revoked"}]
        /\ failures' \in 0..MaxFailures
    <3>1. failures < MaxFailures /\ failures' = failures + 1
      BY <1>12 DEF CommitFails
    <3>2. CASE Rotate(r)
      BY <3>1, <3>2 DEF Rotate
    <3>3. CASE txn' = [txn EXCEPT ![r] = "failed"] /\ UNCHANGED token
      BY <3>1, <3>3
    <3> QED
      BY <1>12, <3>2, <3>3 DEF CommitFails
  <2>2. /\ UNCHANGED <<offer, presented, first, user, window, outcome, jar>>
        /\ (pc[r] = "wait" /\ Answer(r, "error")) \/ UNCHANGED <<pc, status>>
    BY <1>12 DEF CommitFails
  <2>3. /\ pc' \in [Requests -> Steps] /\ status' \in [Requests -> Statuses]
        /\ \A q \in Requests : pc'[q] # "idle" => offer'[q] \in Offers
    <3>1. CASE pc[r] = "wait" /\ Answer(r, "error")
      BY <2>2, <3>1
    <3>2. CASE UNCHANGED <<pc, status>>
      BY <2>2, <3>2
    <3> QED
      BY <2>2, <3>1, <3>2
  <2>4. UNCHANGED <<offer, presented, first, user, window, outcome, jar>>
    BY <2>2
  <2> QED
    BY <2>1, <2>3, <2>4
<1>13. ASSUME NEW r \in Requests, Respond(r) PROVE T'
  BY <1>13 DEF Respond
<1>5. ASSUME NEW r \in Requests, Deliver(r) PROVE T'
  BY <1>5 DEF Deliver, SetCookies, NoCookies
<1>6. ASSUME NEW r \in Requests, CheckLimitFails(r) PROVE T'
  <2>1. window' \in [RateKeys -> Seq(Requests)]
    <3> DEFINE key == RateKey(Match(offer[r][2]), user[r])
    <3>1. window' = window \/ window' = [window EXCEPT ![key] = Append(@, r)]
      BY <1>6 DEF CheckLimitFails
    <3> HIDE DEF key
    <3>2. window \in [RateKeys -> Seq(Requests)]
      OBVIOUS
    <3>3. [window EXCEPT ![key] = Append(@, r)] \in [RateKeys -> Seq(Requests)]
      BY <3>2, WindowGrows
    <3> QED
      BY <3>1, <3>2, <3>3
  <2> QED
    BY <1>6, <2>1 DEF CheckLimitFails
<1>7. ASSUME NEW r \in Requests, ForwardFails(r) PROVE T'
  BY <1>7 DEF ForwardFails
<1>8. ASSUME NEW r \in Requests, AnswerLost(r) PROVE T'
  BY <1>8 DEF AnswerLost
<1>9. ASSUME NEW k \in RateKeys, WindowSlides(k) PROVE T'
  <2>1. window' \in [RateKeys -> Seq(Requests)]
    <3>1. Tail(window[k]) \in Seq(Requests)
      BY <1>9, HeadTailProperties DEF WindowSlides
    <3> QED
      BY <1>9, <3>1 DEF WindowSlides
  <2> QED
    BY <1>9, <2>1 DEF WindowSlides
<1>10. CASE AccessExpires
  BY <1>10 DEF AccessExpires
<1>11. CASE UNCHANGED vars
  BY <1>11 DEF vars
<1> QED
  BY <1>1, <1>2, <1>3, <1>4, <1>5, <1>6, <1>7, <1>8, <1>9, <1>10, <1>11,
     <1>12, <1>13
  DEF Next

\* A new request is at its beginning, with a cookie that an answer had set.
LEMMA ReceivePhase ==
  ASSUME PhaseInv, JarInv, NEW r \in Requests, NEW q \in Requests, Dispatches(r)
  PROVE  RequestPhase(q)'
<1>1. PICK o \in Offers, p \in Requests \cup {NoToken} :
        /\ offer' = [offer EXCEPT ![r] = o]
        /\ presented' = [presented EXCEPT ![r] = p]
        /\ p # NoToken => o[2] = RefreshPath /\ p = jar.refresh
  BY DEF Dispatches
<1>3. pc[r] = "idle" /\ UNCHANGED <<first, txn, token, outcome>>
  BY DEF Dispatches
<1>4. status[r] = "none" /\ txn[r] = "none" /\ token[r] = "absent" /\ outcome[r] = "none"
  BY <1>3 DEF PhaseInv, RequestPhase
<1>5. \/ \E step \in {"limit", "forward"} : Goto(r, step) /\ UNCHANGED status
      \/ \E code \in {"logged_out", "not_found", "unauthorized"} : Answer(r, code)
  BY DEF Dispatches
<1>6. p # NoToken => outcome[p] = "ok"
  BY <1>1 DEF JarInv
<1>7. CASE q = r
  <2>1. /\ offer'[q] = o /\ presented'[q] = p /\ outcome' = outcome
        /\ txn'[q] = "none" /\ token'[q] = "absent" /\ outcome'[q] = "none"
    BY <1>1, <1>3, <1>4, <1>7 DEF PhaseInv, TypeOK
  <2>2. \/ pc'[q] \in {"limit", "forward"} /\ status'[q] = "none"
        \/ pc'[q] = "answer" /\ status'[q] # "ok"
    BY <1>4, <1>5, <1>7 DEF PhaseInv, TypeOK, Goto, Answer
  <2> QED
    BY <2>1, <2>2, <1>1, <1>6 DEF RequestPhase
<1>8. CASE q # r
  BY <1>1, <1>3, <1>5, <1>8 DEF RequestPhase, PhaseInv, TypeOK, Goto, Answer
<1> QED
  BY <1>7, <1>8

\* When a sign-in commits, the token it presented was there, and is no longer valid.
LEMMA RotatePhase ==
  ASSUME PhaseInv, NEW r \in Requests, NEW q \in Requests, txn[r] = "open", Rotate(r),
         UNCHANGED <<offer, presented, first, outcome>>,
         UNCHANGED <<pc, status>> \/ (pc[r] = "wait" /\ Answer(r, "error"))
  PROVE  RequestPhase(q)'
<1> USE DEF PhaseInv, TypeOK, Goto, Answer
<1>1. /\ txn' = [txn EXCEPT ![r] = "committed"]
      /\ token' = [t \in Requests |-> IF t = r THEN "valid"
                                      ELSE IF t = presented[r] THEN "revoked" ELSE token[t]]
  BY DEF Rotate
<1>2. presented[r] # NoToken => txn[presented[r]] = "committed"
  BY DEF RequestPhase
<1>3. txn'[q] = "committed" <=> token'[q] # "absent"
  BY <1>1, <1>2, NoTokenAssumption DEF RequestPhase
<1>4. txn'[q] # "none" /\ presented'[q] # NoToken => txn'[presented'[q]] = "committed"
  BY <1>1 DEF RequestPhase
<1>5. /\ txn'[q] # "none" <=> txn[q] # "none"
      /\ txn[q] = "committed" => txn'[q] = "committed"
  BY <1>1
<1>6. \/ pc'[q] = pc[q] /\ status'[q] = status[q]
      \/ pc[q] = "wait" /\ pc'[q] = "answer" /\ status'[q] = "error"
  OBVIOUS
<1> QED
  BY <1>3, <1>4, <1>5, <1>6 DEF RequestPhase

\* What a request has got, and the cookie it came with, follow its way: in particular
\* a token exists only once its sign-in has committed.
LEMMA PhaseInvNext == PhaseInv /\ JarInv /\ [Next]_vars => PhaseInv'
<1> SUFFICES ASSUME PhaseInv, JarInv, [Next]_vars, NEW q \in Requests
             PROVE  RequestPhase(q)'
  BY TypeNext DEF PhaseInv
<1> USE DEF PhaseInv, RequestPhase, TypeOK, Steps, Statuses, Goto, Answer, requestVars
<1>1. ASSUME NEW r \in Requests, Receive(r) PROVE RequestPhase(q)'
  <2>1. Dispatches(r)
    BY <1>1, ReceiveDispatches DEF TypeOK
  <2> QED
    BY <2>1, ReceivePhase
<1>2. ASSUME NEW r \in Requests, CheckLimit(r) PROVE RequestPhase(q)'
  <2>1. pc[r] = "limit" /\ UNCHANGED <<offer, presented, first, txn, token, outcome>>
    BY <1>2 DEF CheckLimit
  <2>2. (Goto(r, "forward") /\ UNCHANGED status) \/ Answer(r, "limited")
    BY <1>2 DEF CheckLimit
  <2> QED
    BY <2>1, <2>2
<1>3. ASSUME NEW r \in Requests, Forward(r) PROVE RequestPhase(q)'
  <2>1. pc[r] = "forward" /\ UNCHANGED <<offer, presented, first, token, outcome>>
    BY <1>3 DEF Forward
  <2>2. CASE /\ IsCookieAuth(offer[r][2]) /\ txn' = [txn EXCEPT ![r] = "open"]
             /\ offer[r][2] = RefreshPath => token[presented[r]] = "valid"
             /\ Goto(r, "wait") /\ UNCHANGED status
    <3>1. txn[r] = "none" /\ token[r] = "absent"
      BY <2>1
    <3>2. presented[r] # NoToken => txn[presented[r]] = "committed"
      BY <2>2
    <3> QED
      BY <2>1, <2>2, <3>1, <3>2
  <2>3. CASE /\ UNCHANGED txn
             /\ \/ Answer(r, "error")
                \/ /\ ~IsCookieAuth(offer[r][2])
                   /\ \E code \in {"ok", "unauthorized"} : Answer(r, code)
    BY <2>1, <2>3
  <2> QED
    BY <1>3, <2>2, <2>3 DEF Forward
<1>4. ASSUME NEW r \in Requests, Commit(r) PROVE RequestPhase(q)'
  BY <1>4, RotatePhase DEF Commit
<1>12. ASSUME NEW r \in Requests, CommitFails(r) PROVE RequestPhase(q)'
  <2>1. /\ txn[r] = "open" /\ UNCHANGED <<offer, presented, first, outcome>>
        /\ UNCHANGED <<pc, status>> \/ (pc[r] = "wait" /\ Answer(r, "error"))
        /\ Rotate(r) \/ (txn' = [txn EXCEPT ![r] = "failed"] /\ UNCHANGED token)
        /\ first = "commit" => (pc[r] = "wait" => pc'[r] = "answer" /\ status'[r] = "error")
    BY <1>12 DEF CommitFails
  <2>2. CASE Rotate(r)
    BY <2>1, <2>2, RotatePhase
  <2>3. CASE txn' = [txn EXCEPT ![r] = "failed"] /\ UNCHANGED token
    <3>1. first = "commit" /\ IsCookieAuth(offer[r][2]) => status[r] # "ok"
      BY <2>1
    <3> QED
      BY <2>1, <2>3, <3>1
  <2> QED
    BY <2>1, <2>2, <2>3
<1>13. ASSUME NEW r \in Requests, Respond(r) PROVE RequestPhase(q)'
  BY <1>13 DEF Respond
<1>5. ASSUME NEW r \in Requests, Deliver(r) PROVE RequestPhase(q)'
  BY <1>5 DEF Deliver
<1>6. ASSUME NEW r \in Requests, CheckLimitFails(r) PROVE RequestPhase(q)'
  BY <1>6 DEF CheckLimitFails
<1>7. ASSUME NEW r \in Requests, ForwardFails(r) PROVE RequestPhase(q)'
  BY <1>7 DEF ForwardFails
<1>8. ASSUME NEW r \in Requests, AnswerLost(r) PROVE RequestPhase(q)'
  BY <1>8 DEF AnswerLost
<1>9. ASSUME NEW k \in RateKeys, WindowSlides(k) PROVE RequestPhase(q)'
  BY <1>9 DEF WindowSlides
<1>10. CASE AccessExpires
  BY <1>10 DEF AccessExpires
<1>11. CASE UNCHANGED vars
  BY <1>11 DEF vars
<1> QED
  BY <1>1, <1>2, <1>3, <1>4, <1>5, <1>6, <1>7, <1>8, <1>9, <1>10, <1>11,
     <1>12, <1>13
  DEF Next

\* There are no cookies at first.
LEMMA JarInvInit == Init => JarInv
BY DEF Init, JarInv, OneSession, NoCookies

\* The cookies are set together, by an answer to a sign-in, which has committed where
\* commits come first.
LEMMA JarInvNext == PhaseInv /\ JarInv /\ [Next]_vars => JarInv'
<1> SUFFICES ASSUME PhaseInv, JarInv, [Next]_vars PROVE JarInv'
  OBVIOUS
<1> USE NoTokenAssumption DEF JarInv, OneSession, NoCookies
<1>0. /\ jar \in [access : Requests \cup {NoToken}, refresh : Requests \cup {NoToken}]
      /\ outcome \in [Requests -> Statuses \cup {"lost"}]
      /\ txn \in [Requests -> {"none", "open", "committed", "failed"}]
  BY DEF PhaseInv, TypeOK
<1>1. ASSUME NEW r \in Requests, Receive(r) PROVE JarInv'
  <2>1. Dispatches(r)
    BY <1>1, ReceiveDispatches DEF PhaseInv
  <2> QED
    BY <2>1 DEF Dispatches
<1>2. ASSUME NEW r \in Requests, CheckLimit(r) PROVE JarInv'
  BY <1>2 DEF CheckLimit, requestVars
<1>3. ASSUME NEW r \in Requests, Forward(r) PROVE JarInv'
  <2>1. txn[r] = "none" /\ UNCHANGED <<first, outcome, jar>>
    BY <1>3 DEF Forward, requestVars, PhaseInv, RequestPhase
  <2>2. txn' = txn \/ txn' = [txn EXCEPT ![r] = "open"]
    BY <1>3 DEF Forward
  <2> QED
    BY <2>1, <2>2, <1>0
<1>4. ASSUME NEW r \in Requests, Commit(r) PROVE JarInv'
  BY <1>4, <1>0 DEF Commit, Rotate, requestVars
<1>12. ASSUME NEW r \in Requests, CommitFails(r) PROVE JarInv'
  <2>1. txn[r] = "open" /\ UNCHANGED <<first, outcome, jar>>
    BY <1>12 DEF CommitFails, requestVars
  <2>2. \E v \in {"committed", "failed"} : txn' = [txn EXCEPT ![r] = v]
    BY <1>12 DEF CommitFails, Rotate
  <2> QED
    BY <2>1, <2>2, <1>0
<1>13. ASSUME NEW r \in Requests, Respond(r) PROVE JarInv'
  BY <1>13 DEF Respond, requestVars
<1>5. ASSUME NEW r \in Requests, Deliver(r) PROVE JarInv'
  <2>1. /\ pc[r] = "answer" /\ UNCHANGED <<first, txn>>
        /\ outcome' = [outcome EXCEPT ![r] = status[r]]
    BY <1>5 DEF Deliver, requestVars
  <2>2. CASE status[r] = "logged_out"
    BY <1>5, <2>2 DEF Deliver, SetCookies
  <2>3. CASE status[r] = "ok" /\ IsCookieAuth(offer[r][2])
    <3>1. jar' = [access |-> r, refresh |-> r]
      BY <1>5, <2>3 DEF Deliver, SetCookies
    <3>2. txn[r] # "none" /\ (first = "commit" => txn[r] = "committed")
      BY <2>1, <2>3 DEF PhaseInv, RequestPhase
    <3> QED
      BY <2>1, <2>3, <3>1, <3>2, <1>0
  <2>4. CASE status[r] # "logged_out" /\ ~(status[r] = "ok" /\ IsCookieAuth(offer[r][2]))
    <3>1. jar' = jar
      BY <1>5, <2>4 DEF Deliver, SetCookies
    <3>2. outcome[r] = "none"
      BY <2>1 DEF PhaseInv, RequestPhase
    <3> QED
      BY <2>1, <3>1, <3>2, <1>0
  <2> QED
    BY <2>2, <2>3, <2>4
<1>6. ASSUME NEW r \in Requests, CheckLimitFails(r) PROVE JarInv'
  BY <1>6 DEF CheckLimitFails, requestVars
<1>7. ASSUME NEW r \in Requests, ForwardFails(r) PROVE JarInv'
  <2>1. outcome[r] = "none"
    BY <1>7 DEF ForwardFails, PhaseInv, RequestPhase
  <2> QED
    BY <1>7, <1>0, <2>1 DEF ForwardFails, requestVars
<1>8. ASSUME NEW r \in Requests, AnswerLost(r) PROVE JarInv'
  <2>1. outcome[r] = "none"
    BY <1>8 DEF AnswerLost, PhaseInv, RequestPhase
  <2> QED
    BY <1>8, <1>0, <2>1 DEF AnswerLost, requestVars
<1>9. ASSUME NEW k \in RateKeys, WindowSlides(k) PROVE JarInv'
  BY <1>9 DEF WindowSlides, requestVars
<1>10. CASE AccessExpires
  BY <1>10, <1>0 DEF AccessExpires, requestVars
<1>11. CASE UNCHANGED vars
  BY <1>11 DEF vars, requestVars
<1> QED
  BY <1>1, <1>2, <1>3, <1>4, <1>5, <1>6, <1>7, <1>8, <1>9, <1>10, <1>11,
     <1>12, <1>13
  DEF Next

\* When the tokens of a sign-in appear, the one it replaces is worth something still,
\* unless the answer has moved the jar on.
LEMMA RotateLive ==
  ASSUME PhaseInv, LiveInv, NEW r \in Requests, txn[r] = "open", Rotate(r),
         UNCHANGED <<presented, first, outcome, jar>>
  PROVE  LiveInv'
<1>0. /\ jar \in [access : Requests \cup {NoToken}, refresh : Requests \cup {NoToken}]
      /\ token \in [Requests -> {"absent", "valid", "revoked"}]
      /\ txn \in [Requests -> {"none", "open", "committed", "failed"}]
  BY DEF PhaseInv, TypeOK
<1>1. /\ txn' = [txn EXCEPT ![r] = "committed"]
      /\ token' = [t \in Requests |-> IF t = r THEN "valid"
                                      ELSE IF t = presented[r] THEN "revoked" ELSE token[t]]
  BY DEF Rotate
<1>2. /\ \A t \in Requests : token[t] # "absent" => token'[t] # "absent"
      /\ token'[r] = "valid"
  BY <1>1
<1>3. \A t \in Requests :
        token'[t] = "revoked" => \E q \in Requests : presented'[q] = t /\ token'[q] # "absent"
  BY <1>1, <1>2 DEF LiveInv
<1>4. CookieIsLive'
  <2> SUFFICES ASSUME jar.refresh # NoToken PROVE CookieIsLive'
    BY DEF CookieIsLive
  <2>1. jar.refresh \in Requests
    BY <1>0
  <2>2. CASE jar.refresh = r
    BY <1>2, <2>2 DEF CookieIsLive
  <2>3. CASE jar.refresh # r /\ jar.refresh = presented[r]
    <3>1. outcome[r] # "ok"
      BY <2>1, <2>3, NoTokenAssumption DEF LiveInv
    <3> QED
      BY <1>2, <2>3, <3>1 DEF CookieIsLive
  <2>4. CASE jar.refresh # r /\ jar.refresh # presented[r]
    <3>1. token'[jar.refresh] = token[jar.refresh] /\ txn'[jar.refresh] = txn[jar.refresh]
      BY <1>0, <1>1, <2>1, <2>4
    <3> QED
      BY <1>2, <3>1, <2>4 DEF CookieIsLive, LiveInv
  <2> QED
    BY <2>2, <2>3, <2>4
<1> QED
  BY <1>3, <1>4 DEF LiveInv

\* A refresh token is revoked only for the benefit of a request that has new ones, and
\* the jar moves on when that request is answered.
LEMMA LiveInvNext == PhaseInv /\ JarInv /\ LiveInv /\ [Next]_vars => LiveInv'
<1> SUFFICES ASSUME PhaseInv, JarInv, LiveInv, [Next]_vars PROVE LiveInv'
  OBVIOUS
<1> USE NoTokenAssumption DEF LiveInv, CookieIsLive, NoCookies
<1>0. /\ jar \in [access : Requests \cup {NoToken}, refresh : Requests \cup {NoToken}]
      /\ outcome \in [Requests -> Statuses \cup {"lost"}]
      /\ token \in [Requests -> {"absent", "valid", "revoked"}]
      /\ presented \in [Requests -> Requests \cup {NoToken}]
      /\ txn \in [Requests -> {"none", "open", "committed", "failed"}]
  BY DEF PhaseInv, TypeOK
<1>1. ASSUME NEW r \in Requests, Receive(r) PROVE LiveInv'
  <2>1. Dispatches(r)
    BY <1>1, ReceiveDispatches DEF PhaseInv
  <2>2. /\ \A q \in Requests \ {r} : presented'[q] = presented[q]
        /\ token[r] = "absent" /\ outcome[r] = "none"
        /\ UNCHANGED <<first, txn, token, outcome, jar>>
    BY <2>1, <1>0 DEF Dispatches, PhaseInv, RequestPhase
  <2> QED
    BY <2>2
<1>2. ASSUME NEW r \in Requests, CheckLimit(r) PROVE LiveInv'
  BY <1>2 DEF CheckLimit, requestVars
<1>3. ASSUME NEW r \in Requests, Forward(r) PROVE LiveInv'
  <2>1. txn[r] = "none" /\ UNCHANGED <<presented, first, token, outcome, jar>>
    BY <1>3 DEF Forward, requestVars, PhaseInv, RequestPhase
  <2>2. txn' = txn \/ txn' = [txn EXCEPT ![r] = "open"]
    BY <1>3 DEF Forward
  <2> QED
    BY <2>1, <2>2, <1>0
<1>4. ASSUME NEW r \in Requests, Commit(r) PROVE LiveInv'
  BY <1>4, RotateLive DEF Commit, requestVars
<1>12. ASSUME NEW r \in Requests, CommitFails(r) PROVE LiveInv'
  <2>1. txn[r] = "open" /\ UNCHANGED <<presented, first, outcome, jar>>
    BY <1>12 DEF CommitFails, requestVars
  <2>2. CASE Rotate(r)
    BY <2>1, <2>2, RotateLive
  <2>3. CASE txn' = [txn EXCEPT ![r] = "failed"] /\ UNCHANGED token
    BY <2>1, <2>3, <1>0
  <2> QED
    BY <1>12, <2>2, <2>3 DEF CommitFails
<1>13. ASSUME NEW r \in Requests, Respond(r) PROVE LiveInv'
  BY <1>13 DEF Respond, requestVars
<1>5. ASSUME NEW r \in Requests, Deliver(r) PROVE LiveInv'
  <2>1. /\ pc[r] = "answer" /\ UNCHANGED <<presented, first, txn, token>>
        /\ outcome' = [outcome EXCEPT ![r] = status[r]] /\ outcome[r] = "none"
    BY <1>5 DEF Deliver, requestVars, PhaseInv, RequestPhase
  <2>2. CASE status[r] = "logged_out"
    BY <1>5, <2>1, <2>2 DEF Deliver, SetCookies
  <2>3. CASE status[r] = "ok" /\ IsCookieAuth(offer[r][2])
    <3>1. jar' = [access |-> r, refresh |-> r]
      BY <1>5, <2>3 DEF Deliver, SetCookies
    <3>2. \A q \in Requests : presented[q] # r
      BY <2>1 DEF PhaseInv, RequestPhase
    <3>3. \/ token[r] = "valid"
          \/ first = "respond" /\ txn[r] \in {"open", "failed"}
      <4>1. txn[r] # "none" /\ (first = "commit" => txn[r] = "committed")
        BY <2>1, <2>3 DEF PhaseInv, RequestPhase
      <4>2. txn[r] = "committed" => token[r] = "valid"
        BY <3>2, <1>0 DEF PhaseInv, RequestPhase
      <4>3. first \in {"commit", "respond"}
        BY DEF PhaseInv, TypeOK
      <4> QED
        BY <4>1, <4>2, <4>3, <1>0
    <3> QED
      BY <2>1, <3>1, <3>2, <3>3
  <2>4. CASE status[r] # "logged_out" /\ ~(status[r] = "ok" /\ IsCookieAuth(offer[r][2]))
    <3>1. jar' = jar
      BY <1>5, <2>4 DEF Deliver, SetCookies
    <3>2. presented[r] # NoToken => status[r] # "ok"
      BY <2>4, RefreshIsCookieAuth DEF PhaseInv, RequestPhase
    <3>3. \A q \in Requests :
            presented[q] # NoToken => (outcome'[q] = "ok" <=> outcome[q] = "ok")
      BY <2>1, <3>2, <1>0
    <3> QED
      BY <2>1, <3>1, <3>3, <1>0
  <2> QED
    BY <2>2, <2>3, <2>4
<1>6. ASSUME NEW r \in Requests, CheckLimitFails(r) PROVE LiveInv'
  BY <1>6 DEF CheckLimitFails, requestVars
<1>7. ASSUME NEW r \in Requests, ForwardFails(r) PROVE LiveInv'
  BY <1>7, <1>0 DEF ForwardFails, requestVars
<1>8. ASSUME NEW r \in Requests, AnswerLost(r) PROVE LiveInv'
  BY <1>8, <1>0 DEF AnswerLost, requestVars
<1>9. ASSUME NEW k \in RateKeys, WindowSlides(k) PROVE LiveInv'
  BY <1>9 DEF WindowSlides, requestVars
<1>10. CASE AccessExpires
  BY <1>10, <1>0 DEF AccessExpires, requestVars
<1>11. CASE UNCHANGED vars
  BY <1>11 DEF vars, requestVars
<1> QED
  BY <1>1, <1>2, <1>3, <1>4, <1>5, <1>6, <1>7, <1>8, <1>9, <1>10, <1>11,
     <1>12, <1>13
  DEF Next

-----------------------------------------------------------------------------
\* A route's prefix agrees with the path it matches.
LEMMA PrefixAgrees ==
  ASSUME NEW S, NEW path \in Seq(S), NEW T, NEW p \in Seq(T), IsPrefix(p, path)
  PROVE  Len(p) <= Len(path) /\ \A i \in 1..Len(p) : p[i] = path[i]
<1>1. Len(p) <= Len(path) /\ SubSeq(p, 1, Len(p)) = SubSeq(path, 1, Len(p))
  BY DEF IsPrefix
<1>2. \A i \in 1..Len(p) : SubSeq(p, 1, Len(p))[i] = p[i] /\ SubSeq(path, 1, Len(p))[i] = path[i]
  BY <1>1
<1> QED
  BY <1>1, <1>2

\* The budget of a route shows in its prefix.
Words == {"auth", "register", "login", "refresh", "me", "loans", "{id}", "documents", "events",
          "webhooks", "stripe"}
SaysItsBudget(route) ==
  /\ route.prefix \in Seq(Words) /\ Len(route.prefix) \in {1, 2, 3}
  /\ route.bucket = "auth" => route.limit = AuthLimit
  /\ route.bucket = "loans" => route.limit = LoanLimit
  /\ route.bucket \in {"auth", "loans", "unlimited"}
  /\ route.bucket = "auth" => route.prefix[1] = "auth"
  /\ route.prefix[1] = "auth" =>
       /\ Len(route.prefix) = 2
       /\ route.prefix[2] \in {"register", "login"} => route.bucket = "auth"
       /\ route.prefix[2] = "refresh" => route.bucket = "unlimited"

\* ... as the table shows, route by route.
LEMMA RoutesSayTheirBudget == \A route \in Routes : SaysItsBudget(route)
<1>1. SaysItsBudget(Route(Register, "applicant", FALSE, "auth", AuthLimit))
  BY DEF Route, SaysItsBudget, Words, Register
<1>2. SaysItsBudget(Route(Login, "applicant", FALSE, "auth", AuthLimit))
  BY DEF Route, SaysItsBudget, Words, Login
<1>3. SaysItsBudget(Route(RefreshPath, "applicant", FALSE, "unlimited", 0))
  BY DEF Route, SaysItsBudget, Words, RefreshPath
<1>4. SaysItsBudget(Route(Me, "applicant", TRUE, "unlimited", 0))
  BY DEF Route, SaysItsBudget, Words, Me
<1>5. SaysItsBudget(Route(Loans, "loan", TRUE, "loans", LoanLimit))
  BY DEF Route, SaysItsBudget, Words, Loans
<1>6. SaysItsBudget(Route(Loan("{id}"), "loan", TRUE, "unlimited", 0))
  BY DEF Route, SaysItsBudget, Words, Loan
<1>7. SaysItsBudget(Route(Documents("{id}"), "document", TRUE, "unlimited", 0))
  BY DEF Route, SaysItsBudget, Words, Documents
<1>8. SaysItsBudget(Route(<<"loans", "{id}", "events">>, "none", TRUE, "unlimited", 0))
  BY DEF Route, SaysItsBudget, Words
<1>9. SaysItsBudget(Route(Webhook, "loan", FALSE, "unlimited", 0))
  BY DEF Route, SaysItsBudget, Words, Webhook
<1> QED
  BY <1>1, <1>2, <1>3, <1>4, <1>5, <1>6, <1>7, <1>8, <1>9 DEF Routes

\* Of the routes that match a path one has the longest prefix.
LEMMA MatchIsACandidate ==
  ASSUME NEW path, Candidates(path) # {}
  PROVE  Match(path) \in Candidates(path)
<1>1. \A route \in Candidates(path) :
        Len(route.prefix) = 1 \/ Len(route.prefix) = 2 \/ Len(route.prefix) = 3
  BY RoutesSayTheirBudget DEF Candidates, SaysItsBudget
<1>2. \E route \in Candidates(path) :
        \A other \in Candidates(path) : Len(other.prefix) <= Len(route.prefix)
  <2> DEFINE L(route) == Len(route.prefix)
             C == Candidates(path)
  <2>0. C # {} /\ \A route \in C : L(route) \in 1..3
    BY <1>1
  <2> HIDE DEF L, C
  <2>1. \E route \in C : \A other \in C : L(other) <= L(route)
    <3>1. CASE \E route \in C : L(route) = 3
      BY <2>0, <3>1
    <3>2. CASE (\A route \in C : L(route) # 3) /\ \E route \in C : L(route) = 2
      BY <2>0, <3>2
    <3>3. CASE \A route \in C : L(route) # 3 /\ L(route) # 2
      BY <2>0, <3>3
    <3> QED
      BY <3>1, <3>2, <3>3
  <2> QED
    BY <2>1 DEF L, C
<1> QED
  BY <1>2 DEF Match

\* What the table says of the budget of a path.
BudgetOf(path) ==
  LET route == Match(path)
  IN  /\ route.bucket = "auth" => route.limit = AuthLimit
      /\ route.bucket = "loans" => route.limit = LoanLimit
      /\ route.bucket \in {"auth", "loans", "unlimited"}
      /\ IsPrefix(Register, path) \/ IsPrefix(Login, path) => route.bucket = "auth"
      /\ IsPrefix(Loans, path) => route.bucket # "auth"
      /\ path = RefreshPath => route.bucket = "unlimited"

\* Sign-ins count as sign-ins and loan requests never do, however long their path.
LEMMA BudgetOfPath ==
  ASSUME NEW S, NEW path \in Seq(S), Candidates(path) # {}
  PROVE  BudgetOf(path)
<1> DEFINE route == Match(path)
<1>1. route \in Routes /\ IsPrefix(route.prefix, path)
  BY MatchIsACandidate DEF Candidates
<1> HIDE DEF route
<1>0. \A r \in Routes : SaysItsBudget(r)
  BY RoutesSayTheirBudget
<1>2. SaysItsBudget(route)
  BY <1>1, <1>0
<1>3. /\ route.prefix[1] = path[1]
      /\ Len(route.prefix) = 2 => route.prefix[2] = path[2]
  BY <1>1, <1>2, PrefixAgrees DEF SaysItsBudget
<1>4. IsPrefix(Register, path) => path[1] = "auth" /\ path[2] = "register"
  <2>1. Register \in Seq(Words) /\ 1 \in 1..Len(Register) /\ 2 \in 1..Len(Register)
        /\ Register[1] = "auth" /\ Register[2] = "register"
    BY DEF Register, Words
  <2> QED
    BY <2>1, PrefixAgrees
<1>5. IsPrefix(Login, path) => path[1] = "auth" /\ path[2] = "login"
  <2>1. Login \in Seq(Words) /\ 1 \in 1..Len(Login) /\ 2 \in 1..Len(Login)
        /\ Login[1] = "auth" /\ Login[2] = "login"
    BY DEF Login, Words
  <2> QED
    BY <2>1, PrefixAgrees
<1>6. IsPrefix(Loans, path) => path[1] = "loans"
  <2>1. Loans \in Seq(Words) /\ 1 \in 1..Len(Loans) /\ Loans[1] = "loans"
    BY DEF Loans, Words
  <2> QED
    BY <2>1, PrefixAgrees
<1>7. IsPrefix(Register, path) \/ IsPrefix(Login, path) => route.bucket = "auth"
  <2>1. path[1] = "auth" => route.prefix[2] = path[2]
    BY <1>2, <1>3 DEF SaysItsBudget
  <2> QED
    BY <1>2, <1>3, <1>4, <1>5, <2>1 DEF SaysItsBudget
<1>8. path = RefreshPath => route.bucket = "unlimited"
  BY <1>2, <1>3 DEF SaysItsBudget, RefreshPath
<1> QED
  BY <1>2, <1>3, <1>6, <1>7, <1>8 DEF BudgetOf, SaysItsBudget, route

\* A window has no more requests than entries.
LEMMA AttemptsAreFew ==
  ASSUME NEW S, NEW s \in Seq(S)
  PROVE  /\ IsFiniteSet({s[i] : i \in DOMAIN s})
         /\ Cardinality({s[i] : i \in DOMAIN s}) <= Len(s)
<1> DEFINE R == {s[i] : i \in DOMAIN s}
<1>1. s \in [1..Len(s) -> R] /\ \A x \in R : \E i \in 1..Len(s) : s[i] = x
  OBVIOUS
<1>2. s \in Surjection(1..Len(s), R)
  BY <1>1 DEF Surjection
<1>0. Len(s) \in Nat
  OBVIOUS
<1>3. IsFiniteSet(1..Len(s)) /\ Cardinality(1..Len(s)) = Len(s)
  BY <1>0, FS_Interval
<1> HIDE DEF R
<1>4. IsFiniteSet(R) /\ Cardinality(R) <= Len(s)
  BY <1>2, <1>3, FS_Surjection
<1> QED
  BY <1>4 DEF R

\* A request that has been counted keeps what it is counted by, and is refused for good.
AttemptsStand ==
  \A x \in Requests : pc[x] \notin {"idle", "limit"} =>
    /\ pc'[x] \notin {"idle", "limit"} /\ offer'[x] = offer[x] /\ presented'[x] = presented[x]
    /\ presented[x] = NoToken => user'[x] = user[x]
    /\ status[x] \in Refusals => status'[x] \in Refusals

LEMMA StepLeavesAttempts == PhaseInv /\ [Next]_vars => AttemptsStand
<1> SUFFICES ASSUME PhaseInv, [Next]_vars PROVE AttemptsStand
  OBVIOUS
<1>0. /\ pc \in [Requests -> Steps] /\ status \in [Requests -> Statuses]
      /\ user \in [Requests -> Applicants \cup {NoOne}]
      /\ presented \in [Requests -> Requests \cup {NoToken}]
      /\ offer \in [Requests -> Offers \cup {<<>>}]
      /\ \A x \in Requests :
           pc[x] \in {"idle", "limit", "forward", "wait"} => status[x] = "none"
      /\ \A x \in Requests : txn[x] # "none" => pc[x] \in {"wait", "answer", "done"}
  BY DEF PhaseInv, TypeOK, RequestPhase
<1> USE DEF AttemptsStand, Refusals, Goto, Answer, requestVars, Steps
<1>1. ASSUME NEW r \in Requests, Receive(r) PROVE AttemptsStand
  <2>1. Dispatches(r)
    BY <1>1, ReceiveDispatches DEF PhaseInv
  <2> QED
    BY <2>1, <1>0 DEF Dispatches
<1>2. ASSUME NEW r \in Requests, CheckLimit(r) PROVE AttemptsStand
  <2>1. /\ pc[r] = "limit" /\ UNCHANGED <<offer, presented, user>>
        /\ (Goto(r, "forward") /\ UNCHANGED status) \/ Answer(r, "limited")
    BY <1>2 DEF CheckLimit
  <2> QED
    BY <2>1, <1>0
<1>3. ASSUME NEW r \in Requests, Forward(r) PROVE AttemptsStand
  <2>1. /\ pc[r] = "forward" /\ UNCHANGED <<offer, presented>>
        /\ \/ Goto(r, "wait") /\ UNCHANGED status
           \/ \E code \in {"error", "ok", "unauthorized"} : Answer(r, code)
    BY <1>3 DEF Forward
  <2>2. \/ UNCHANGED user
        \/ user' = [user EXCEPT ![r] = IF presented[r] = NoToken THEN @ ELSE user[presented[r]]]
    BY <1>3 DEF Forward
  <2> QED
    BY <2>1, <2>2, <1>0
<1>4. ASSUME NEW r \in Requests, Commit(r) PROVE AttemptsStand
  BY <1>4, <1>0 DEF Commit
<1>12. ASSUME NEW r \in Requests, CommitFails(r) PROVE AttemptsStand
  <2>1. /\ UNCHANGED <<offer, presented, user>>
        /\ UNCHANGED <<pc, status>> \/ (pc[r] = "wait" /\ Answer(r, "error"))
    BY <1>12 DEF CommitFails
  <2> QED
    BY <2>1, <1>0
<1>13. ASSUME NEW r \in Requests, Respond(r) PROVE AttemptsStand
  BY <1>13, <1>0 DEF Respond
<1>5. ASSUME NEW r \in Requests, Deliver(r) PROVE AttemptsStand
  BY <1>5, <1>0 DEF Deliver
<1>6. ASSUME NEW r \in Requests, CheckLimitFails(r) PROVE AttemptsStand
  BY <1>6, <1>0 DEF CheckLimitFails
<1>7. ASSUME NEW r \in Requests, ForwardFails(r) PROVE AttemptsStand
  BY <1>7, <1>0 DEF ForwardFails
<1>8. ASSUME NEW r \in Requests, AnswerLost(r) PROVE AttemptsStand
  BY <1>8, <1>0 DEF AnswerLost
<1>9. ASSUME NEW k \in RateKeys, WindowSlides(k) PROVE AttemptsStand
  BY <1>9, <1>0 DEF WindowSlides
<1>10. CASE AccessExpires
  BY <1>10, <1>0 DEF AccessExpires
<1>11. CASE UNCHANGED vars
  BY <1>11, <1>0 DEF vars
<1> QED
  BY <1>1, <1>2, <1>3, <1>4, <1>5, <1>6, <1>7, <1>8, <1>9, <1>10, <1>11,
     <1>12, <1>13
  DEF Next

\* Only the handler sends a request to the limiter, when its route has a budget.
LEMMA ReceiveToLimit ==
  ASSUME TypeOK, offer \in [Requests -> Offers \cup {<<>>}],
         NEW r \in Requests, Receive(r), pc'[r] = "limit"
  PROVE  IsLimited(offer'[r][2])
<1>1. PICK o \in Offers, u \in {user'[r]} \cup Applicants \cup {NoOne} :
        offer' = [offer EXCEPT ![r] = o] /\ Dispatch(r, o[2], u)
  <2>1. PICK o \in Offers, a \in Applicants \cup {NoOne} :
          /\ offer' = [offer EXCEPT ![r] = o]
          /\ Dispatch(r, o[2], IF IsCookieAuth(o[2]) THEN a ELSE Authenticate(a))
    BY DEF Receive
  <2>2. Authenticate(a) \in Applicants \cup {NoOne}
    BY DEF Authenticate, TypeOK
  <2> QED
    BY <2>1, <2>2
<1>2. /\ Routable(o[2])
      /\ Goto(r, IF Match(o[2]).bucket = "unlimited" THEN "forward" ELSE "limit")
  BY <1>1 DEF Dispatch, Answer, Goto, TypeOK
<1>3. offer'[r] = o
  BY <1>1
<1> QED
  BY <1>2, <1>3 DEF Goto, IsLimited, TypeOK

\* What waits at the limiter has a budget.
LEMMA LimitedPathsNext ==
  PhaseInv /\ BudgetInv /\ [Next]_vars =>
    \A x \in Requests : pc'[x] = "limit" => IsLimited(offer'[x][2])
<1> SUFFICES ASSUME PhaseInv, BudgetInv, [Next]_vars, NEW x \in Requests, pc'[x] = "limit"
             PROVE  IsLimited(offer'[x][2])
  OBVIOUS
<1> USE DEF BudgetInv, PhaseInv, TypeOK, Goto, Answer, requestVars
<1>1. ASSUME NEW r \in Requests, Receive(r) PROVE IsLimited(offer'[x][2])
  <2>1. CASE x = r
    BY <1>1, <2>1, ReceiveToLimit
  <2>2. CASE x # r
    <3>1. Dispatches(r)
      BY <1>1, ReceiveDispatches
    <3>2. pc'[x] = pc[x] /\ offer'[x] = offer[x]
      BY <2>2, <3>1 DEF Dispatches
    <3> QED
      BY <3>2
  <2> QED
    BY <2>1, <2>2
<1>2. ASSUME NEW r \in Requests, CheckLimit(r) PROVE IsLimited(offer'[x][2])
  BY <1>2 DEF CheckLimit
<1>3. ASSUME NEW r \in Requests, Forward(r) PROVE IsLimited(offer'[x][2])
  <2>1. /\ offer' = offer
        /\ Goto(r, "wait") \/ \E code \in {"error", "ok", "unauthorized"} : Answer(r, code)
    BY <1>3 DEF Forward
  <2> QED
    BY <2>1
<1>4. ASSUME NEW r \in Requests, Commit(r) PROVE IsLimited(offer'[x][2])
  BY <1>4 DEF Commit
<1>12. ASSUME NEW r \in Requests, CommitFails(r) PROVE IsLimited(offer'[x][2])
  <2>1. offer' = offer /\ (pc' = pc \/ Answer(r, "error"))
    BY <1>12 DEF CommitFails
  <2> QED
    BY <2>1
<1>13. ASSUME NEW r \in Requests, Respond(r) PROVE IsLimited(offer'[x][2])
  BY <1>13 DEF Respond
<1>5. ASSUME NEW r \in Requests, Deliver(r) PROVE IsLimited(offer'[x][2])
  BY <1>5 DEF Deliver
<1>6. ASSUME NEW r \in Requests, CheckLimitFails(r) PROVE IsLimited(offer'[x][2])
  BY <1>6 DEF CheckLimitFails
<1>7. ASSUME NEW r \in Requests, ForwardFails(r) PROVE IsLimited(offer'[x][2])
  BY <1>7 DEF ForwardFails
<1>8. ASSUME NEW r \in Requests, AnswerLost(r) PROVE IsLimited(offer'[x][2])
  BY <1>8 DEF AnswerLost
<1>9. ASSUME NEW k \in RateKeys, WindowSlides(k) PROVE IsLimited(offer'[x][2])
  BY <1>9 DEF WindowSlides
<1>10. CASE AccessExpires
  BY <1>10 DEF AccessExpires
<1>11. CASE UNCHANGED vars
  BY <1>11 DEF vars
<1> QED
  BY <1>1, <1>2, <1>3, <1>4, <1>5, <1>6, <1>7, <1>8, <1>9, <1>10, <1>11,
     <1>12, <1>13
  DEF Next

\* A window lets through no more than it has entries.
LEMMA WindowsAreFinite ==
  ASSUME TypeOK, NEW k \in RateKeys
  PROVE  /\ Attempts(k) \subseteq Requests /\ IsFiniteSet(Attempts(k))
         /\ IsFiniteSet(LetThrough(k)) /\ Cardinality(LetThrough(k)) \in Nat
         /\ Cardinality(Attempts(k)) \in Nat /\ Len(window[k]) \in Nat
         /\ Cardinality(Attempts(k)) <= Len(window[k])
<1>1. window[k] \in Seq(Requests)
  BY DEF TypeOK
<1>0. Attempts(k) \subseteq Requests /\ Len(window[k]) \in Nat
  BY <1>1 DEF Attempts
<1>2. IsFiniteSet(Attempts(k)) /\ Cardinality(Attempts(k)) <= Len(window[k])
  BY <1>1, AttemptsAreFew, Zenon DEF Attempts
<1>3. LetThrough(k) \subseteq Attempts(k)
  BY DEF LetThrough
<1> QED
  BY <1>0, <1>2, <1>3, FS_Subset, FS_CardinalityType

\* The limits are numbers.
LEMMA Bounds == AuthLimit \in Nat /\ LoanLimit \in Nat
BY BoundsAssumption

\* A window that takes no new attempt stays within its budget.
LEMMA WindowKept ==
  ASSUME PhaseInv, TypeOK', BudgetInv, AttemptsStand, NEW k \in RateKeys,
         Attempts(k)' \subseteq Attempts(k)
  PROVE  (\A x \in Attempts(k)' : CountsFor(x, k)') /\ Cardinality(LetThrough(k))' <= LimitOf(k)
<1>1. TypeOK
  BY DEF PhaseInv
<1>2. \A x \in Attempts(k) : x \in Requests /\ CountsFor(x, k)
  BY <1>1, WindowsAreFinite DEF BudgetInv
<1>3. \A x \in Attempts(k)' : CountsFor(x, k)'
  BY <1>2 DEF AttemptsStand, CountsFor
<1>4. LetThrough(k)' \subseteq LetThrough(k)
  BY <1>2 DEF LetThrough, AttemptsStand, CountsFor
<1>5. IsFiniteSet(LetThrough(k)) /\ Cardinality(LetThrough(k)) \in Nat
  BY <1>1, WindowsAreFinite
<1>6. Cardinality(LetThrough(k)') <= Cardinality(LetThrough(k)) /\ Cardinality(LetThrough(k)') \in Nat
  BY <1>4, <1>5, FS_Subset, FS_CardinalityType
<1>7. Cardinality(LetThrough(k)) <= LimitOf(k) /\ LimitOf(k) \in Nat
  BY Bounds DEF BudgetInv, LimitOf
<1> QED
  BY <1>3, <1>5, <1>6, <1>7

\* Most steps leave the windows alone.
LEMMA BudgetKept ==
  ASSUME PhaseInv, BudgetInv, [Next]_vars, UNCHANGED window
  PROVE  BudgetInv'
<1>1. PhaseInv /\ TypeOK' /\ AttemptsStand
  BY TypeNext, StepLeavesAttempts DEF PhaseInv
<1>2. \A k \in RateKeys : Attempts(k)' = Attempts(k)
  BY DEF Attempts
<1>3. \A k \in RateKeys : /\ \A x \in Attempts(k)' : CountsFor(x, k)'
                          /\ Cardinality(LetThrough(k))' <= LimitOf(k)
  BY <1>1, <1>2, WindowKept
<1> QED
  BY <1>3, LimitedPathsNext DEF BudgetInv, LimitOf

\* The limiter counts an attempt under the key of its request, and lets it through only
\* while there is room.
LEMMA CheckLimitCounts ==
  ASSUME PhaseInv, BudgetInv, NEW r \in Requests, pc[r] = "limit"
  PROVE  LET route == Match(offer[r][2])
             key == RateKey(route, user[r])
         IN  presented[r] = NoToken /\ route.limit = LimitOf(key)
<1> DEFINE route == Match(offer[r][2])
           key == RateKey(route, user[r])
<1>1. offer[r] \in Offers /\ offer[r][2] \in Seq(STRING)
  BY OffersAssumption DEF PhaseInv, TypeOK
<1>2. IsLimited(offer[r][2])
  BY DEF BudgetInv
<1>3. BudgetOf(offer[r][2])
  BY <1>1, <1>2, BudgetOfPath, Zenon DEF IsLimited, Routable
<1>4. presented[r] = NoToken
  BY <1>2, <1>3 DEF PhaseInv, RequestPhase, BudgetOf, IsLimited
<1>5. route.bucket = "auth" => route.limit = LimitOf(key)
  BY <1>3 DEF BudgetOf, RateKey, LimitOf
<1>6. route.bucket = "loans" => route.limit = LimitOf(key)
  <2>1. route.bucket = "loans" => key = <<"loans", user[r]>> /\ key # <<"auth">>
    BY DEF RateKey
  <2> QED
    BY <1>3, <2>1 DEF BudgetOf, LimitOf
<1>7. route.bucket \in {"auth", "loans"}
  BY <1>2, <1>3 DEF BudgetOf, IsLimited
<1>8. route.limit = LimitOf(key)
  BY <1>5, <1>6, <1>7
<1> QED
  BY <1>4, <1>8

\* What is admitted is not more than what is counted.
LEMMA AdmittedAreFew ==
  ASSUME TypeOK', NEW k \in RateKeys
  PROVE  /\ Cardinality(LetThrough(k))' <= Len(window'[k])
         /\ Cardinality(LetThrough(k))' \in Nat /\ Len(window'[k]) \in Nat
<1>1. window'[k] \in Seq(Requests)
  BY DEF TypeOK
<1>2. IsFiniteSet(Attempts(k)') /\ Cardinality(Attempts(k)') <= Len(window'[k])
  BY <1>1, AttemptsAreFew, Zenon DEF Attempts
<1>3. LetThrough(k)' \subseteq Attempts(k)'
  BY DEF LetThrough
<1>4. /\ Cardinality(LetThrough(k)') <= Cardinality(Attempts(k)')
      /\ Cardinality(LetThrough(k)') \in Nat /\ Cardinality(Attempts(k)') \in Nat
  BY <1>2, <1>3, FS_Subset, FS_CardinalityType
<1>5. Len(window'[k]) \in Nat
  BY <1>1
<1> QED
  BY <1>2, <1>4, <1>5

\* An attempt that is counted and refused uses no budget.
LEMMA RefusedAdded ==
  ASSUME PhaseInv, BudgetInv, AttemptsStand, NEW k \in RateKeys, NEW r \in Requests,
         Attempts(k)' = Attempts(k) \cup {r}, CountsFor(r, k)', status'[r] \in Refusals
  PROVE  (\A x \in Attempts(k)' : CountsFor(x, k)') /\ Cardinality(LetThrough(k))' <= LimitOf(k)
<1>1. TypeOK
  BY DEF PhaseInv
<1>2. \A x \in Attempts(k) : x \in Requests /\ CountsFor(x, k)
  BY <1>1, WindowsAreFinite DEF BudgetInv
<1>3. \A x \in Attempts(k) : CountsFor(x, k)'
  BY <1>2 DEF AttemptsStand, CountsFor
<1>4. LetThrough(k)' \subseteq LetThrough(k)
  BY <1>2 DEF LetThrough, AttemptsStand, CountsFor
<1>5. IsFiniteSet(LetThrough(k)) /\ Cardinality(LetThrough(k)) \in Nat
  BY <1>1, WindowsAreFinite
<1>6. Cardinality(LetThrough(k)') <= Cardinality(LetThrough(k)) /\ Cardinality(LetThrough(k)') \in Nat
  BY <1>4, <1>5, FS_Subset, FS_CardinalityType
<1>7. Cardinality(LetThrough(k)) <= LimitOf(k) /\ LimitOf(k) \in Nat
  BY Bounds DEF BudgetInv, LimitOf
<1> QED
  BY <1>3, <1>5, <1>6, <1>7

\* One more attempt in a window: the one window it is counted in has it.
LEMMA AttemptAdded ==
  ASSUME TypeOK, NEW r \in Requests, NEW key,
         window' = [window EXCEPT ![key] = Append(@, r)], NEW k \in RateKeys
  PROVE  /\ k # key => Attempts(k)' = Attempts(k)
         /\ k = key => Attempts(k)' = Attempts(k) \cup {r} /\ Len(window'[k]) = Len(window[k]) + 1
<1>1. window \in [RateKeys -> Seq(Requests)]
  BY DEF TypeOK
<1>2. CASE k # key
  BY <1>1, <1>2 DEF Attempts
<1>3. CASE k = key
  <2>1. window'[k] = Append(window[k], r)
    BY <1>1, <1>3
  <2> DEFINE w == window[k]
  <2>2. w \in Seq(Requests)
    BY <1>1
  <2>3. DOMAIN w = 1..Len(w) /\ DOMAIN Append(w, r) = 1..(Len(w) + 1) /\ Len(w) \in Nat
    BY <2>2
  <2>4. \A i \in 1..Len(w) : Append(w, r)[i] = w[i]
    BY <2>2
  <2>5. Append(w, r)[Len(w) + 1] = r
    BY <2>2
  <2>6. Len(Append(w, r)) = Len(w) + 1
    BY <2>2
  <2> HIDE DEF w
  <2>7. {Append(w, r)[i] : i \in DOMAIN Append(w, r)} = {w[i] : i \in DOMAIN w} \cup {r}
    BY <2>3, <2>4, <2>5
  <2> QED
    BY <1>3, <2>1, <2>6, <2>7 DEF Attempts, w
<1> QED
  BY <1>2, <1>3

\* The limiter's budgets hold from step to step.
LEMMA BudgetInvNext == PhaseInv /\ BudgetInv /\ [Next]_vars => BudgetInv'
<1> SUFFICES ASSUME PhaseInv, BudgetInv, [Next]_vars PROVE BudgetInv'
  OBVIOUS
<1>0. /\ TypeOK /\ TypeOK' /\ AttemptsStand
      /\ \A x \in Requests : pc'[x] = "limit" => IsLimited(offer'[x][2])
  BY TypeNext, StepLeavesAttempts, LimitedPathsNext DEF PhaseInv
<1>a. ASSUME \A k \in RateKeys : /\ \A x \in Attempts(k)' : CountsFor(x, k)'
                                /\ Cardinality(LetThrough(k))' <= LimitOf(k)
      PROVE  BudgetInv'
  BY <1>a, <1>0 DEF BudgetInv, LimitOf
<1>1. ASSUME NEW r \in Requests, Receive(r) PROVE BudgetInv'
  <2>1. UNCHANGED window
    BY <1>1 DEF Receive
  <2> QED
    BY <2>1, BudgetKept
<1>2. ASSUME NEW r \in Requests, CheckLimit(r) PROVE BudgetInv'
  <2> DEFINE route == Match(offer[r][2])
             key == RateKey(route, user[r])
  <2>1. /\ pc[r] = "limit" /\ UNCHANGED <<offer, presented, user>>
        /\ window' = [window EXCEPT ![key] = Append(@, r)]
        /\ \/ Len(window[key]) < route.limit
           \/ Answer(r, "limited")
        /\ pc'[r] \in {"forward", "answer"}
    BY <1>2, <1>0 DEF CheckLimit, requestVars, Goto, Answer, TypeOK
  <2>2. presented[r] = NoToken /\ route.limit = LimitOf(key)
    BY <2>1, CheckLimitCounts
  <2>3. CountsFor(r, key)' /\ key' = key
    BY <2>1, <2>2 DEF CountsFor
  <2> HIDE DEF route, key
  <2> SUFFICES ASSUME NEW k \in RateKeys
               PROVE  /\ \A x \in Attempts(k)' : CountsFor(x, k)'
                      /\ Cardinality(LetThrough(k))' <= LimitOf(k)
    BY <1>a
  <2>4. CASE k # key
    <3>1. Attempts(k)' = Attempts(k)
      BY <1>0, <2>1, <2>4, AttemptAdded
    <3> QED
      BY <1>0, <3>1, WindowKept
  <2>5. CASE k = key
    <3>0. CountsFor(r, k)'
      BY <2>3, <2>5
    <3>1. Attempts(k)' = Attempts(k) \cup {r} /\ Len(window'[k]) = Len(window[k]) + 1
      BY <1>0, <2>1, <2>5, AttemptAdded
    <3>2. \A x \in Attempts(k) : x \in Requests /\ CountsFor(x, k)
      BY <1>0, WindowsAreFinite DEF BudgetInv
    <3>3. \A x \in Attempts(k)' : CountsFor(x, k)'
      <4>1. \A x \in Attempts(k) : CountsFor(x, k)'
        BY <1>0, <3>2 DEF AttemptsStand, CountsFor
      <4> QED
        BY <3>1, <4>1, <3>0
    <3>4. CASE Len(window[key]) < route.limit
      <4>1. /\ Cardinality(LetThrough(k))' <= Len(window'[k])
            /\ Cardinality(LetThrough(k))' \in Nat /\ Len(window[k]) \in Nat
        BY <1>0, AdmittedAreFew
      <4>2. LimitOf(k) \in Nat /\ Len(window[k]) < LimitOf(k)
        BY <2>2, <2>5, <3>4, Bounds DEF LimitOf
      <4>3. Cardinality(LetThrough(k))' <= LimitOf(k)
        BY <4>1, <4>2, <3>1
      <4> QED
        BY <4>3, <3>3
    <3>5. CASE Answer(r, "limited")
      <4>1. status'[r] \in Refusals
        BY <3>5, <1>0 DEF Answer, TypeOK, Refusals
      <4> QED
        BY <1>0, <3>0, <3>1, <4>1, RefusedAdded
    <3> QED
      BY <2>1, <3>4, <3>5
  <2> QED
    BY <2>4, <2>5
<1>3. ASSUME NEW r \in Requests, Forward(r) PROVE BudgetInv'
  <2>1. UNCHANGED window
    BY <1>3 DEF Forward
  <2> QED
    BY <2>1, BudgetKept
<1>4. ASSUME NEW r \in Requests, Commit(r) PROVE BudgetInv'
  <2>1. UNCHANGED window
    BY <1>4 DEF Commit
  <2> QED
    BY <2>1, BudgetKept
<1>12. ASSUME NEW r \in Requests, CommitFails(r) PROVE BudgetInv'
  <2>1. UNCHANGED window
    BY <1>12 DEF CommitFails
  <2> QED
    BY <2>1, BudgetKept
<1>13. ASSUME NEW r \in Requests, Respond(r) PROVE BudgetInv'
  <2>1. UNCHANGED window
    BY <1>13 DEF Respond
  <2> QED
    BY <2>1, BudgetKept
<1>5. ASSUME NEW r \in Requests, Deliver(r) PROVE BudgetInv'
  <2>1. UNCHANGED window
    BY <1>5 DEF Deliver
  <2> QED
    BY <2>1, BudgetKept
<1>6. ASSUME NEW r \in Requests, CheckLimitFails(r) PROVE BudgetInv'
  <2> DEFINE key == RateKey(Match(offer[r][2]), user[r])
  <2>1. /\ pc[r] = "limit" /\ UNCHANGED <<offer, presented, user>>
        /\ \/ window' = window
           \/ window' = [window EXCEPT ![key] = Append(@, r)]
        /\ pc'[r] = "answer" /\ status'[r] \in Refusals
    BY <1>6, <1>0 DEF CheckLimitFails, requestVars, Goto, Answer, TypeOK, Refusals
  <2>2. presented[r] = NoToken
    BY <2>1, CheckLimitCounts
  <2>3. CountsFor(r, key)' /\ key' = key
    BY <2>1, <2>2 DEF CountsFor
  <2> HIDE DEF key
  <2>4. CASE window' = window
    BY <2>4, BudgetKept
  <2>5. CASE window' = [window EXCEPT ![key] = Append(@, r)]
    <3> SUFFICES ASSUME NEW k \in RateKeys
                 PROVE  /\ \A x \in Attempts(k)' : CountsFor(x, k)'
                        /\ Cardinality(LetThrough(k))' <= LimitOf(k)
      BY <1>a
    <3>1. CASE k # key
      <4>1. Attempts(k)' = Attempts(k)
        BY <1>0, <2>5, <3>1, AttemptAdded
      <4> QED
        BY <1>0, <4>1, WindowKept
    <3>2. CASE k = key
      <4>1. Attempts(k)' = Attempts(k) \cup {r}
        BY <1>0, <2>5, <3>2, AttemptAdded
      <4>2. CountsFor(r, k)'
        BY <2>3, <3>2
      <4> QED
        BY <1>0, <2>1, <4>1, <4>2, RefusedAdded
    <3> QED
      BY <3>1, <3>2
  <2> QED
    BY <2>1, <2>4, <2>5
<1>7. ASSUME NEW r \in Requests, ForwardFails(r) PROVE BudgetInv'
  <2>1. UNCHANGED window
    BY <1>7 DEF ForwardFails
  <2> QED
    BY <2>1, BudgetKept
<1>8. ASSUME NEW r \in Requests, AnswerLost(r) PROVE BudgetInv'
  <2>1. UNCHANGED window
    BY <1>8 DEF AnswerLost
  <2> QED
    BY <2>1, BudgetKept
<1>9. ASSUME NEW k \in RateKeys, WindowSlides(k) PROVE BudgetInv'
  <2>1. window' = [window EXCEPT ![k] = Tail(@)] /\ window[k] # <<>>
    BY <1>9 DEF WindowSlides
  <2>2. \A j \in RateKeys : Attempts(j)' \subseteq Attempts(j)
    <3> SUFFICES ASSUME NEW j \in RateKeys PROVE Attempts(j)' \subseteq Attempts(j)
      OBVIOUS
    <3>1. CASE j = k
      <4>1. window[k] \in Seq(Requests) /\ window'[k] = Tail(window[k])
        BY <1>0, <2>1 DEF TypeOK
      <4>2. \A i \in DOMAIN Tail(window[k]) :
              i + 1 \in DOMAIN window[k] /\ Tail(window[k])[i] = window[k][i + 1]
        BY <2>1, <4>1
      <4> QED
        BY <3>1, <4>1, <4>2 DEF Attempts
    <3>2. CASE j # k
      BY <1>0, <2>1, <3>2 DEF Attempts, TypeOK
    <3> QED
      BY <3>1, <3>2
  <2>3. \A j \in RateKeys : /\ \A x \in Attempts(j)' : CountsFor(x, j)'
                           /\ Cardinality(LetThrough(j))' <= LimitOf(j)
    BY <1>0, <2>2, WindowKept
  <2> QED
    BY <2>3, <1>a
<1>10. CASE AccessExpires
  <2>1. UNCHANGED window
    BY <1>10 DEF AccessExpires
  <2> QED
    BY <2>1, BudgetKept
<1>11. CASE UNCHANGED vars
  <2>1. UNCHANGED window
    BY <1>11 DEF vars
  <2> QED
    BY <2>1, BudgetKept
<1> QED
  BY <1>1, <1>2, <1>3, <1>4, <1>5, <1>6, <1>7, <1>8, <1>9, <1>10, <1>11,
     <1>12, <1>13
  DEF Next

-----------------------------------------------------------------------------
\* Requests, windows and cookies keep their types: a cookie is nothing or a token that
\* some sign-in made, even across answers that fail.
THEOREM TypeCorrect == Spec => []TypeOK
<1> DEFINE OfferType == offer \in [Requests -> Offers \cup {<<>>}]
<1>1. Init => TypeOK /\ OfferType
  BY PhaseInvInit DEF PhaseInv
<1>2. TypeOK /\ OfferType /\ [Next]_vars => TypeOK' /\ OfferType'
  BY TypeNext
<1> HIDE DEF OfferType
<1> QED
  BY <1>1, <1>2, PTL DEF Spec

\* The two cookies are of one sign-in at all times: build_cookie_auth_response and the
\* logout always treat them together.
THEOREM CookiesAreOfOneSession == Spec => []OneSession
<1>1. JarInv => OneSession
  BY DEF JarInv
<1> QED
  BY <1>1, PhaseInvInit, JarInvInit, PhaseInvNext, JarInvNext, PTL DEF Spec

\* The tabs of a browser share a session that refreshes, sign-ins, logouts and lost
\* answers never leave it without, unless the answer that replaces the cookie is still
\* to come or did not arrive - or the one that set it did not wait for its commit.
THEOREM CookieStaysLive == Spec => []CookieIsLive
<1>1. Init => LiveInv
  BY DEF Init, LiveInv, CookieIsLive, NoCookies
<1>2. LiveInv => CookieIsLive
  BY DEF LiveInv
<1> QED
  BY <1>1, <1>2, PhaseInvInit, PhaseInvNext, JarInvInit, JarInvNext, LiveInvNext, PTL DEF Spec

\* However they are spread over tabs, cookies and Bearer headers, no more sign-ins, and no
\* more loan requests of an applicant, pass the limiter in one window than are allowed.
THEOREM BudgetsHold == Spec => []SharedBudgets
<1>1. Init => BudgetInv
  <2> SUFFICES ASSUME Init PROVE BudgetInv
    OBVIOUS
  <2>1. \A k \in RateKeys : Attempts(k) = {} /\ LetThrough(k) = {}
    BY DEF Init, Attempts, LetThrough
  <2>2. \A k \in RateKeys : Cardinality(LetThrough(k)) <= LimitOf(k)
    BY <2>1, FS_EmptySet, Bounds DEF LimitOf
  <2> QED
    BY <2>1, <2>2 DEF Init, BudgetInv
<1>2. PhaseInv /\ BudgetInv => SharedBudgets
  <2> SUFFICES ASSUME PhaseInv, BudgetInv PROVE SharedBudgets
    OBVIOUS
  <2>1. TypeOK /\ \A k \in RateKeys : Attempts(k) \subseteq Requests
    BY WindowsAreFinite DEF PhaseInv
  <2>2. ASSUME NEW paths, NEW u, NEW r \in WentThrough(paths, u)
        PROVE  /\ r \in Requests /\ (u # NoOne => user[r] = u)
               /\ \E k \in RateKeys : r \in LetThrough(k) /\ CountsFor(r, k)
               /\ offer[r][2] \in Seq(STRING)
               /\ \E p \in paths : IsPrefix(p, offer[r][2])
    <3>1. PICK k \in RateKeys : \E i \in DOMAIN window[k] : window[k][i] = r
      BY <2>2 DEF WentThrough
    <3>2. r \in LetThrough(k) /\ CountsFor(r, k)
      BY <2>2, <3>1 DEF WentThrough, LetThrough, Attempts, Refusals, BudgetInv
    <3>3. r \in Requests /\ offer[r] \in Offers
      BY <2>1, <2>2, <3>2 DEF WentThrough, CountsFor, TypeOK
    <3>4. offer[r][2] \in Seq(STRING)
      BY <3>3, OffersAssumption
    <3> QED
      BY <2>2, <3>1, <3>2, <3>3, <3>4 DEF WentThrough
  <2>3. ASSUME NEW r \in Requests, offer[r][2] \in Seq(STRING),
               NEW p \in {Register, Login, Loans}, IsPrefix(p, offer[r][2])
        PROVE  BudgetOf(offer[r][2])
    <3>1. p \in {route.prefix : route \in Routes}
      <4>1. /\ Route(Register, "applicant", FALSE, "auth", AuthLimit) \in Routes
            /\ Route(Login, "applicant", FALSE, "auth", AuthLimit) \in Routes
            /\ Route(Loans, "loan", TRUE, "loans", LoanLimit) \in Routes
        BY DEF Routes
      <4>2. /\ Route(Register, "applicant", FALSE, "auth", AuthLimit).prefix = Register
            /\ Route(Login, "applicant", FALSE, "auth", AuthLimit).prefix = Login
            /\ Route(Loans, "loan", TRUE, "loans", LoanLimit).prefix = Loans
        BY DEF Route
      <4>3. CASE p = Register
        BY <4>1, <4>2, <4>3
      <4>4. CASE p = Login
        BY <4>1, <4>2, <4>4
      <4>5. CASE p = Loans
        BY <4>1, <4>2, <4>5
      <4> QED
        BY <2>3, <4>3, <4>4, <4>5
    <3>2. Candidates(offer[r][2]) # {}
      BY <2>3, <3>1 DEF Candidates
    <3> QED
      BY <2>3, <3>2, BudgetOfPath, Zenon
  <2>4. WentThrough({Register, Login}, NoOne) \subseteq LetThrough(<<"auth">>)
    <3> SUFFICES ASSUME NEW r \in WentThrough({Register, Login}, NoOne)
                 PROVE  r \in LetThrough(<<"auth">>)
      OBVIOUS
    <3>1. PICK k \in RateKeys : r \in LetThrough(k) /\ CountsFor(r, k)
      BY <2>2
    <3>2. PICK p \in {Register, Login} : IsPrefix(p, offer[r][2])
      BY <2>2
    <3>3. Match(offer[r][2]).bucket = "auth"
      BY <2>2, <2>3, <3>2 DEF BudgetOf
    <3> QED
      BY <3>1, <3>3 DEF CountsFor, RateKey
  <2>5. ASSUME NEW a \in Applicants
        PROVE  WentThrough({Loans}, a) \subseteq LetThrough(<<"loans", a>>)
    <3> SUFFICES ASSUME NEW r \in WentThrough({Loans}, a)
                 PROVE  r \in LetThrough(<<"loans", a>>)
      OBVIOUS
    <3>1. PICK k \in RateKeys : r \in LetThrough(k) /\ CountsFor(r, k)
      BY <2>2
    <3>2. IsPrefix(Loans, offer[r][2]) /\ user[r] = a
      BY <2>2, NoOneAssumption
    <3>3. Match(offer[r][2]).bucket # "auth"
      BY <2>2, <2>3, <3>2 DEF BudgetOf
    <3> QED
      BY <3>1, <3>2, <3>3 DEF CountsFor, RateKey
  <2>6. <<"auth">> \in RateKeys /\ \A a \in Applicants : <<"loans", a>> \in RateKeys
    BY DEF RateKeys
  <2>7. \A k \in RateKeys : \A S \in SUBSET LetThrough(k) : Cardinality(S) <= LimitOf(k)
    <3> SUFFICES ASSUME NEW k \in RateKeys, NEW S \in SUBSET LetThrough(k)
                 PROVE  Cardinality(S) <= LimitOf(k)
      OBVIOUS
    <3>1. IsFiniteSet(LetThrough(k)) /\ Cardinality(LetThrough(k)) \in Nat
      BY <2>1, WindowsAreFinite
    <3>2. Cardinality(S) <= Cardinality(LetThrough(k)) /\ Cardinality(S) \in Nat
      BY <3>1, FS_Subset, FS_CardinalityType
    <3>3. Cardinality(LetThrough(k)) <= LimitOf(k) /\ LimitOf(k) \in Nat
      BY Bounds DEF BudgetInv, LimitOf
    <3> QED
      BY <3>1, <3>2, <3>3
  <2>8. LimitOf(<<"auth">>) = AuthLimit /\ \A a \in Applicants : LimitOf(<<"loans", a>>) = LoanLimit
    BY DEF LimitOf
  <2> QED
    BY <2>4, <2>5, <2>6, <2>7, <2>8 DEF SharedBudgets
<1> QED
  BY <1>1, <1>2, PhaseInvInit, PhaseInvNext, JarInvInit, JarInvNext, BudgetInvNext, PTL DEF Spec
=============================================================================
