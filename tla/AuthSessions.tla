---------------------------- MODULE AuthSessions ----------------------------
(***************************************************************************)
(* Registration, login and refresh-token rotation of the applicant         *)
(* service, for one e-mail address: concurrent requests, each in the       *)
(* transaction its get_session opens, against the tables applicants and    *)
(* refresh_tokens.                                                         *)
(*                                                                         *)
(* A refresh token is a JWT whose claims are the applicant, the type and   *)
(* two times in whole seconds, signed deterministically (RS256): two       *)
(* tokens of one applicant are the same string exactly when they were made *)
(* in the same second.  A token string is therefore represented by that    *)
(* second.  The table keeps a salted hash per row, so the row for a string *)
(* is found by verifying the string against every row that is still valid. *)
(* The row has an expiry of its own, from a finer reading of the clock,    *)
(* taken when the string has been hashed.                                  *)
(* The row a request inserts is identified with the request.  Requests are *)
(* numbered in the order they arrive.                                      *)
(*                                                                         *)
(* What follows the yield of get_session, the commit, runs before the      *)
(* response is sent or after it, as the installed FastAPI has it (before   *)
(* version 0.118, or from it on; the service asks for 0.115 or any later). *)
(***************************************************************************)
EXTENDS Naturals, FiniteSets

CONSTANTS
  MaxRequests,
  PerSecond,    \* readings of the clock that fall into one second
  MaxTime,      \* readings by which the clock advances
  Lifetime,     \* REFRESH_TOKEN_EXPIRE_DAYS, in readings
  MaxFailures   \* statements or commits that raise, and crashes of the service

ASSUME BoundsAssumption == {MaxRequests, MaxTime, Lifetime, MaxFailures} \subseteq Nat
ASSUME PerSecondAssumption == PerSecond \in Nat \ {0}

Requests == 1..MaxRequests
NoRow == 0     \* no refresh-token row
Times == 0..MaxTime
SecondOf(time) == time \div PerSecond
Strings == {SecondOf(time) : time \in Times}
Kinds == {"none", "register", "login", "refresh"}
Steps == {"idle", "save_applicant", "update", "issue", "save_token", "commit",
          "respond", "done"}
Outcomes == {"pending", "ok", "already_registered", "invalid", "error", "lost"}

VARIABLES
  clock,      \* the service's clock
  pc, kind,   \* where a request is, and its endpoint
  presented,  \* the token string a refresh presents
  used,       \* the row it matched
  issued,     \* the string of the token a request made
  expires,    \* expires_at of its row
  account,    \* the committed registration, or NoRow
  token,      \* refresh_tokens: "absent", "valid" or "revoked", committed
  outcome,
  seen,       \* history: what had exchanged the presented string on arrival
  first,      \* what comes first, the commit or the response; never changes
  failures

vars == <<clock, pc, kind, presented, used, issued, expires, account, token, outcome,
          seen, first, failures>>
tokenVars == <<presented, used, issued, expires, seen>>

TypeOK ==
  /\ clock \in Times
  /\ pc \in [Requests -> Steps]
  /\ kind \in [Requests -> Kinds]
  /\ presented \in [Requests -> Strings]
  /\ used \in [Requests -> Requests \cup {NoRow}]
  /\ issued \in [Requests -> Strings]
  /\ expires \in [Requests -> 0..(MaxTime + Lifetime)]
  /\ account \in Requests \cup {NoRow}
  /\ token \in [Requests -> {"absent", "valid", "revoked"}]
  /\ outcome \in [Requests -> Outcomes]
  /\ seen \in [Requests -> SUBSET Requests]
  /\ first \in {"commit", "respond"}
  /\ failures \in 0..MaxFailures

Init ==
  /\ clock = 0
  /\ pc = [r \in Requests |-> "idle"]
  /\ kind = [r \in Requests |-> "none"]
  /\ presented = [r \in Requests |-> SecondOf(0)]
  /\ used = [r \in Requests |-> NoRow]
  /\ issued = [r \in Requests |-> SecondOf(0)]
  /\ expires = [r \in Requests |-> 0]
  /\ account = NoRow
  /\ token = [r \in Requests |-> "absent"]
  /\ outcome = [r \in Requests |-> "pending"]
  /\ seen = [r \in Requests |-> {}]
  /\ first \in {"commit", "respond"}
  /\ failures = 0

-----------------------------------------------------------------------------
Goto(r, step) == pc' = [pc EXCEPT ![r] = step]
Answer(r, result) == Goto(r, "done") /\ outcome' = [outcome EXCEPT ![r] = result]

Arrives(r) == pc[r] = "idle" /\ \A q \in 1..(r - 1) : pc[q] # "idle"

\* The requests whose rows are in the table.
Stored == {r \in Requests : token[r] # "absent"}

\* The strings clients hold: those of successful answers.
Held == {issued[r] : r \in {q \in Requests : outcome[q] = "ok"}}

\* The refreshes that have exchanged a string.
Exchanges(s) == {r \in Stored : kind[r] = "refresh" /\ presented[r] = s}

\* Faulty: revoked rows are read too.
ValidRows_All(s) == {t \in Stored : issued[t] = s /\ clock < expires[t]}

\* get_all_valid, verified against the string.
ValidRows(s) == {t \in Requests : token[t] = "valid" /\ issued[t] = s /\ clock < expires[t]}

\* The transaction has made its first writes and is open.
Open(r) ==
  \/ pc[r] \in {"issue", "save_token", "commit"}
  \/ pc[r] = "respond" /\ first = "respond"

\* Faulty: the e-mail column is not unique.
EmailLocked_NotUnique(r) == FALSE

\* An open transaction has inserted the applicant.
EmailLocked(r) == \E q \in Requests \ {r} : kind[q] = "register" /\ Open(q)

\* Faulty: the row stays locked after the commit.
RowLocked_Leaked(r) ==
  \E q \in Requests \ {r} : used[q] = used[r] /\ (Open(q) \/ pc[q] \in {"respond", "done"})

\* An open transaction has updated the row.
RowLocked(r) == \E q \in Requests \ {r} : used[q] = used[r] /\ Open(q)

-----------------------------------------------------------------------------
\* exists_by_email.
Register(r) ==
  /\ Arrives(r)
  /\ kind' = [kind EXCEPT ![r] = "register"]
  /\ \/ account = NoRow /\ Goto(r, "save_applicant") /\ UNCHANGED outcome
     \/ account # NoRow /\ Answer(r, "already_registered")
  /\ UNCHANGED <<clock, account, token, first, tokenVars, failures>>

\* INSERT INTO applicants; e-mail is unique.
SaveApplicant(r) ==
  /\ pc[r] = "save_applicant"
  /\ ~EmailLocked(r)
  /\ account = NoRow
  /\ Goto(r, "issue")
  /\ UNCHANGED <<clock, kind, account, token, outcome, first, tokenVars, failures>>

SaveApplicantConflict(r) ==
  /\ pc[r] = "save_applicant"
  /\ ~EmailLocked(r)
  /\ account # NoRow
  /\ Answer(r, "error")
  /\ UNCHANGED <<clock, kind, account, token, first, tokenVars, failures>>

\* Faulty: an unknown address gets an answer of its own.
Login_Reveals(r) ==
  /\ Arrives(r)
  /\ kind' = [kind EXCEPT ![r] = "login"]
  /\ \/ account # NoRow /\ Goto(r, "issue") /\ UNCHANGED outcome
     \/ account # NoRow /\ Answer(r, "invalid")
     \/ account = NoRow /\ Answer(r, "unknown_address")
  /\ UNCHANGED <<clock, account, token, first, tokenVars, failures>>

\* get_by_email, and the password verified: an unknown address and a wrong password
\* get one answer.
Login(r) ==
  /\ Arrives(r)
  /\ kind' = [kind EXCEPT ![r] = "login"]
  /\ \/ account # NoRow /\ Goto(r, "issue") /\ UNCHANGED outcome
     \/ Answer(r, "invalid")
  /\ UNCHANGED <<clock, account, token, first, tokenVars, failures>>

\* The SELECT of get_all_valid and the loop that verifies its rows; whichever row
\* of the string comes first is the one revoked.  The rows were read as valid, so
\* is_valid does not fail.
Refresh(r) ==
  /\ Arrives(r)
  /\ kind' = [kind EXCEPT ![r] = "refresh"]
  /\ \E s \in Held :
       /\ presented' = [presented EXCEPT ![r] = s]
       /\ seen' = [seen EXCEPT ![r] = Exchanges(s)]
       /\ \/ /\ \E t \in ValidRows(s) : used' = [used EXCEPT ![r] = t]
             /\ Goto(r, "update")
             /\ UNCHANGED outcome
          \/ /\ ValidRows(s) = {}
             /\ Answer(r, "invalid")
             /\ UNCHANGED used
  /\ UNCHANGED <<clock, issued, expires, account, token, first, failures>>

\* Faulty: the revocation is committed at once.
Update_AtOnce(r) ==
  /\ pc[r] = "update"
  /\ ~RowLocked(r)
  /\ token' = [token EXCEPT ![used[r]] = "revoked"]
  /\ Goto(r, "issue")
  /\ UNCHANGED <<clock, kind, account, outcome, first, tokenVars, failures>>

\* UPDATE refresh_tokens SET revoked_at = now WHERE id = ...: it waits for another
\* transaction's update of the row, and then succeeds whatever that one wrote.
\* get_by_id finds the applicant: nothing deletes one.
Update(r) ==
  /\ pc[r] = "update"
  /\ ~RowLocked(r)
  /\ Goto(r, "issue")
  /\ UNCHANGED <<clock, kind, account, token, outcome, first, tokenVars, failures>>

\* create_refresh_token.
Issue(r) ==
  /\ pc[r] = "issue"
  /\ issued' = [issued EXCEPT ![r] = SecondOf(clock)]
  /\ Goto(r, "save_token")
  /\ UNCHANGED <<clock, kind, presented, used, expires, account, token, outcome, seen, first,
                 failures>>

\* get_refresh_token_expiry, and the INSERT of the hash.
SaveToken(r) ==
  /\ pc[r] = "save_token"
  /\ expires' = [expires EXCEPT ![r] = clock + Lifetime]
  /\ Goto(r, first)
  /\ UNCHANGED <<clock, kind, presented, used, issued, account, token, outcome, seen, first,
                 failures>>

\* Faulty: a login revokes the applicant's other tokens.
Revokes_Others(r) == IF kind[r] = "login" THEN {t \in Requests : token[t] = "valid"} ELSE {used[r]}

Revokes(r) == {used[r]}

\* Everything the request wrote becomes visible.
ApplyTxn(r) ==
  /\ account' = IF kind[r] = "register" THEN r ELSE account
  /\ token' = [t \in Requests |-> IF t = r THEN "valid"
                                  ELSE IF t \in Revokes(r) THEN "revoked" ELSE token[t]]

Commit(r) ==
  /\ pc[r] = "commit"
  /\ ApplyTxn(r)
  /\ Goto(r, IF first = "commit" THEN "respond" ELSE "done")
  /\ UNCHANGED <<clock, kind, outcome, first, tokenVars, failures>>

Respond(r) ==
  /\ pc[r] = "respond"
  /\ outcome' = [outcome EXCEPT ![r] = "ok"]
  /\ Goto(r, IF first = "commit" THEN "done" ELSE "commit")
  /\ UNCHANGED <<clock, kind, account, token, first, tokenVars, failures>>

\* The error reaches the client, unless it has its answer.
Raise(r) ==
  /\ failures < MaxFailures
  /\ failures' = failures + 1
  /\ Answer(r, IF outcome[r] = "pending" THEN "error" ELSE outcome[r])

\* A statement or the commit raises: rollback.
Fault(r) ==
  /\ pc[r] \notin {"idle", "respond", "done"}
  /\ Raise(r)
  /\ UNCHANGED <<clock, kind, account, token, first, tokenVars>>

\* Postgres commits, but the connection breaks before it says so.
CommitUnconfirmed(r) ==
  /\ pc[r] = "commit"
  /\ ApplyTxn(r)
  /\ Raise(r)
  /\ UNCHANGED <<clock, kind, first, tokenVars>>

\* The service dies with all its requests.
Crash ==
  /\ failures < MaxFailures
  /\ \E r \in Requests : pc[r] \notin {"idle", "done"}
  /\ pc' = [r \in Requests |-> IF pc[r] = "idle" THEN "idle" ELSE "done"]
  /\ outcome' = [r \in Requests |-> IF pc[r] # "idle" /\ outcome[r] = "pending"
                                    THEN "lost" ELSE outcome[r]]
  /\ failures' = failures + 1
  /\ UNCHANGED <<clock, kind, account, token, first, tokenVars>>

Tick ==
  /\ clock < MaxTime
  /\ clock' = clock + 1
  /\ UNCHANGED <<pc, kind, account, token, outcome, first, tokenVars, failures>>

Step(r) ==
  \/ SaveApplicant(r) \/ SaveApplicantConflict(r)
  \/ Update(r) \/ Issue(r) \/ SaveToken(r) \/ Commit(r) \/ Respond(r)

Next ==
  \/ \E r \in Requests : Register(r) \/ Login(r) \/ Refresh(r) \/ Step(r) \/ Fault(r) \/ CommitUnconfirmed(r)
  \/ Crash \/ Tick

Fairness == \A r \in Requests : WF_vars(Step(r))

Spec == Init /\ [][Next]_vars
FairSpec == Spec /\ Fairness

-----------------------------------------------------------------------------
(***************************************************************************)
(* Properties.                                                             *)
(***************************************************************************)

\* Two racing registrations of one address never both go through, although
\* both find the address free.
RegisteredOnce ==
  \A r, q \in Stored : kind[r] = "register" /\ kind[q] = "register" => r = q

\* Rotation is atomic: a token is revoked exactly when a request that used it has
\* its replacement stored, wherever requests fail or crash.
RotationAtomic ==
  \A t \in Requests :
    token[t] = "revoked" <=> \E r \in Stored : used[r] = t

\* A string is exchanged once.  Two refreshes that overlap may both exchange it (the
\* SELECT locks nothing), and so may a second row of the same string; but of exchanges
\* that came one after the other, each arriving when the one before was stored, there
\* are no more than rows that bear the string.
OneAfterTheOther(S) == \A r, q \in S : r = q \/ r \in seen[q] \/ q \in seen[r]
OneExchangePerRow ==
  \A s \in Strings : \A S \in SUBSET Exchanges(s) :
    OneAfterTheOther(S) => Cardinality(S) <= Cardinality({t \in Stored : issued[t] = s})

\* Sessions are independent: whatever the applicant's other sessions do, a token
\* that was handed out and not presented since is not revoked.  Its row is there,
\* unless the answer precedes the commit and that one is still to come or something
\* failed.
SessionsIndependent ==
  \A r \in Requests :
    outcome[r] = "ok" =>
      /\ (\A q \in Requests : kind[q] = "refresh" => presented[q] # issued[r])
           => token[r] # "revoked"
      /\ token[r] = "absent" =>
           first = "respond" /\ (pc[r] = "commit" \/ failures > 0)

\* Waiting for another request's row or address ends: once the last request has come
\* (MaxRequests bounds them), they are all done in the end.
EveryRequestEnds == <>[](\A r \in Requests : pc[r] \in {"idle", "done"})
=============================================================================
