------------------------- MODULE AuthSessions_proofs -------------------------
(***************************************************************************)
(* Proofs about AuthSessions, for any number of requests, any lifetime of  *)
(* a token, any bound on the failures and either order of commit and       *)
(* response.                                                               *)
(*                                                                         *)
(*   PhaseInv     TypeOK, and how far a request is tells what it has       *)
(*                written and whether it is answered: its row is stored    *)
(*                with its commit and not before, and the row it used is   *)
(*                stored and of the string it presented; this gives        *)
(*                SessionsIndependent together with RotationAtomic         *)
(*   AccountInv   of the requests that register the address, one at a time *)
(*                is past its INSERT, none once one is committed; this     *)
(*                gives RegisteredOnce                                     *)
(*   SeenInv      the exchanges of a string that were stored when a        *)
(*                request arrived used other rows than it does; with       *)
(*                RotationAtomic, this gives OneExchangePerRow             *)
(***************************************************************************)
EXTENDS AuthSessions, FiniteSetTheorems, TLAPS

RequestPhase(r) ==
  /\ pc[r] = "idle" => kind[r] = "none"
  /\ kind[r] = "none" => pc[r] = "idle" /\ used[r] = NoRow
  /\ pc[r] = "save_applicant" => kind[r] = "register"
  /\ pc[r] = "update" => used[r] # NoRow
  /\ pc[r] # "done" =>
       outcome[r] = IF pc[r] = "commit" /\ first = "respond" THEN "ok" ELSE "pending"
  /\ token[r] # "absent" => pc[r] = "done" \/ (pc[r] = "respond" /\ first = "commit")
  /\ pc[r] = "respond" /\ first = "commit" => token[r] # "absent"
  /\ outcome[r] = "ok" /\ token[r] = "absent" =>
       first = "respond" /\ (pc[r] = "commit" \/ failures > 0)
  /\ token[r] # "absent" /\ kind[r] = "refresh" => used[r] # NoRow
  /\ kind[r] = "refresh" /\ pc[r] \notin {"idle", "done"} => used[r] # NoRow
  /\ used[r] # NoRow =>
       kind[r] = "refresh" /\ token[used[r]] # "absent" /\ presented[r] = issued[used[r]]

PhaseInv == TypeOK /\ \A r \in Requests : RequestPhase(r)

AccountInv ==
  /\ \A r \in Requests :
       kind[r] = "register" /\ Open(r) => account = NoRow /\ ~EmailLocked(r)
  /\ \A r \in Stored : kind[r] = "register" => account = r

SeenInv ==
  \A r \in Requests : \A q \in seen[r] :
    token[q] # "absent" /\ (used[r] # NoRow => used[q] # used[r])

-----------------------------------------------------------------------------
\* The bounds are numbers.
LEMMA Bounds ==
  MaxRequests \in Nat /\ MaxTime \in Nat /\ Lifetime \in Nat /\ MaxFailures \in Nat
BY BoundsAssumption

\* The strings clients hold are strings that were made.
LEMMA HeldIsMade == TypeOK => Held \subseteq Strings
BY DEF TypeOK, Held

\* The service starts with empty tables.
LEMMA PhaseInvInit == Init => PhaseInv
<1> SUFFICES ASSUME Init PROVE PhaseInv
  OBVIOUS
<1>1. SecondOf(0) \in Strings /\ 0 \in 0..(MaxTime + Lifetime)
  BY Bounds DEF Strings, Times
<1>2. TypeOK
  BY <1>1, Bounds DEF Init, TypeOK, Times, Steps, Kinds, Outcomes
<1> QED
  BY <1>2 DEF Init, PhaseInv, RequestPhase

\* No step takes a variable out of its type.
LEMMA TypeNext == TypeOK /\ [Next]_vars => TypeOK'
<1> SUFFICES ASSUME TypeOK, [Next]_vars PROVE TypeOK'
  OBVIOUS
<1> USE Bounds DEF TypeOK, Steps, Kinds, Outcomes, Goto, Answer, tokenVars
<1>1. ASSUME NEW r \in Requests, Register(r) PROVE TypeOK'
  BY <1>1 DEF Register
<1>2. ASSUME NEW r \in Requests, Login(r) PROVE TypeOK'
  BY <1>2 DEF Login
<1>3. ASSUME NEW r \in Requests, Refresh(r) PROVE TypeOK'
  <2>1. PICK s \in Held :
          /\ presented' = [presented EXCEPT ![r] = s]
          /\ seen' = [seen EXCEPT ![r] = Exchanges(s)]
          /\ \/ /\ \E t \in ValidRows(s) : used' = [used EXCEPT ![r] = t]
                /\ Goto(r, "update")
                /\ UNCHANGED outcome
             \/ /\ Answer(r, "invalid")
                /\ UNCHANGED used
    BY <1>3 DEF Refresh
  <2>2. s \in Strings /\ Exchanges(s) \subseteq Requests
    BY HeldIsMade DEF Exchanges, Stored
  <2>3. used' \in [Requests -> Requests \cup {NoRow}]
    BY <2>1 DEF ValidRows
  <2>4. /\ pc' \in [Requests -> Steps] /\ outcome' \in [Requests -> Outcomes]
        /\ presented' \in [Requests -> Strings] /\ seen' \in [Requests -> SUBSET Requests]
    BY <2>1, <2>2
  <2>5. /\ kind' \in [Requests -> Kinds]
        /\ UNCHANGED <<clock, issued, expires, account, token, first, failures>>
    BY <1>3 DEF Refresh
  <2> QED
    BY <2>3, <2>4, <2>5
<1>4. ASSUME NEW r \in Requests, SaveApplicant(r) PROVE TypeOK'
  BY <1>4 DEF SaveApplicant
<1>5. ASSUME NEW r \in Requests, SaveApplicantConflict(r) PROVE TypeOK'
  BY <1>5 DEF SaveApplicantConflict
<1>6. ASSUME NEW r \in Requests, Update(r) PROVE TypeOK'
  BY <1>6 DEF Update
<1>7. ASSUME NEW r \in Requests, SaveToken(r) PROVE TypeOK'
  <2>1. clock + Lifetime \in 0..(MaxTime + Lifetime)
    BY DEF Times
  <2> QED
    BY <1>7, <2>1 DEF SaveToken
<1>8. ASSUME NEW r \in Requests, Issue(r) PROVE TypeOK'
  <2>1. SecondOf(clock) \in Strings
    BY DEF Strings
  <2> QED
    BY <1>8, <2>1 DEF Issue
<1>9. ASSUME NEW r \in Requests, Commit(r) PROVE TypeOK'
  BY <1>9 DEF Commit, ApplyTxn, Revokes
<1>10. ASSUME NEW r \in Requests, Respond(r) PROVE TypeOK'
  BY <1>10 DEF Respond
<1>11. ASSUME NEW r \in Requests, Fault(r) PROVE TypeOK'
  BY <1>11 DEF Fault, Raise
<1>12. ASSUME NEW r \in Requests, CommitUnconfirmed(r) PROVE TypeOK'
  BY <1>12 DEF CommitUnconfirmed, ApplyTxn, Revokes, Raise
<1>13. CASE Crash
  BY <1>13 DEF Crash
<1>14. CASE Tick
  BY <1>14 DEF Tick, Times
<1>15. CASE UNCHANGED vars
  BY <1>15 DEF vars
<1> QED
  BY <1>1, <1>2, <1>3, <1>4, <1>5, <1>6, <1>7, <1>8, <1>9, <1>10, <1>11, <1>12, <1>13, <1>14,
     <1>15
  DEF Next, Step

\* Tables, requests and counters keep their types: in particular only rows and strings
\* that were made are ever used.
THEOREM TypeCorrect == Spec => []TypeOK
<1>1. Init => TypeOK
  BY PhaseInvInit DEF PhaseInv
<1> QED
  BY <1>1, TypeNext, PTL DEF Spec

-----------------------------------------------------------------------------
\* A request writes its row with its commit and not before, uses only rows it found
\* valid, and the string of a row is never made anew.
LEMMA PhaseInvNext == PhaseInv /\ [Next]_vars => PhaseInv'
<1> SUFFICES ASSUME PhaseInv, [Next]_vars, NEW q \in Requests PROVE RequestPhase(q)'
  BY TypeNext DEF PhaseInv
<1>0. TypeOK /\ NoRow \notin Requests /\ \A r \in Requests : RequestPhase(r)
  BY DEF PhaseInv, NoRow, Requests
<1> USE <1>0 DEF TypeOK, RequestPhase, Steps, Kinds, Outcomes, Goto, Answer, Arrives, tokenVars
<1>1. ASSUME NEW r \in Requests, Register(r) PROVE RequestPhase(q)'
  BY <1>1 DEF Register
<1>2. ASSUME NEW r \in Requests, Login(r) PROVE RequestPhase(q)'
  BY <1>2 DEF Login
<1>3. ASSUME NEW r \in Requests, Refresh(r) PROVE RequestPhase(q)'
  <2>1. PICK s \in Held :
          /\ presented' = [presented EXCEPT ![r] = s]
          /\ \/ /\ \E t \in ValidRows(s) : used' = [used EXCEPT ![r] = t]
                /\ Goto(r, "update")
                /\ UNCHANGED outcome
             \/ /\ Answer(r, "invalid")
                /\ UNCHANGED used
    BY <1>3 DEF Refresh
  <2>2. CASE /\ \E t \in ValidRows(s) : used' = [used EXCEPT ![r] = t]
             /\ Goto(r, "update")
             /\ UNCHANGED outcome
    BY <1>3, <2>1, <2>2 DEF Refresh, ValidRows
  <2>3. CASE Answer(r, "invalid") /\ UNCHANGED used
    BY <1>3, <2>1, <2>3 DEF Refresh
  <2> QED
    BY <2>1, <2>2, <2>3
<1>4. ASSUME NEW r \in Requests, SaveApplicant(r) PROVE RequestPhase(q)'
  BY <1>4 DEF SaveApplicant
<1>5. ASSUME NEW r \in Requests, SaveApplicantConflict(r) PROVE RequestPhase(q)'
  BY <1>5 DEF SaveApplicantConflict
<1>6. ASSUME NEW r \in Requests, Update(r) PROVE RequestPhase(q)'
  BY <1>6 DEF Update
<1>7. ASSUME NEW r \in Requests, SaveToken(r) PROVE RequestPhase(q)'
  BY <1>7 DEF SaveToken
<1>8. ASSUME NEW r \in Requests, Issue(r) PROVE RequestPhase(q)'
  BY <1>8 DEF Issue
<1>9. ASSUME NEW r \in Requests, Commit(r) PROVE RequestPhase(q)'
  <2>1. /\ pc[r] = "commit" /\ token[r] = "absent" /\ kind[r] # "none" /\ used[r] # r
        /\ UNCHANGED <<kind, first, tokenVars>>
        /\ pc'[r] = (IF first = "commit" THEN "respond" ELSE "done")
        /\ outcome' = outcome /\ failures' = failures
        /\ \A x \in Requests \ {r} : pc'[x] = pc[x] /\ outcome'[x] = outcome[x]
    BY <1>9, Bounds DEF Commit, ApplyTxn, Revokes
  <2>2. \A x \in Requests :
          /\ x = r => token'[x] = "valid"
          /\ token'[x] = "absent" <=> token[x] = "absent" /\ x # r
    BY <1>9 DEF Commit, ApplyTxn, Revokes
  <2>3. used'[q] # NoRow =>
          kind'[q] = "refresh" /\ token'[used'[q]] # "absent" /\ presented'[q] = issued'[used'[q]]
    BY <2>1, <2>2
  <2>4. CASE q = r
    <3>1. /\ token'[q] = "valid" /\ kind'[q] # "none"
          /\ kind'[q] = "refresh" => used'[q] # NoRow
          /\ \/ pc'[q] = "respond" /\ first' = "commit" /\ outcome'[q] = "pending"
             \/ pc'[q] = "done"
      BY <2>1, <2>2, <2>4
    <3> HIDE <1>0
    <3> QED
      BY <2>3, <3>1
  <2>5. CASE q # r
    <3>1. /\ RequestPhase(q) /\ (token'[q] = "absent" <=> token[q] = "absent")
          /\ pc'[q] = pc[q] /\ outcome'[q] = outcome[q] /\ first' = first
          /\ kind'[q] = kind[q] /\ used'[q] = used[q] /\ failures' = failures
      BY <2>1, <2>2, <2>5
    <3> HIDE <1>0
    <3> QED
      BY <2>3, <3>1
  <2> QED
    BY <2>4, <2>5
<1>10. ASSUME NEW r \in Requests, Respond(r) PROVE RequestPhase(q)'
  BY <1>10 DEF Respond
<1>11. ASSUME NEW r \in Requests, Fault(r) PROVE RequestPhase(q)'
  BY <1>11 DEF Fault, Raise
<1>12. ASSUME NEW r \in Requests, CommitUnconfirmed(r) PROVE RequestPhase(q)'
  <2>1. /\ pc[r] = "commit" /\ token[r] = "absent" /\ kind[r] # "none" /\ used[r] # r
        /\ UNCHANGED <<kind, first, tokenVars>>
        /\ pc'[r] = "done" /\ outcome'[r] # "pending" /\ failures' > 0
        /\ \A x \in Requests \ {r} : pc'[x] = pc[x] /\ outcome'[x] = outcome[x]
    BY <1>12, Bounds DEF CommitUnconfirmed, ApplyTxn, Revokes, Raise
  <2>2. \A x \in Requests :
          /\ x = r => token'[x] = "valid"
          /\ token'[x] = "absent" <=> token[x] = "absent" /\ x # r
    BY <1>12 DEF CommitUnconfirmed, ApplyTxn, Revokes, Raise
  <2>3. used'[q] # NoRow =>
          kind'[q] = "refresh" /\ token'[used'[q]] # "absent" /\ presented'[q] = issued'[used'[q]]
    BY <2>1, <2>2
  <2>4. CASE q = r
    <3>1. /\ token'[q] = "valid" /\ kind'[q] # "none"
          /\ kind'[q] = "refresh" => used'[q] # NoRow
          /\ pc'[q] = "done"
      BY <2>1, <2>2, <2>4
    <3> HIDE <1>0
    <3> QED
      BY <2>3, <3>1
  <2>5. CASE q # r
    <3>1. /\ RequestPhase(q) /\ (token'[q] = "absent" <=> token[q] = "absent")
          /\ pc'[q] = pc[q] /\ outcome'[q] = outcome[q] /\ first' = first
          /\ kind'[q] = kind[q] /\ used'[q] = used[q] /\ failures' > 0
      BY <2>1, <2>2, <2>5
    <3> HIDE <1>0
    <3> QED
      BY <2>3, <3>1
  <2> QED
    BY <2>4, <2>5
<1>13. CASE Crash
  BY <1>13 DEF Crash
<1>14. CASE Tick
  BY <1>14 DEF Tick
<1>15. CASE UNCHANGED vars
  BY <1>15 DEF vars
<1> QED
  BY <1>1, <1>2, <1>3, <1>4, <1>5, <1>6, <1>7, <1>8, <1>9, <1>10, <1>11, <1>12, <1>13, <1>14,
     <1>15
  DEF Next, Step
-----------------------------------------------------------------------------
\* No request is past its INSERT at first.
LEMMA AccountInvInit == Init => AccountInv
BY DEF Init, AccountInv, Open, Stored

\* The unique index lets one INSERT of the address through at a time, and none behind a
\* committed one.
LEMMA AccountInvNext == PhaseInv /\ AccountInv /\ [Next]_vars => AccountInv'
<1> SUFFICES ASSUME PhaseInv, AccountInv, [Next]_vars PROVE AccountInv'
  OBVIOUS
<1>0. TypeOK /\ NoRow \notin Requests /\ \A r \in Requests : RequestPhase(r)
  BY DEF PhaseInv, NoRow, Requests
<1> USE <1>0 DEF TypeOK, RequestPhase, AccountInv, EmailLocked, Open, Stored, Goto, Answer, Arrives, tokenVars
<1>1. ASSUME NEW r \in Requests, Register(r) PROVE AccountInv'
  BY <1>1 DEF Register
<1>2. ASSUME NEW r \in Requests, Login(r) PROVE AccountInv'
  BY <1>2 DEF Login
<1>3. ASSUME NEW r \in Requests, Refresh(r) PROVE AccountInv'
  <2>1. /\ kind' = [kind EXCEPT ![r] = "refresh"] /\ UNCHANGED <<account, token, first>>
        /\ Goto(r, "update") \/ Answer(r, "invalid")
        /\ kind[r] = "none"
    BY <1>3 DEF Refresh
  <2>2. \A q \in Requests : kind'[q] = "register" => q # r /\ kind[q] = "register" /\ pc'[q] = pc[q]
    BY <2>1
  <2> QED
    BY <2>1, <2>2
<1>4. ASSUME NEW r \in Requests, SaveApplicant(r) PROVE AccountInv'
  BY <1>4 DEF SaveApplicant
<1>5. ASSUME NEW r \in Requests, SaveApplicantConflict(r) PROVE AccountInv'
  BY <1>5 DEF SaveApplicantConflict
<1>6. ASSUME NEW r \in Requests, Update(r) PROVE AccountInv'
  BY <1>6 DEF Update
<1>7. ASSUME NEW r \in Requests, SaveToken(r) PROVE AccountInv'
  BY <1>7 DEF SaveToken
<1>8. ASSUME NEW r \in Requests, Issue(r) PROVE AccountInv'
  BY <1>8 DEF Issue
<1>9. ASSUME NEW r \in Requests, Commit(r) PROVE AccountInv'
  BY <1>9 DEF Commit, ApplyTxn, Revokes
<1>10. ASSUME NEW r \in Requests, Respond(r) PROVE AccountInv'
  BY <1>10 DEF Respond
<1>11. ASSUME NEW r \in Requests, Fault(r) PROVE AccountInv'
  BY <1>11 DEF Fault, Raise
<1>12. ASSUME NEW r \in Requests, CommitUnconfirmed(r) PROVE AccountInv'
  BY <1>12 DEF CommitUnconfirmed, ApplyTxn, Revokes, Raise
<1>13. CASE Crash
  BY <1>13 DEF Crash
<1>14. CASE Tick
  BY <1>14 DEF Tick
<1>15. CASE UNCHANGED vars
  BY <1>15 DEF vars
<1> QED
  BY <1>1, <1>2, <1>3, <1>4, <1>5, <1>6, <1>7, <1>8, <1>9, <1>10, <1>11, <1>12, <1>13, <1>14,
     <1>15
  DEF Next, Step

\* Two racing registrations never both go through: the second to write waits for the
\* first, and then meets its row.
THEOREM AddressIsRegisteredOnce == Spec => []RegisteredOnce
<1>1. AccountInv => RegisteredOnce
  BY DEF AccountInv, RegisteredOnce, Stored
<1> QED
  BY <1>1, PhaseInvInit, PhaseInvNext, AccountInvInit, AccountInvNext, PTL DEF Spec

-----------------------------------------------------------------------------
\* No row is stored at first.
LEMMA RotationInit == Init => RotationAtomic
BY DEF Init, RotationAtomic, Stored

\* The commit that stores a replacement revokes the row it replaces, and nothing else
\* revokes a row.
LEMMA RotationNext == PhaseInv /\ RotationAtomic /\ [Next]_vars => RotationAtomic'
<1> SUFFICES ASSUME PhaseInv, RotationAtomic, [Next]_vars PROVE RotationAtomic'
  OBVIOUS
<1>0. TypeOK /\ NoRow \notin Requests /\ \A r \in Requests : RequestPhase(r)
  BY DEF PhaseInv, NoRow, Requests
<1> USE <1>0 DEF TypeOK, RequestPhase, RotationAtomic, Stored
<1>1. ASSUME NEW r \in Requests, Refresh(r) PROVE RotationAtomic'
  <2>1. /\ token[r] = "absent" /\ UNCHANGED token
        /\ \A q \in Requests \ {r} : used'[q] = used[q]
    BY <1>1 DEF Refresh, Arrives
  <2> QED
    BY <2>1
<1>2. ASSUME NEW r \in Requests, Commit(r) \/ CommitUnconfirmed(r) PROVE RotationAtomic'
  <2>1. /\ pc[r] = "commit" /\ token[r] = "absent" /\ used' = used
        /\ \A q \in Requests : used[q] # r
    BY <1>2 DEF Commit, CommitUnconfirmed, tokenVars
  <2>2. \A t \in Requests : token'[t] = IF t = r THEN "valid"
                                        ELSE IF t = used[r] THEN "revoked" ELSE token[t]
    BY <1>2 DEF Commit, CommitUnconfirmed, ApplyTxn, Revokes
  <2> QED
    BY <2>1, <2>2
<1>3. CASE UNCHANGED <<used, token>>
  BY <1>3
<1> QED
  BY <1>1, <1>2, <1>3
  DEF Next, Step, Register, Login, SaveApplicant, SaveApplicantConflict, Update, Issue, SaveToken,
      Respond, Fault, Crash, Tick, tokenVars, vars

\* Rotation is atomic wherever requests fail or the service dies: a token is revoked exactly
\* when its replacement is stored.
THEOREM RotationIsAtomic == Spec => []RotationAtomic
BY PhaseInvInit, PhaseInvNext, RotationInit, RotationNext, PTL DEF Spec

\* Only a refresh that presents a token's string costs that token its validity, whatever
\* the other sessions do; and a token that was handed out has its row, unless the answer
\* went ahead of a commit that is to come or that something kept from happening.
THEOREM SessionsAreIndependent == Spec => []SessionsIndependent
<1>1. PhaseInv /\ RotationAtomic => SessionsIndependent
  <2> SUFFICES ASSUME PhaseInv, RotationAtomic, NEW r \in Requests, outcome[r] = "ok"
               PROVE  /\ (\A q \in Requests : kind[q] = "refresh" => presented[q] # issued[r])
                           => token[r] # "revoked"
                      /\ token[r] = "absent" =>
                           first = "respond" /\ (pc[r] = "commit" \/ failures > 0)
    BY DEF SessionsIndependent
  <2>1. ASSUME \A q \in Requests : kind[q] = "refresh" => presented[q] # issued[r]
        PROVE  token[r] # "revoked"
    <3>1. \A q \in Requests : used[q] # r
      BY <2>1 DEF PhaseInv, RequestPhase, NoRow, Requests
    <3> QED
      BY <3>1 DEF RotationAtomic, Stored
  <2>2. token[r] = "absent" => first = "respond" /\ (pc[r] = "commit" \/ failures > 0)
    BY DEF PhaseInv, RequestPhase
  <2> QED
    BY <2>1, <2>2
<1> QED
  BY <1>1, PhaseInvInit, PhaseInvNext, RotationInit, RotationNext, PTL DEF Spec

-----------------------------------------------------------------------------
\* Nothing was exchanged before the first request.
LEMMA SeenInvInit == Init => SeenInv
BY DEF Init, SeenInv

\* A refresh takes a row that no stored exchange has used: those revoked theirs.
LEMMA SeenInvNext == PhaseInv /\ RotationAtomic /\ SeenInv /\ [Next]_vars => SeenInv'
<1> SUFFICES ASSUME PhaseInv, RotationAtomic, SeenInv, [Next]_vars,
                    NEW p \in Requests, NEW q \in seen'[p]
             PROVE  token'[q] # "absent" /\ (used'[p] # NoRow => used'[q] # used'[p])
  BY DEF SeenInv
<1>0. TypeOK /\ NoRow \notin Requests /\ \A r \in Requests : RequestPhase(r)
  BY DEF PhaseInv, NoRow, Requests
<1> USE <1>0 DEF TypeOK, RequestPhase, SeenInv, RotationAtomic, Stored
<1>1. ASSUME NEW r \in Requests, Refresh(r)
      PROVE  token'[q] # "absent" /\ (used'[p] # NoRow => used'[q] # used'[p])
  <2>1. /\ token' = token /\ token[r] = "absent" /\ used[r] = NoRow
        /\ \A x \in Requests \ {r} : used'[x] = used[x] /\ seen'[x] = seen[x]
        /\ seen'[r] \subseteq Stored
        /\ used'[r] = NoRow \/ (used'[r] \in Requests /\ token[used'[r]] = "valid")
    BY <1>1 DEF Refresh, Arrives, Exchanges, ValidRows
  <2>2. CASE p = r
    <3>1. q \in Stored /\ q # r
      BY <2>1, <2>2
    <3>2. ASSUME used'[r] # NoRow PROVE used[q] # used'[r]
      BY <2>1, <3>1, <3>2
    <3> QED
      BY <2>1, <2>2, <3>1, <3>2
  <2>3. CASE p # r
    BY <2>1, <2>3
  <2> QED
    BY <2>2, <2>3
<1>2. ASSUME NEW r \in Requests, Commit(r) \/ CommitUnconfirmed(r)
      PROVE  token'[q] # "absent" /\ (used'[p] # NoRow => used'[q] # used'[p])
  BY <1>2 DEF Commit, CommitUnconfirmed, ApplyTxn, tokenVars
<1>3. CASE UNCHANGED <<used, token, seen>>
  BY <1>3
<1> QED
  BY <1>1, <1>2, <1>3
  DEF Next, Step, Register, Login, SaveApplicant, SaveApplicantConflict, Update, Issue, SaveToken,
      Respond, Fault, Crash, Tick, tokenVars, vars

\* However refreshes interleave, fail or go unanswered, a string is exchanged no more
\* often than rows bear it, but for exchanges that overlap: those that came one after
\* the other used different rows.
THEOREM StringsAreExchangedOnce == Spec => []OneExchangePerRow
<1>1. PhaseInv /\ SeenInv => OneExchangePerRow
  <2> SUFFICES ASSUME PhaseInv, SeenInv, NEW s \in Strings, NEW S \in SUBSET Exchanges(s),
                      OneAfterTheOther(S)
               PROVE  Cardinality(S) <= Cardinality({t \in Stored : issued[t] = s})
    BY DEF OneExchangePerRow
  <2> DEFINE Bearers == {t \in Stored : issued[t] = s}
  <2>0. NoRow \notin Requests /\ \A r \in Requests : RequestPhase(r)
    BY DEF PhaseInv, NoRow, Requests
  <2>1. \A r \in S : /\ r \in Requests /\ token[r] # "absent" /\ kind[r] = "refresh"
                    /\ presented[r] = s
    BY DEF Exchanges, Stored
  <2>2. \A r \in S : used[r] # NoRow /\ used[r] \in Requests
    BY <2>0, <2>1 DEF RequestPhase, PhaseInv, TypeOK
  <2>3. \A r \in S : used[r] \in Bearers
    BY <2>0, <2>1, <2>2 DEF RequestPhase, Stored
  <2>4. \A r, q \in S : used[r] = used[q] => r = q
    BY <2>1, <2>2 DEF OneAfterTheOther, SeenInv
  <2>5. IsFiniteSet(Requests)
    BY Bounds, FS_Interval DEF Requests
  <2>6. IsFiniteSet(Bearers)
    BY <2>5, FS_Subset DEF Stored
  <2> HIDE DEF Bearers
  <2>7. [r \in S |-> used[r]] \in Injection(S, Bearers)
    BY <2>3, <2>4 DEF Injection, IsInjective
  <2>8. Cardinality(S) <= Cardinality(Bearers)
    BY <2>6, <2>7, FS_Injection
  <2> QED
    BY <2>8 DEF Bearers
<1> QED
  BY <1>1, PhaseInvInit, PhaseInvNext, RotationInit, RotationNext, SeenInvInit, SeenInvNext, PTL
  DEF Spec
=============================================================================
