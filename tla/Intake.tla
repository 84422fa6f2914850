------------------------------- MODULE Intake -------------------------------
(***************************************************************************)
(* What POST /loans promises its clients, with none of the machinery that  *)
(* keeps the promise.  An application is stored in one step, with all its  *)
(* events and with a key nobody has used; a client is told of one          *)
(* application, once: the one its own request stores, or one that bears    *)
(* the key of the request.  It is stored when the client is told, except   *)
(* that a service that answers before it commits may tell a client of its  *)
(* own application ahead of that.                                          *)
(***************************************************************************)
CONSTANTS
  Requests,      \* requests, and the applications they may store
  Applicants, Keys,
  NoApplicant, NoKey, NoLoan,
  EventTypes     \* the events of an application

VARIABLES
  applicant, key,   \* who asks, and with which key
  stored,           \* the applications stored
  events,           \* the events stored
  told,             \* the application each client was told of
  first             \* what comes first, the commit or the response; never changes

intakeVars == <<applicant, key, stored, events, told, first>>

IntakeInit ==
  /\ applicant = [r \in Requests |-> NoApplicant]
  /\ key = [r \in Requests |-> NoKey]
  /\ stored = {} /\ events = {}
  /\ told = [r \in Requests |-> NoLoan]
  /\ first \in {"commit", "respond"}

Ask(r) ==
  /\ applicant[r] = NoApplicant
  /\ \E a \in Applicants : applicant' = [applicant EXCEPT ![r] = a]
  /\ \E k \in Keys \cup {NoKey} : key' = [key EXCEPT ![r] = k]
  /\ UNCHANGED <<stored, events, told, first>>

SameKey(r, l) == key[r] # NoKey /\ key[l] = key[r]

StoreNew(r) ==
  /\ applicant[r] # NoApplicant
  /\ r \notin stored
  /\ \A l \in stored : ~SameKey(r, l)
  /\ stored' = stored \cup {r}
  /\ events' = events \cup ({r} \X EventTypes)
  /\ UNCHANGED <<applicant, key, told, first>>

Tell(r, l) ==
  /\ told[r] = NoLoan
  /\ l = r \/ SameKey(r, l)
  /\ l \in stored \/ (l = r /\ first = "respond")
  /\ told' = [told EXCEPT ![r] = l]
  /\ UNCHANGED <<applicant, key, stored, events, first>>

IntakeNext ==
  \E r \in Requests : Ask(r) \/ StoreNew(r) \/ \E l \in Requests : Tell(r, l)

IntakeSpec == IntakeInit /\ [][IntakeNext]_intakeVars
=============================================================================
