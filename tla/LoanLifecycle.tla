--------------------------- MODULE LoanLifecycle ---------------------------
(***************************************************************************)
(* The entity LoanApplication: one application and the methods that change *)
(* its status.  Every method goes through _transition, which looks the     *)
(* move up in VALID_TRANSITIONS and raises InvalidStatusTransition, before *)
(* anything is assigned, if it is not there.                               *)
(***************************************************************************)
EXTENDS LoanDomain, Naturals

VARIABLES
  status,
  decision_reasons,   \* whether there are any
  passed              \* history: the statuses it has had before

vars == <<status, decision_reasons, passed>>

TypeOK ==
  /\ status \in LoanStatus
  /\ decision_reasons \in BOOLEAN
  /\ passed \in SUBSET LoanStatus

Init == status = "DRAFT" /\ decision_reasons = FALSE /\ passed = {}

\* _transition.
Transition(new_status) ==
  /\ <<status, new_status>> \in VALID_TRANSITIONS
  /\ status' = new_status
  /\ passed' = passed \cup {status}

MoveTo(new_status) == Transition(new_status) /\ UNCHANGED decision_reasons

Submit == MoveTo("SUBMITTED")
StartDocVerification == MoveTo("DOC_VERIFICATION")
RejectDoc == MoveTo("DOC_REJECTED")
StartUnderwriting == MoveTo("UNDERWRITING")
Approve == MoveTo("APPROVED")
StartDisbursing == MoveTo("DISBURSING")
CompleteDisbursement == MoveTo("DISBURSED")
FailDisbursement == MoveTo("DISBURSEMENT_FAILED")

\* With reasons or without.
Reject == Transition("REJECTED") /\ decision_reasons' \in {decision_reasons, TRUE}

Next ==
  \/ Submit \/ StartDocVerification \/ RejectDoc \/ StartUnderwriting \/ Approve
  \/ Reject \/ StartDisbursing \/ CompleteDisbursement \/ FailDisbursement

Spec == Init /\ [][Next]_vars

-----------------------------------------------------------------------------
(***************************************************************************)
(* Properties.                                                             *)
(***************************************************************************)

\* An application never comes back to a status it has had: an event that names a
\* status names one moment of it.
NoReturn == status \notin passed

\* Money moves only for an application that was verified, rated and approved.
MoneyAfterApproval ==
  status \in {"DISBURSING", "DISBURSED", "DISBURSEMENT_FAILED"} =>
    {"SUBMITTED", "DOC_VERIFICATION", "UNDERWRITING", "APPROVED"} \subseteq passed

\* Three places say which applications are over - the entity, the query behind the
\* guard on new ones, the gateway that closes the stream - and they agree.
OverIsOver ==
  /\ status \in ActiveStatuses <=> IsActive(status)
  /\ IsActive(status) <=> status \notin TerminalStatuses

\* What is over stays as it is, and what is not over has a way on.
FinalIsFinal == [][status \notin TerminalStatuses]_vars
GoesOn == status \notin TerminalStatuses => \E s \in LoanStatus : <<status, s>> \in VALID_TRANSITIONS

\* The progress a client is shown never falls, and the two tables of steps agree.
ProgressNeverFalls == [][StepShown(status) <= StepShown(status')]_status
TablesAgree == status # "DRAFT" => STATUS_PROGRESS[status] = StepShown(status)

\* Reasons are given for a rejection only.
ReasonsAreForRejections == decision_reasons => status = "REJECTED"
=============================================================================
