----------------------------- MODULE LoanDomain -----------------------------
(***************************************************************************)
(* The vocabulary of a credit application: its statuses, the transitions   *)
(* the domain allows, and which statuses count as "active" or "terminal".  *)
(* Pure definitions, no state.                                             *)
(*   services/loan-application/src/domain/value_objects.py                 *)
(*   services/loan-application/src/domain/entities.py (is_active)          *)
(*   services/gateway/src/api/sse.py (terminal statuses, steps)            *)
(***************************************************************************)

LoanStatus == {"DRAFT", "SUBMITTED", "DOC_VERIFICATION", "UNDERWRITING",
               "APPROVED", "DISBURSING", "DISBURSED",
               "DOC_REJECTED", "REJECTED", "DISBURSEMENT_FAILED"}

\* from_status -> to_status, as a relation.
VALID_TRANSITIONS ==
  { <<"DRAFT", "SUBMITTED">>,
    <<"SUBMITTED", "DOC_VERIFICATION">>, <<"SUBMITTED", "REJECTED">>,
    <<"DOC_VERIFICATION", "UNDERWRITING">>, <<"DOC_VERIFICATION", "DOC_REJECTED">>,
    <<"UNDERWRITING", "APPROVED">>, <<"UNDERWRITING", "REJECTED">>,
    <<"APPROVED", "DISBURSING">>,
    <<"DISBURSING", "DISBURSED">>, <<"DISBURSING", "DISBURSEMENT_FAILED">> }

\* The statuses exists_active_for_applicant selects (all but the four final ones).
ActiveStatuses ==
  LoanStatus \ {"REJECTED", "DISBURSED", "DOC_REJECTED", "DISBURSEMENT_FAILED"}

\* The statuses after which the gateway closes an event stream.
TerminalStatuses == {"DISBURSED", "DOC_REJECTED", "REJECTED", "DISBURSEMENT_FAILED"}

\* is_active of an application.
IsActive(status) ==
  status \notin {"REJECTED", "DISBURSED", "DOC_REJECTED", "DISBURSEMENT_FAILED"}

\* The step of five a status stands for: the domain's table, which has no DRAFT.
STATUS_PROGRESS ==
  [status \in LoanStatus \ {"DRAFT"} |->
     IF status = "SUBMITTED" THEN 1
     ELSE IF status \in {"DOC_VERIFICATION", "DOC_REJECTED"} THEN 2
     ELSE IF status \in {"UNDERWRITING", "REJECTED"} THEN 3
     ELSE IF status = "APPROVED" THEN 4
     ELSE 5]

\* The step the gateway puts into a frame: 1 for what its own table does not have.
StepShown(status) ==
  IF status \in {"DOC_VERIFICATION", "DOC_REJECTED"} THEN 2
  ELSE IF status \in {"UNDERWRITING", "REJECTED"} THEN 3
  ELSE IF status = "APPROVED" THEN 4
  ELSE IF status \in {"DISBURSING", "DISBURSED", "DISBURSEMENT_FAILED"} THEN 5
  ELSE 1
=============================================================================
