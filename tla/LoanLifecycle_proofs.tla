------------------------ MODULE LoanLifecycle_proofs ------------------------
(***************************************************************************)
(* Theorems about the entity LoanApplication.  Everything rests on one     *)
(* order: each move of VALID_TRANSITIONS goes to a status of higher rank.  *)
(***************************************************************************)
EXTENDS LoanLifecycle, TLAPS

\* How far a status is from DRAFT.
Rank(s) ==
  IF s = "DRAFT" THEN 0
  ELSE IF s = "SUBMITTED" THEN 1
  ELSE IF s = "DOC_VERIFICATION" THEN 2
  ELSE IF s = "UNDERWRITING" THEN 3
  ELSE IF s = "APPROVED" THEN 4
  ELSE IF s = "DISBURSING" THEN 5
  ELSE 6

\* What an application has certainly been through when it has a status.
Behind(s) ==
  {t \in {"SUBMITTED", "DOC_VERIFICATION", "UNDERWRITING", "APPROVED"} :
     Rank(t) < Rank(s) /\ s \notin {"DOC_REJECTED", "REJECTED"}}

RankInv == \A s \in passed : Rank(s) < Rank(status)
ReasonsInv == decision_reasons => status = "REJECTED"
Inv == TypeOK /\ RankInv /\ Behind(status) \subseteq passed /\ ReasonsInv

\* A move of the table leads from a status to one of a higher rank, shown as no
\* lower a step, and never leaves a status that is over.
LEMMA Moves ==
  ASSUME NEW s, NEW t, <<s, t>> \in VALID_TRANSITIONS
  PROVE  /\ s \in LoanStatus /\ t \in LoanStatus
         /\ Rank(s) \in Nat /\ Rank(t) \in Nat /\ Rank(s) < Rank(t)
         /\ StepShown(s) <= StepShown(t)
         /\ s \notin TerminalStatuses
         /\ Behind(t) \subseteq Behind(s) \cup {s}
<1>1. \/ s = "DRAFT" /\ t = "SUBMITTED"
      \/ s = "SUBMITTED" /\ t \in {"DOC_VERIFICATION", "REJECTED"}
      \/ s = "DOC_VERIFICATION" /\ t \in {"UNDERWRITING", "DOC_REJECTED"}
      \/ s = "UNDERWRITING" /\ t \in {"APPROVED", "REJECTED"}
      \/ s = "APPROVED" /\ t = "DISBURSING"
      \/ s = "DISBURSING" /\ t \in {"DISBURSED", "DISBURSEMENT_FAILED"}
  BY DEF VALID_TRANSITIONS
<1>2. s \in LoanStatus /\ t \in LoanStatus /\ s \notin TerminalStatuses
  BY <1>1 DEF LoanStatus, TerminalStatuses
<1>3. Rank(s) \in Nat /\ Rank(t) \in Nat /\ Rank(s) < Rank(t)
  BY <1>1 DEF Rank
<1>4. StepShown(s) <= StepShown(t)
  BY <1>1 DEF StepShown
<1>5. Behind(t) \subseteq Behind(s) \cup {s}
  BY <1>1 DEF Behind, Rank
<1> QED BY <1>2, <1>3, <1>4, <1>5

\* Every method is a move of the table; only a rejection touches the reasons.
LEMMA Methods ==
  ASSUME Next
  PROVE  /\ Transition(status')
         /\ decision_reasons' # decision_reasons => status' = "REJECTED" /\ decision_reasons' = TRUE
BY DEF Next, Submit, StartDocVerification, RejectDoc, StartUnderwriting, Approve, Reject,
       StartDisbursing, CompleteDisbursement, FailDisbursement, MoveTo, Transition

LEMMA Inductive == Spec => []Inv
<1>1. Init => Inv
  <2> SUFFICES ASSUME Init PROVE Inv
    OBVIOUS
  <2>1. decision_reasons \in BOOLEAN /\ ReasonsInv
    BY ZenonT(20) DEF Init, ReasonsInv
  <2>2. status \in LoanStatus /\ passed \in SUBSET LoanStatus /\ RankInv
    BY DEF Init, LoanStatus, RankInv
  <2>3. Behind(status) \subseteq passed
    BY DEF Init, Behind, Rank
  <2> QED BY <2>1, <2>2, <2>3 DEF Inv, TypeOK
<1>2. Inv /\ [Next]_vars => Inv'
  <2> SUFFICES ASSUME Inv, [Next]_vars PROVE Inv'
    OBVIOUS
  <2>1. CASE UNCHANGED vars
    BY <2>1 DEF Inv, TypeOK, RankInv, ReasonsInv, vars
  <2>2. CASE Next
    <3>1. <<status, status'>> \in VALID_TRANSITIONS /\ passed' = passed \cup {status}
      BY <2>2, Methods DEF Transition
    <3>2. /\ status \in LoanStatus /\ status' \in LoanStatus
          /\ Rank(status) \in Nat /\ Rank(status') \in Nat /\ Rank(status) < Rank(status')
          /\ status \notin TerminalStatuses
          /\ Behind(status') \subseteq Behind(status) \cup {status}
      BY <3>1, Moves
    <3>3. \A s \in LoanStatus : Rank(s) \in Nat
      BY DEF Rank
    <3>4. TypeOK'
      BY <2>2, <3>1, <3>2, Methods DEF Inv, TypeOK
    <3>5. RankInv'
      <4> SUFFICES ASSUME NEW s \in passed' PROVE Rank(s) < Rank(status')
        BY DEF RankInv
      <4>1. s \in passed => Rank(s) \in Nat /\ Rank(s) < Rank(status)
        BY <3>3 DEF Inv, TypeOK, RankInv
      <4> QED BY <3>1, <3>2, <4>1
    <3>6. Behind(status') \subseteq passed'
      BY <3>1, <3>2 DEF Inv
    <3>7. ReasonsInv'
      <4>1. ~decision_reasons
        BY <3>2 DEF Inv, ReasonsInv, TerminalStatuses
      <4> QED BY <2>2, <4>1, Methods DEF ReasonsInv, Inv, TypeOK
    <3> QED BY <3>4, <3>5, <3>6, <3>7 DEF Inv
  <2> QED BY <2>1, <2>2
<1> QED BY <1>1, <1>2, PTL DEF Spec

\* The status is always one of the ten.
THEOREM TypeCorrect == Spec => []TypeOK
<1>1. Inv => TypeOK BY DEF Inv
<1> QED BY <1>1, Inductive, PTL

\* No status of an application recurs, so that a status names one event of it.
THEOREM NoStatusRecurs == Spec => []NoReturn
<1>1. Inv => NoReturn
  BY DEF Inv, TypeOK, RankInv, NoReturn, Rank
<1> QED BY <1>1, Inductive, PTL

\* Nothing is paid out that was not verified, rated and approved before.
THEOREM PaidOnlyIfApproved == Spec => []MoneyAfterApproval
<1>1. Inv => MoneyAfterApproval
  BY DEF Inv, MoneyAfterApproval, Behind, Rank
<1> QED BY <1>1, Inductive, PTL

\* The entity, the guard's query and the gateway agree on which applications are
\* over, and those are the ones the table has no way out of.
THEOREM AllAgreeOnTheEnd == Spec => [](OverIsOver /\ GoesOn /\ TablesAgree)
<1>1. Inv => OverIsOver
  BY DEF Inv, TypeOK, OverIsOver, ActiveStatuses, IsActive, TerminalStatuses, LoanStatus
<1>2. Inv => GoesOn
  BY DEF Inv, TypeOK, GoesOn, TerminalStatuses, VALID_TRANSITIONS, LoanStatus
<1>3. Inv => TablesAgree
  BY DEF Inv, TypeOK, TablesAgree, STATUS_PROGRESS, StepShown, LoanStatus
<1> QED BY <1>1, <1>2, <1>3, Inductive, PTL

\* What is over never changes.
THEOREM OverForGood == Spec => FinalIsFinal
<1>1. [Next]_vars => [status \notin TerminalStatuses]_vars
  BY Methods, Moves DEF Transition
<1> QED BY <1>1, PTL DEF Spec, FinalIsFinal

\* The progress bar of a client never goes back.
THEOREM ProgressIsMonotone == Spec => ProgressNeverFalls
<1>1. [Next]_vars => [StepShown(status) <= StepShown(status')]_status
  BY Methods, Moves DEF Transition, vars
<1> QED BY <1>1, PTL DEF Spec, ProgressNeverFalls

\* Whoever is given reasons has been rejected.
THEOREM ReasonsMeanRejection == Spec => []ReasonsAreForRejections
<1>1. Inv => ReasonsAreForRejections
  BY DEF Inv, ReasonsInv, ReasonsAreForRejections
<1> QED BY <1>1, Inductive, PTL
=============================================================================
