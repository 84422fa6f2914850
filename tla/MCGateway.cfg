\* Two applicants in the tabs of one browser, one lost call or answer.
CONSTANTS
  q1 = q1  q2 = q2  q3 = q3  a1 = a1  a2 = a2
  Requests = {q1, q2, q3}
  Applicants = {a1, a2}
  Offers <- MixedOffers
  AuthLimit = 2
  LoanLimit = 1
  MaxFailures = 1
  NoOne = NoOne
  NoToken = NoToken
SPECIFICATION Spec
SYMMETRY RequestSymmetry
INVARIANTS
  TypeOK
  CookieIsLive
  OneSession
  SharedBudgets
CHECK_DEADLOCK FALSE
