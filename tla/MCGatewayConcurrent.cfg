CONSTANTS
  Orders = {o1}
  Callers = {c1, c2}
  Nobody = Nobody
  Qty = 3
  Plans <- Troubles
  LossyCrash = TRUE
  Watchdog = TRUE
SPECIFICATION Spec
SYMMETRY CallerSymmetry
INVARIANTS
  NeverOverstates
  ProtectedIsCovered
  RejectedIsNotHeld
PROPERTIES
  ImplementsContract
