CONSTANTS
  Orders = {o1}
  Callers = {c1}
  Nobody = Nobody
  Qty = 3
  Plans <- Troubles
  LossyCrash = FALSE
  Watchdog = TRUE
SPECIFICATION Spec
INVARIANTS
  CanceledIsSettled
  FillsAccounted
