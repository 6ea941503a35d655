----------------------------- MODULE HaltMachine -----------------------------
(***************************************************************************)
(* The halt state machine (packages/core/src/risk/halt.ts): the faults a   *)
(* picture of the sleeve shows, the least state they demand, and the state *)
(* that follows from the current one, the faults and an owner's re-arm.    *)
(***************************************************************************)
EXTENDS Integers

CONSTANTS Percent,       \* the whole a threshold is a part of
          HoldDrawdown,  \* drawdown that holds everything
          HaltDrawdown,  \* drawdown that halts new risk
          DailyLoss      \* loss of a session that halts new risk

ASSUME ThresholdAssumption ==
  /\ Percent \in Nat \ {0}
  /\ HoldDrawdown \in 0..Percent /\ HaltDrawdown \in 0..Percent /\ DailyLoss \in 0..Percent

FaultStates == {"NORMAL", "HALT_NEW_RISK", "HOLD_ONLY"}

Flatten == "EMERGENCY_FLATTEN_AUTHORIZED"

RiskStates == FaultStates \cup {Flatten}

FaultRank(s) == IF s = "NORMAL" THEN 0 ELSE IF s = "HALT_NEW_RISK" THEN 1 ELSE 2

FromRank(r) == IF r <= 0 THEN "NORMAL" ELSE IF r = 1 THEN "HALT_NEW_RISK" ELSE "HOLD_ONLY"

MoreRestrictive(a, b) == IF FaultRank(a) >= FaultRank(b) THEN a ELSE b

Greater(a, b) == IF a > b THEN a ELSE b

(* A loss from high to nav of at least part Percent of high.               *)
LossAtLeast(high, nav, part) == (high - nav) * Percent >= part * high

HoldSignals ==
  {"UNKNOWN_BROKER_STATE", "RECONCILIATION_UNRESOLVED", "UNCERTAIN_ORDER_STATE",
   "CORE_GATEWAY_DISAGREE", "CRITICAL_INCIDENT"}

HaltSignals ==
  {"STALE_INPUT", "AUTHORIZATION_EXPIRED", "UNAPPROVED_VERSION_CHANGE", "HIGH_INCIDENT"}

(* A portfolio is [known, nav, hwm, start]; the signals are those raised.  *)
PortfolioFaults(pf) ==
  IF ~pf.known THEN {"UNKNOWN_STATE"}
  ELSE (IF pf.hwm <= 0 THEN {"UNKNOWN_HIGH_WATER_MARK"}
        ELSE IF LossAtLeast(pf.hwm, pf.nav, HoldDrawdown) THEN {"DRAWDOWN_HOLD_ONLY"}
        ELSE IF LossAtLeast(pf.hwm, pf.nav, HaltDrawdown) THEN {"DRAWDOWN_HALT_NEW_RISK"}
        ELSE {})
       \cup
       (IF pf.start <= 0 THEN {"UNKNOWN_SESSION_START_NAV"}
        ELSE IF LossAtLeast(pf.start, pf.nav, DailyLoss) THEN {"DAILY_LOSS_HALT"}
        ELSE {})

CollectFaults(pf, signals) ==
  PortfolioFaults(pf) \cup (signals \cap (HoldSignals \cup HaltSignals))

Demands(fault) ==
  IF fault \in HoldSignals \cup {"DRAWDOWN_HOLD_ONLY"} THEN "HOLD_ONLY" ELSE "HALT_NEW_RISK"

FaultFloor(faults) ==
  IF \E f \in faults : Demands(f) = "HOLD_ONLY" THEN "HOLD_ONLY"
  ELSE IF faults # {} THEN "HALT_NEW_RISK" ELSE "NORMAL"

ReArmed(current, to, floor) ==
  FromRank(Greater(Greater(FaultRank(to), FaultRank(current) - 1), FaultRank(floor)))

(* to is the target of the owner's re-arm, or "none".                      *)
EvaluateHaltState(current, faults, to, flattenExpired) ==
  LET floor == FaultFloor(faults)
  IN IF current = Flatten
       THEN IF flattenExpired THEN MoreRestrictive("HALT_NEW_RISK", floor) ELSE Flatten
     ELSE IF to # "none" THEN ReArmed(current, to, floor)
     ELSE MoreRestrictive(current, floor)

RequiresManualReArm(state) == state # "NORMAL"

=============================================================================
