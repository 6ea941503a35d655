------------------------------ MODULE Construct ------------------------------
(***************************************************************************)
(* Target weights, whole shares and the rebalance band                     *)
(* (packages/core/src/strategy/construct.ts).                              *)
(*                                                                         *)
(* A weight is a number of parts of Whole, rounded down where the code     *)
(* keeps decimals; a fraction k of the whole is k parts.  The volatility   *)
(* of the capped book is an input: its estimate is statistics.             *)
(***************************************************************************)
EXTENDS Integers, Sequences, FiniteSets, FiniteSetsExt, SequencesExt

CONSTANTS Whole,      \* parts of the net asset value
          MaxWeight,  \* cap of one instrument
          MinCash,    \* least weight of cash
          MaxGross,   \* most invested
          VolTarget,  \* annual volatility target
          Band        \* parts of the value a line may drift

ASSUME WeightsAssumption ==
  /\ Whole \in Nat \ {0} /\ MaxWeight \in 1..Whole /\ MinCash \in 0..(Whole - 1)
  /\ MaxGross \in 1..Whole /\ VolTarget \in Nat \ {0} /\ Band \in Nat

SumOver(f, S) == MapThenSumSet(LAMBDA e : f[e], S)

(* One pass: the members above the cap are put at it and their excess is   *)
(* shared among the others, in proportion.                                 *)
CapPass(acc, cap) ==
  LET w == acc.weights
      over == {e \in DOMAIN w : w[e] > cap}
      excess == SumOver([e \in DOMAIN w |-> w[e] - cap], over)
      capped == acc.capped \cup over
      open == DOMAIN w \ capped
      total == SumOver(w, open)
      cut == [e \in DOMAIN w |-> IF e \in over THEN cap ELSE w[e]]
  IN IF over = {} THEN [acc EXCEPT !.done = TRUE]
     ELSE IF total = 0 THEN [weights |-> cut, capped |-> capped, done |-> TRUE]
     ELSE [weights |-> [e \in DOMAIN w |->
                          IF e \in open THEN w[e] + (excess * w[e]) \div total ELSE cut[e]],
           capped |-> capped, done |-> FALSE]

ApplyCap(weights, cap) ==
  LET Pass(acc, i) == IF acc.done THEN acc ELSE CapPass(acc, cap)
  IN FoldLeft(Pass, [weights |-> weights, capped |-> {}, done |-> FALSE],
              [i \in 1..(Cardinality(DOMAIN weights) + 1) |-> i]).weights

Sizable(selected, vols) == {e \in selected : vols[e] > 0}

(* Inverse volatilities, over a common multiple of them.                   *)
RawWeights(selected, vols) ==
  LET S == Sizable(selected, vols)
      Others(e) == MapThenFoldSet(LAMBDA a, b : a * b, 1, LAMBDA x : vols[x],
                                  LAMBDA X : CHOOSE x \in X : TRUE, S \ {e})
      total == SumOver([e \in S |-> Others(e)], S)
  IN [e \in S |-> (Whole * Others(e)) \div total]

ScaledBy(w, num, den) == [e \in DOMAIN w |-> (w[e] * num) \div den]

MaxInvested == IF Whole - MinCash < MaxGross THEN Whole - MinCash ELSE MaxGross

(* sigma is the volatility of the capped book, -1 without a covariance.    *)
ConstructTargets(selected, vols, sigma) ==
  LET Fit(w, invested) == IF invested > MaxInvested THEN ScaledBy(w, MaxInvested, invested) ELSE w
      Invest(w) == Fit(w, SumOver(w, DOMAIN w))
      Target(w) == IF sigma > VolTarget THEN ScaledBy(w, VolTarget, sigma) ELSE w
  IN Invest(Target(ApplyCap(RawWeights(selected, vols), MaxWeight)))

CashWeight(w) == Whole - SumOver(w, DOMAIN w)

-----------------------------------------------------------------------------
(* Whole shares and orders.  A price of -1 is missing.                     *)

Priced(prices, e) == e \in DOMAIN prices /\ prices[e] > 0

ShareTargets(nav, weights, prices) ==
  LET priced == {e \in DOMAIN weights : Priced(prices, e)}
  IN [targets |-> [e \in priced |-> ((nav * weights[e]) \div Whole) \div prices[e]],
      unpriced |-> DOMAIN weights \ priced]

Order(e, delta, reason) == [entity |-> e, delta |-> delta, reason |-> reason]

Distance(a, b) == IF a > b THEN a - b ELSE b - a

(* The lines that trade: entries, drifts beyond the band, and exits.       *)
RebalanceOrders(nav, targets, current, prices) ==
  LET Cur(e) == IF e \in DOMAIN current THEN current[e] ELSE 0
      moved == {e \in DOMAIN targets : targets[e] # Cur(e)}
      entries == {e \in moved : Cur(e) = 0}
      drifted == {e \in moved \ entries :
                    Distance(targets[e], Cur(e)) * prices[e] * Whole > Band * nav}
      exits == {e \in DOMAIN current \ DOMAIN targets : current[e] > 0 /\ Priced(prices, e)}
  IN {Order(e, targets[e], "ENTRY") : e \in entries}
       \cup {Order(e, targets[e] - Cur(e), "BAND_EXCEEDED") : e \in drifted}
       \cup {Order(e, -Cur(e), "EXIT") : e \in exits}

=============================================================================
