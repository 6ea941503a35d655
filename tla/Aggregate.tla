------------------------- MODULE Aggregate -------------------------
(***************************************************************************)
(* The verdicts of an evaluation: over its windows, and over its           *)
(* variations.                                                             *)
(***************************************************************************)
EXTENDS Ordered, Sequences

-----------------------------------------------------------------------------
(***************************************************************************)
(* The walk-forward splits pooled into one verdict (packages/core/src/     *)
(* research/aggregate.ts): the two prongs of the charter's section 16.1,   *)
(* the aggregate drawdown, the promotion conditions and what may be cited. *)
(* A prong that was not measured is Unknown, never a failure.              *)
(***************************************************************************)

CONSTANTS Interval(_, _),   \* the bootstrap: [point, lower, upper] of two paired series
          SessionsPerMonth,
          One               \* the level one, in the units of levels and returns

ASSUME UnitsAssumption == One \in Nat \ {0} /\ SessionsPerMonth \in Nat \ {0}

Unknown == "unknown"
Withheld == -1000000
AsVerdict(holds) == IF holds THEN "yes" ELSE "no"

(* A split's contribution is [id, kind, sessions, strategy, benchmark,     *)
(* candidateReturn, secondary2, candidateIndex, primaryIndex, primaryGaps, *)
(* navGaps, citable, blocking]; secondary2 is Withheld when it is not exact.*)
ScopeError(splits, planned) ==
  \/ \E i \in DOMAIN splits : splits[i].kind # "WALK_FORWARD" \/ splits[i].id \notin ToSet(planned)
  \/ \E i, j \in DOMAIN splits :
       i # j /\ ToSet(splits[i].sessions) \cap ToSet(splits[j].sessions) # {}

(* A split that scored no session comes after those that did.              *)
Precedes(a, b) ==
  \/ a.sessions # <<>> /\ b.sessions = <<>>
  \/ a.sessions = <<>> /\ b.sessions = <<>> /\ a.id[1] < b.id[1]
  \/ /\ a.sessions # <<>> /\ b.sessions # <<>>
     /\ a.sessions[1] < b.sessions[1] \/ (a.sessions[1] = b.sessions[1] /\ a.id[1] < b.id[1])

(* Splits that neither precedes stay as they came.                         *)
Ordered(splits) ==
  LET places == (DOMAIN splits) \X (DOMAIN splits)
      order == Ranked(DOMAIN splits, {p \in places : \/ Precedes(splits[p[1]], splits[p[2]])
                                                     \/ ~Precedes(splits[p[2]], splits[p[1]]) /\ p[1] < p[2]})
  IN [n \in DOMAIN splits |-> splits[order[n]]]

Pooled(ordered, field) == FlattenSeq([i \in DOMAIN ordered |-> ordered[i][field]])

Complete(ordered, planned) ==
  planned # <<>> /\ ToSet(planned) \subseteq {ordered[i].id : i \in DOMAIN ordered}

(* The first prong: withheld on a gapped split, and on a pass, for the     *)
(* registered deflation is not applied.                                    *)
PrimaryMetric(c, ordered) ==
  LET strategy == Pooled(ordered, "strategy")
      i == Interval(strategy, Pooled(ordered, "benchmark"))
      clears == i.point >= c.threshold /\ (i.lower > 0 \/ i.upper < 0)
      gapped == \E k \in DOMAIN ordered : ordered[k].navGaps # {}
  IN IF Len(strategy) < 2 \/ gapped \/ clears THEN Unknown ELSE "no"

LinkTotalReturns(returns) ==
  FoldSeq(LAMBDA r, growth : (growth * (One + r)) \div One, One, returns) - One

(* Slip: the splits that have the comparator stand for all of them.        *)
Secondary2WhereBuilt(ordered) ==
  LET built == SelectSeq(ordered, LAMBDA s : s.secondary2 # Withheld)
  IN IF built = <<>> THEN Unknown
     ELSE AsVerdict(LinkTotalReturns([i \in DOMAIN built |-> built[i].candidateReturn])
                     > LinkTotalReturns([i \in DOMAIN built |-> built[i].secondary2]))

(* The second prong, over every split or not at all.                       *)
Secondary2(ordered) ==
  IF ordered = <<>> \/ \E i \in DOMAIN ordered : ordered[i].secondary2 = Withheld \/ ordered[i].navGaps # {}
    THEN Unknown
  ELSE AsVerdict(LinkTotalReturns([i \in DOMAIN ordered |-> ordered[i].candidateReturn])
                  > LinkTotalReturns([i \in DOMAIN ordered |-> ordered[i].secondary2]))

(* Each window is scaled to start where the one before ended.              *)
ChainLinkLevels(perSplit) ==
  LET Link(levels, acc) ==
        IF levels = <<>> THEN acc
        ELSE LET carry == IF acc = <<>> THEN One ELSE Last(acc)
             IN acc \o [i \in DOMAIN levels |-> (levels[i] * carry) \div levels[1]]
  IN FoldLeft(LAMBDA acc, levels : Link(levels, acc), <<>>, perSplit)

(* The deepest fall from a peak, as a share of it in units of One.         *)
DrawdownOf(curve) ==
  LET falls == {((curve[p[1]] - curve[p[2]]) * One) \div curve[p[1]] :
                  p \in {q \in (DOMAIN curve) \X (DOMAIN curve) : q[1] <= q[2] /\ curve[q[1]] > 0}}
  IN IF falls = {} THEN 0 ELSE CHOOSE f \in falls : \A g \in falls : f >= g

Drawdown(c, ordered) ==
  LET candidate == [i \in DOMAIN ordered |-> ordered[i].candidateIndex]
      primary == [i \in DOMAIN ordered |-> ordered[i].primaryIndex]
      unlinkable(levels) == levels # <<>> /\ levels[1] <= 0
      withheld == \E i \in DOMAIN ordered :
                    \/ candidate[i] = <<>> \/ primary[i] = <<>>
                    \/ unlinkable(candidate[i]) \/ unlinkable(primary[i])
                    \/ ordered[i].navGaps # {} \/ ordered[i].primaryGaps # {}
  IN IF ordered = <<>> \/ withheld THEN Unknown
     ELSE AsVerdict(DrawdownOf(ChainLinkLevels(candidate)) * 10
                     <= DrawdownOf(ChainLinkLevels(primary)) * c.drawdownRatio)

Verdict(c, complete, primary, second) ==
  IF ~complete THEN "UNMEASURED"
  ELSE IF primary = "yes" \/ second = "yes" THEN "OWNER_REVIEW"
  ELSE IF primary = "no" /\ second = "no" THEN "REJECT"
  ELSE "UNMEASURED"

(* Sections 16.1 and 17 disagree unless the charter resolves the case.     *)
CharterConflict(c, complete, primary, second) ==
  complete /\ primary = "no" /\ second = "yes" /\ ~c.mixedResolved

Promotion(c, complete, primary, drawdown) ==
  LET conditions == {primary} \cup (IF c.coGates THEN {drawdown} ELSE {})
  IN IF ~complete THEN Unknown
     ELSE IF "no" \in conditions THEN "no"
     ELSE IF conditions = {"yes"} THEN "yes" ELSE Unknown

AggregateWalkForward(c, splits, planned) ==
  LET Report(ordered, sessions, complete, primary, second, drawdown) ==
        [err |-> ScopeError(splits, planned),
         splitIds |-> [i \in DOMAIN ordered |-> ordered[i].id],
         complete |-> complete, primary |-> primary, secondary2 |-> second, drawdown |-> drawdown,
         sessions |-> sessions, minimumMet |-> sessions \div SessionsPerMonth >= c.minimumDecisions,
         verdict |-> Verdict(c, complete, primary, second),
         conflict |-> CharterConflict(c, complete, primary, second),
         promotion |-> Promotion(c, complete, primary, drawdown),
         citable |-> complete /\ ordered # <<>> /\ \A i \in DOMAIN ordered : ordered[i].citable,
         blocking |-> UNION {ordered[i].blocking : i \in DOMAIN ordered}]
      Judge(ordered) ==
        Report(ordered, Len(Pooled(ordered, "sessions")), Complete(ordered, planned),
               PrimaryMetric(c, ordered), Secondary2(ordered), Drawdown(c, ordered))
  IN Judge(Ordered(splits))

-----------------------------------------------------------------------------
(***************************************************************************)
(* The robustness harness (packages/core/src/research/robustness.ts): the  *)
(* sensitivity grid of a charter, its cost, delay and missing-data tiers,  *)
(* and the verdict of its falsifiers over the metrics of a run.            *)
(***************************************************************************)

CONSTANT Grid   \* for each dimension of the grid, its declared values in order

Dims == DOMAIN Grid

ASSUME GridAssumption == Grid # <<>> /\ \A i \in Dims : Grid[i] \in Seq(Int) /\ Grid[i] # <<>>

(* Points in declaration order: the last dimension runs fastest.           *)
Weight(i) == FoldSet(LAMBDA j, n : n * Len(Grid[j]), 1, {j \in Dims : j > i})

TrialCount == FoldSet(LAMBDA j, n : n * Len(Grid[j]), 1, Dims)

GridPoint(k) == [i \in Dims |-> Grid[i][(((k - 1) \div Weight(i)) % Len(Grid[i])) + 1]]

EnumerateGrid(registered) ==
  [points |-> [k \in 1..TrialCount |-> GridPoint(k)],
   registered |-> {k \in 1..TrialCount : GridPoint(k) = registered}]

AdjacentPoints(points, k) ==
  {n \in DOMAIN points : Cardinality({i \in Dims : points[n][i] # points[k][i]}) = 1}

(* A charter's costs are [delay (by cost tier), multipliers, delays,       *)
(* missing]; multipliers in tenths.                                        *)
Tier(kind, cost, multiplier, delay, missing, bars) ==
  [kind |-> kind, cost |-> cost, multiplier |-> multiplier, delay |-> delay, missing |-> missing,
   barsPromotion |-> bars]

EnumerateTiers(costs) ==
  LET base == costs.delay["base"]
  IN {Tier("COST", t, 10, costs.delay[t], 0, costs.delay[t] = 0) : t \in {"base", "adverse", "stress"}}
     \cup {Tier("COST", "base", x, base, 0, FALSE) : x \in costs.multipliers \ {10}}
     \cup {Tier("DELAY", "base", 10, d, 0, d = 0) : d \in costs.delays \ {base}}
     \cup {Tier("MISSING_DATA", "base", 10, base, r, TRUE) : r \in costs.missing \ {0}}

SignOf(x) == IF x > 0 THEN 1 ELSE IF x < 0 THEN -1 ELSE 0

IncludesZero(lower, upper) == ~(lower > 0 /\ upper > 0) /\ ~(lower < 0 /\ upper < 0)

SignAgreement(m) == Cardinality({i \in DOMAIN m.grid : SignOf(m.grid[i]) = SignOf(m.primary)})

(* The charter's condition is met: drawdowns are sizes, ratios in tenths.  *)
Triggered(c, m, id) ==
  CASE id = "F1" -> m.primary < c.threshold \/ IncludesZero(m.lower, m.upper)
    [] id = "F2" -> m.strategyDrawdown * 10 > m.benchmarkDrawdown * c.drawdownRatio
    [] id = "F3" -> SignOf(m.adverse) # SignOf(m.primary) \/ SignOf(m.delayed) # SignOf(m.primary)
    [] id = "F4" -> SignOf(m.withoutBestYear) # SignOf(m.primary)
    [] id = "F5" -> SignAgreement(m) * 10 < c.minAgreement * Len(m.grid) \/ (m.grid = <<>> /\ c.minAgreement > 0)
    [] id = "F6" -> FALSE   \* prospective only
    [] OTHER -> TRUE        \* no predicate: fails closed

(* Section 16.1: rejected when both prongs failed, and an unmeasured prong *)
(* has not failed.                                                         *)
DecisiveRejection(c, m) ==
  LET beatsPrimary == m.primary >= c.threshold /\ ("F1" \in c.falsifiers => ~Triggered(c, m, "F1"))
  IN IF m.versusSecondary2 = "unknown" THEN "unknown"
     ELSE IF ~beatsPrimary /\ m.versusSecondary2 # "beats" THEN "yes" ELSE "no"

EvaluateFalsifiers(c, m) ==
  LET failed == {id \in c.falsifiers : Triggered(c, m, id)}
                \cup (IF m.independent < c.minimumDecisions THEN {"MINIMUM_DECISIONS"} ELSE {})
  IN [failed |-> failed, passes |-> failed = {}, decisiveRejection |-> DecisiveRejection(c, m)]

=============================================================================
