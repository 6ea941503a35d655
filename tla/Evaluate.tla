------------------------- MODULE Evaluate -------------------------
(***************************************************************************)
(* An evaluation: its plan, one report for each of its windows, and the    *)
(* aggregate of what they say.                                             *)
(***************************************************************************)
EXTENDS Backtest, Integers, FiniteSets, SequencesExt, FiniteSetsExt, Aggregate, Leakage

-----------------------------------------------------------------------------
(***************************************************************************)
(* The report of one backtest and its attribution (packages/core/src/      *)
(* research/report.ts, attribution.ts): the paired excess series of the    *)
(* primary metric, the metrics of an arm, the benchmarks by the name they  *)
(* may be cited under, and the split of the excess over the benchmark into *)
(* timing and selection.                                                   *)
(***************************************************************************)

CONSTANTS ReportInterval(_, _),  \* the bootstrap: [point, lower, upper] of two paired series
          MetricWindow,          \* sessions of the worst rolling return
          MonthOfSession(_)      \* the calendar month of a session

WorstRollingReturn(points) ==
  LET returns == {(points[i].tr * Level) \div points[i - MetricWindow].tr - Level :
                    i \in (MetricWindow + 1)..Len(points)}
  IN IF returns = {} THEN None ELSE CHOOSE r \in returns : \A s \in returns : r <= s

OnSessions(points, sessions) == SelectSeq(points, LAMBDA p : p.session \in sessions)

(* One session's excess over cash, of the candidate and of the benchmark,  *)
(* on steps that skip no session any of the three observed.                *)
SharpeInputSeries(candidate, primary, cash) ==
  LET shared == SessionsOf(candidate) \cap SessionsOf(primary) \cap SessionsOf(cash)
      expected == SessionsOf(candidate) \cup SessionsOf(primary) \cup SessionsOf(cash)
      kept == OnSessions(candidate, shared)
      c == SimpleReturns(kept)
      p == SimpleReturns(OnSessions(primary, shared))
      f == SimpleReturns(OnSessions(cash, shared))
      whole == SelectSeq([i \in DOMAIN c |-> i],
                         LAMBDA i : ~\E x \in expected : kept[i].session < x /\ x < kept[i + 1].session)
  IN [k \in DOMAIN whole |->
        LET i == whole[k]
        IN [session |-> c[i].session, strategy |-> c[i].value - f[i].value,
            benchmark |-> p[i].value - f[i].value]]

ArmMetrics(points) ==
  [totalReturn |-> TotalReturnOf(points), maxDrawdown |-> MaxDrawdown(points),
   worst |-> WorstRollingReturn(points), sessions |-> Len(points)]

(* Only the taxable scenario charges tax; rates are parts of Level.        *)
TaxScenarios(realized, totalReturn, rates, scenarios) ==
  [s \in scenarios |->
     LET tax == IF s = "taxable_short_long_split"
                  THEN (realized.short * rates.short + realized.long * rates.long) \div Level ELSE 0
     IN [tax |-> tax, afterTax |-> totalReturn - (tax * Level) \div InitialCash]]

(* The equity weight the arm had on a session, in parts of Level.          *)
EquityWeight(points, session) ==
  LET on == {p \in ToSet(points) : p.session = session /\ p.nav > 0}
  IN IF on = {} THEN 0
     ELSE LET p == CHOOSE x \in on : TRUE IN ((p.nav - p.cash) * Level) \div p.nav

AverageExposure(points) ==
  IF points = <<>> THEN 0
  ELSE MapThenSumSet(LAMBDA i : EquityWeight(points, points[i].session), DOMAIN points) \div Len(points)

ExposureMatched(bt) ==
  BlendSeries(bt.primary, bt.cash, [s \in CommonSessions(bt.primary, bt.cash) |-> EquityWeight(bt.points, s)])

(* Secondary 2 carries the registered name only when it was exact.         *)
ReportBenchmarks(bt) ==
  [PRIMARY_TR |-> bt.primary, EXPOSURE_MATCHED |-> ExposureMatched(bt),
   APPROX_AVERAGE_EXPOSURE |->
     BlendSeries(bt.primary, bt.cash, [s \in CommonSessions(bt.primary, bt.cash) |-> AverageExposure(bt.points)]),
   SECONDARY_2 |-> IF bt.secondary2.exact THEN bt.secondary2.points ELSE <<>>]

BuildResultReport(bt, threshold) ==
  LET Bootstrap(paired) ==
        IF Len(paired) >= 2 THEN ReportInterval([k \in DOMAIN paired |-> paired[k].strategy],
                                                [k \in DOMAIN paired |-> paired[k].benchmark])
        ELSE ReportInterval(<<0, 0>>, <<0, 0>>)
      Passes(i) == i.point >= threshold /\ (i.lower > 0 \/ i.upper < 0)
      Measured(benchmarks) == [b \in DOMAIN benchmarks |-> ArmMetrics(benchmarks[b])]
  IN [candidate |-> ArmMetrics(bt.index),
      benchmarks |-> Measured(ReportBenchmarks(bt)),
      passes |-> Passes(Bootstrap(SharpeInputSeries(bt.index, bt.primary, bt.cash))),
      versusSecondary2 |-> IF ~bt.secondary2.exact THEN None
                           ELSE TotalReturnOf(bt.index) - TotalReturnOf(bt.secondary2.points),
      decisions |-> Len(bt.decisions), labels |-> bt.labels, citable |-> bt.citable]

-----------------------------------------------------------------------------
(* Attribution.                                                            *)

ExposureAttribution(strategy, benchmark, matched) ==
  LET common == SessionsOf(strategy) \cap SessionsOf(benchmark) \cap SessionsOf(matched)
      sr == TotalReturnOf(OnSessions(strategy, common))
      br == TotalReturnOf(OnSessions(benchmark, common))
      mr == TotalReturnOf(OnSessions(matched, common))
  IN [timing |-> mr - br, selection |-> sr - mr, excess |-> sr - br,
      cross |-> (sr - br) - ((mr - br) + (sr - mr))]

(* Growth of each month, compounded from the daily returns.                *)
MonthlyReturns(points) ==
  LET returns == SimpleReturns(points)
      In(m) == SelectSeq(returns, LAMBDA r : MonthOfSession(r.session) = m)
  IN [m \in {MonthOfSession(returns[i].session) : i \in DOMAIN returns} |->
        FoldLeft(LAMBDA g, r : (g * (Level + r.value)) \div Level, Level, In(m)) - Level]

(* The regression runs only on enough months every factor covers; factors  *)
(* is a set of [month -> value].                                           *)
FactorAttribution(strategy, benchmark, factors, minimum) ==
  LET s == MonthlyReturns(strategy)
      b == MonthlyReturns(benchmark)
      usable == {m \in DOMAIN s \cap DOMAIN b : \A f \in factors : m \in DOMAIN f}
  IN [performed |-> factors # {} /\ Cardinality(usable) >= minimum,
      excess |-> [m \in usable |-> s[m] - b[m]]]

-----------------------------------------------------------------------------
(***************************************************************************)
(* The evaluation schedule of a charter (packages/core/src/research/       *)
(* walkforward.ts): design, walk-forward and recent splits, and the sealed *)
(* holdout none of them may touch.  A date is a day number; a month has    *)
(* the length MonthLength gives it.                                        *)
(***************************************************************************)

CONSTANTS MonthLength,   \* lengths of the months, from the first
          MonthsPerYear,
          MaxSplits      \* bound of a schedule

ASSUME CalendarAssumption ==
  /\ MonthLength \in Seq(Nat \ {0}) /\ MonthsPerYear \in Nat \ {0} /\ MaxSplits \in Nat

FirstDay[m \in 1..(Len(MonthLength) + 1)] ==
  IF m = 1 THEN 1 ELSE FirstDay[m - 1] + MonthLength[m - 1]

MonthOf(day) == CHOOSE m \in DOMAIN MonthLength : FirstDay[m] <= day /\ day < FirstDay[m + 1]

Smaller(a, b) == IF a < b THEN a ELSE b

(* The day of the month is clamped into the target month.                  *)
AddMonths(day, months) ==
  LET Clamped(from, m) == FirstDay[m] + Smaller(day - FirstDay[from], MonthLength[m] - 1)
  IN Clamped(MonthOf(day), MonthOf(day) + months)

(* A range is <<start, end>>, both included; w is [years, step, purge,     *)
(* embargo] in years, months and days.                                     *)
Split(kind, design, evaluation) == [kind |-> kind, design |-> design, evaluation |-> evaluation]

(* Each split designs on a window of years, leaves a gap of purge and      *)
(* embargo, and evaluates the step that follows; then the window rolls.    *)
WalkForwardSplit(range, w, start) ==
  LET Evaluated(designEnd, from) ==
        Split("WALK_FORWARD", <<start, designEnd>>, <<from, Smaller(AddMonths(from, w.step) - 1, range[2])>>)
      Designed(designEnd) == Evaluated(designEnd, designEnd + w.purge + w.embargo + 1)
  IN Designed(AddMonths(start, w.years * MonthsPerYear))

WalkForwardSplits(range, w) ==
  LET Start[i \in 0..MaxSplits] == IF i = 0 THEN range[1] ELSE AddMonths(Start[i - 1], w.step)
      Rolled(all) ==
        LET fits == {i \in DOMAIN all : all[i].evaluation[1] <= range[2]
                                        /\ \A j \in 0..(i - 1) : all[j].evaluation[2] < range[2]}
        IN [k \in 1..Cardinality(fits) |-> all[k - 1]]
  IN Rolled([i \in 0..MaxSplits |-> WalkForwardSplit(range, w, Start[i])])

DesignSplit(c) == Split("DESIGN", c.design, c.design)

RecentSplit(c) == Split("RECENT", <<>>, c.recent)

(* The window is handed out only when the registry has opened it.          *)
HoldoutSplit(c, opened) ==
  IF opened THEN {Split("HOLDOUT", <<>>, c.holdout)} ELSE {}

Overlaps(a, b) == a[1] <= b[2] /\ a[2] >= b[1]

(* All that may be evaluated; err when a split overlaps the holdout.       *)
SplitPlan(c) ==
  LET Plan(splits) == [splits |-> splits, err |-> \E s \in ToSet(splits) : Overlaps(s.evaluation, c.holdout)]
  IN Plan(<<DesignSplit(c)>> \o WalkForwardSplits(c.design, c.walkForward) \o <<RecentSplit(c)>>)

IndependentBlocks(sessions, block) == sessions \div block

-----------------------------------------------------------------------------
(* What makes a charter sound, registrable, and which entities it admits   *)
(* (strategy/charter.ts).  Of a charter these rules read the ranks, the    *)
(* sizing, the universe, its boundaries, its factors (tags as sequences),  *)
(* the cost tiers that have a default spread, its point among the          *)
(* dimensions of its grid, its falsifiers and its approval; weights are    *)
(* parts of Whole.                                                         *)

Duplicates(tags) == Cardinality(ToSet(tags)) < Len(tags)

BoundaryIssues(c) ==
  LET When(broken, issue) == IF broken THEN {issue} ELSE {}
  IN When(c.design[1] < c.historyStart, "DESIGN_PRECEDES_HISTORY")
       \cup When(c.design[2] >= c.holdout[1], "HOLDOUT_IN_DESIGN")
       \cup When(c.holdout[2] >= c.recent[1], "RECENT_IN_HOLDOUT")
       \cup When(\E r \in {c.design, c.holdout, c.recent} : r[1] > r[2], "RANGE_REVERSED")

UniverseIssues(c) ==
  LET When(broken, issue) == IF broken THEN {issue} ELSE {}
  IN When(c.cashEtf \in c.risk, "CASH_IS_RISK")
       \cup When(~(c.flagged \cup DOMAIN c.conditional \subseteq c.risk), "NOT_A_RISK_ETF")
       \cup When(\E k \in c.clusters : ~(k.members \subseteq c.risk), "CLUSTER_MEMBER")
       \cup When(\E k \in c.clusters : k.most >= Cardinality(k.members), "CLUSTER_UNBOUND")

FactorIssues(c) ==
  LET When(broken, issue) == IF broken THEN {issue} ELSE {}
  IN When(Duplicates(c.taxonomy), "TAXONOMY_DUPLICATE")
       \cup When(~(DOMAIN c.factors \subseteq c.risk \cup {c.cashEtf}), "FACTOR_OF_NO_MEMBER")
       \cup When(\E e \in DOMAIN c.factors : ~(ToSet(c.factors[e]) \subseteq ToSet(c.taxonomy)), "UNKNOWN_TAG")
       \cup When(\E e \in DOMAIN c.factors : Duplicates(c.factors[e]), "TAG_TWICE")

StructuralIssues(c) ==
  LET When(broken, issue) == IF broken THEN {issue} ELSE {}
  IN When(c.holdRank < c.entryRank, "HOLD_RANK") \cup When(c.maxPositions # c.entryRank, "MAX_POSITIONS")
       \cup When(c.skip >= c.lookback, "SKIP") \cup When(c.maxWeight * c.entryRank < Whole - c.minCash, "NEVER_INVESTED")
       \cup When(c.maxGross + c.minCash > Whole, "OVER_INVESTED")
       \cup UniverseIssues(c) \cup FactorIssues(c) \cup BoundaryIssues(c)
       \cup When(c.withDefault # {"base", "adverse", "stress"}, "COST_TIER_WITHOUT_DEFAULT")
       \cup When(\E k \in DOMAIN c.grid : c.point[k] \notin ToSet(c.grid[k]), "POINT_NOT_IN_GRID")
       \cup When(~(ToSet(c.coGates) \subseteq c.falsifiers), "CO_GATE_UNDECLARED")
       \cup When(Duplicates(c.coGates), "CO_GATE_TWICE")

(* A decision is "open" until it is resolved, a condition "undecided".     *)
RegistrabilityReasons(c) ==
  LET When(broken, reason) == IF broken THEN {reason} ELSE {}
  IN When(c.approval.state # "APPROVED", "NOT_APPROVED") \cup When(c.approval.missing # {}, "UNSIGNED")
       \cup When("open" \in c.approval.decisions, "OPEN_DECISION")
       \cup When(\E e \in DOMAIN c.conditional : c.conditional[e] = "undecided", "UNDECIDED_MEMBER")

AdmittedRiskEtfs(c) == c.risk \ {e \in DOMAIN c.conditional : c.conditional[e] # "admitted"}

CharterUniverseMembers(c) == AdmittedRiskEtfs(c) \cup {c.cashEtf}

-----------------------------------------------------------------------------
(***************************************************************************)
(* The research evaluation (packages/core/src/research/evaluate.ts): every *)
(* split of the charter's plan but the holdout is backtested and reported, *)
(* and the walk-forward splits are pooled into one verdict.                *)
(***************************************************************************)

DrawdownCheck(c, report) ==
  report.candidate.maxDrawdown * 10 > report.benchmarks.PRIMARY_TR.maxDrawdown * c.drawdownRatio

(* Slip: the sealed window is run like any other.                          *)
SelectedWithHoldout(c, kinds) ==
  SelectSeq(Append(SplitPlan(c).splits, Split("HOLDOUT", <<>>, c.holdout)),
            LAMBDA s : s.kind \in kinds \cup {"HOLDOUT"})

Selected(c, kinds) ==
  LET splits == SplitPlan(c).splits
  IN Keeping(splits, {i \in DOMAIN splits : splits[i].kind # "HOLDOUT" /\ splits[i].kind \in kinds})

(* What a walk-forward split hands to the pool.                            *)
AggregateInput(id, split, bt, citable) ==
  LET Levels(points) == [i \in DOMAIN points |-> points[i].tr]
      Input(paired) ==
        [id |-> id, kind |-> split.kind, sessions |-> bt.sessions,
         strategy |-> [i \in DOMAIN paired |-> paired[i].strategy],
         benchmark |-> [i \in DOMAIN paired |-> paired[i].benchmark],
         candidateReturn |-> TotalReturnOf(bt.index),
         secondary2 |-> IF bt.secondary2.exact THEN TotalReturnOf(bt.secondary2.points) ELSE Withheld,
         candidateIndex |-> Levels(bt.index), primaryIndex |-> Levels(bt.primary),
         primaryGaps |-> bt.primaryGaps, navGaps |-> bt.navGaps,
         citable |-> citable, blocking |-> BlocksPromotionEvidence(bt.labels)]
  IN Input(SharpeInputSeries(bt.index, bt.primary, bt.cash))

(* What is kept of a split that was run.                                   *)
Reported(c, split, bt, report, blocking) ==
  [kind |-> split.kind, evaluation |-> split.evaluation, backtest |-> bt,
   citable |-> report.citable /\ blocking = {}, blocking |-> blocking, labels |-> report.labels,
   f2 |-> DrawdownCheck(c, report), err |-> bt.err, report |-> report,
   input |-> AggregateInput(split.evaluation, split, bt, report.citable /\ blocking = {})]

RunSplit(c, split, bt) ==
  Reported(c, split, bt, BuildResultReport(bt, c.threshold), BlocksPromotionEvidence(bt.labels))

ForwardOf(splits) == Keeping(splits, {i \in DOMAIN splits : splits[i].kind = "WALK_FORWARD"})

Pool(c, pooled, planned) ==
  IF pooled = <<>> THEN {}
  ELSE {AggregateWalkForward(c, [i \in DOMAIN pooled |-> pooled[i].input],
                             [i \in DOMAIN planned |-> planned[i].evaluation])}

(* err: there is no report, for the plan, a run or the pool threw.         *)
EvaluationReport(plan, splits, aggregate) ==
  [err |-> plan.err \/ (\E i \in DOMAIN splits : splits[i].err) \/ (\E a \in aggregate : a.err),
   splits |-> splits,
   citable |-> splits # <<>> /\ \A i \in DOMAIN splits : splits[i].citable,
   blocking |-> UNION {splits[i].blocking : i \in DOMAIN splits},
   aggregate |-> aggregate]

(* backtests[w] is the backtest of the evaluation window w.                *)
RunEvaluation(c, kinds, backtests) ==
  LET Evaluated(plan, splits) == EvaluationReport(plan, splits, Pool(c, ForwardOf(splits), ForwardOf(plan.splits)))
      Run(selected) ==
        Evaluated(SplitPlan(c),
                  Tabulated([i \in DOMAIN selected |-> RunSplit(c, selected[i], backtests[selected[i].evaluation])]))
  IN Run(Selected(c, kinds))

=============================================================================
