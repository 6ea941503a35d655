------------------------------- MODULE Backtest -------------------------------
(***************************************************************************)
(* The event-driven backtest (packages/core/src/research/backtest.ts): at  *)
(* the last session of every week a decision over what was known then, its *)
(* orders worked by the fill simulator, and at the end the replay of every *)
(* fill into a daily series, the passive arm and the registered Secondary  *)
(* 2 comparator, which is withheld unless it was placed exactly.           *)
(*                                                                         *)
(* An input is [from, to, rows, actions, delay, entryDelay, missing,       *)
(* labels, reasons]: delay is what the run resolved, entryDelay the        *)
(* charter's; a price is in the simulator's units of money.                *)
(***************************************************************************)
EXTENDS Nav, Benchmarks, Features, Candidates, Construct

CONSTANTS Risk, CashEtf, Primary,  \* the universe: admitted entities, and the two legs
          Calendar,                \* the exchange's sessions
          WeekLength,
          InitialCash, MaxFillBars

ASSUME SessionsAssumption == Calendar \subseteq Int /\ IsFiniteSet(Calendar)
(* How many bars an order is worked, at the most.                          *)
ASSUME FillBarsAssumption == MaxFillBars \in Nat

Universe == Risk \cup {CashEtf, Primary}

(* Every name of the universe has its place in the order of the names.     *)
ASSUME UniverseAssumption == ToSet(EntityOrder) = Universe

SessionDates(from, to) == Ascending({s \in Calendar : from <= s /\ s <= to})

MondayOf(session) == session \div WeekLength

(* The last session of each exchange week of the window.                   *)
WeeklyDecisionSessions(from, to) ==
  Ascending({d \in Calendar : /\ from <= d /\ d <= to
                              /\ ~\E s \in Calendar : d < s /\ s <= to /\ MondayOf(s) = MondayOf(d)})

(* One read of an entity: bars, actions and total return, as of an instant.*)
LoadExecutionSeries(in, e, from, to, at) ==
  LET actions == {a \in in.actions[e] : a.known <= at}
      bars == RawSeries(in.rows[e], actions, from, to, at)
  IN [bars |-> bars, actions |-> actions, tr |-> TotalReturnSeries(bars, actions)]

BarDistortsLevel(bars, session) ==
  ~\E i \in DOMAIN bars : bars[i].session = session /\ bars[i].tradable

DistortingSessions(bars, sessions) == {s \in ToSet(sessions) : BarDistortsLevel(bars, s)}

(* Slip: the last close, from the first bar on.                            *)
CloseOnLatest(bars, session) ==
  IF PointAsOf(bars, session) = 0 THEN -1 ELSE Cash(Last(bars).close)

CloseOn(bars, session) ==
  LET i == PointAsOf(bars, session) IN IF i = 0 THEN -1 ELSE Cash(bars[i].close)

AdvCap(bars, session) ==
  LET upTo == SelectSeq(bars, LAMBDA b : b.session <= session)
      slice == SubSeq(upTo, IF Len(upTo) > AdvWindow THEN Len(upTo) - AdvWindow + 1 ELSE 1, Len(upTo))
  IN IF slice = <<>> THEN 0 ELSE FoldLeft(LAMBDA n, b : n + b.volume, 0, slice) \div Len(slice)

-----------------------------------------------------------------------------
(* The decision loop.                                                      *)

Size(delta) == IF delta > 0 THEN delta ELSE -delta

HeldQty(held, e) == IF e \in DOMAIN held THEN held[e] ELSE 0

(* Secondary 2's weight at a decision, None without a volatility.          *)
TargetWeight(vol, target) ==
  IF vol = None THEN None
  ELSE IF vol > 0 /\ target * Level < vol * Level THEN (target * Level) \div vol ELSE Level

(* One fill of an order: a purchase the cash cannot cover does not fill,   *)
(* and a sale is clamped to what is held.                                  *)
BookFill(acc, e, side, f) ==
  LET cost == f.qty * f.price + f.fees
      have == HeldQty(acc.held, e)
      sell == Least(f.qty, have)
      event == [type |-> "FILL", entity |-> e, side |-> side, qty |-> f.qty, price |-> f.price,
                fees |-> f.fees, session |-> f.session]
  IN IF side = "BUY"
       THEN IF cost > acc.cash THEN acc
            ELSE [acc EXCEPT !.cash = @ - cost, !.events = Append(@, event),
                             !.held = [x \in DOMAIN @ \cup {e} |-> HeldQty(@, x) + IF x = e THEN f.qty ELSE 0]]
     ELSE IF sell = 0 THEN acc
     ELSE [acc EXCEPT !.cash = @ + sell * f.price - f.fees, !.events = Append(@, event),
                      !.held = [x \in {y \in DOMAIN @ : y # e \/ have > sell} |->
                                  HeldQty(@, x) - IF x = e THEN sell ELSE 0]]

BookFills(acc, e, side, fills) ==
  LET After[k \in 0..Len(fills)] == IF k = 0 THEN acc ELSE BookFill(After[k - 1], e, side, fills[k])
  IN After[Len(fills)]

(* An order, capped by its share of the average volume and then worked.    *)
WorkOrder(acc, order, series, session, delay) ==
  LET Watched(after) ==
        [after EXCEPT !.violations = @ \/ \E i \in (Len(acc.events) + 1)..Len(after.events) :
           \/ after.events[i].session < session
           \/ after.events[i].session = session /\ delay > 0]
      Work(bars, at, side, wanted, cap) ==
        LET qty == IF cap > 0 /\ wanted > cap THEN cap ELSE wanted
        IN IF at = 0 \/ qty = 0 THEN acc
           ELSE Watched(BookFills(acc, order.entity, side,
                  SimulateFill([side |-> side, qty |-> qty], bars, bars[at].session, delay, MaxFillBars).fills))
      On(bars) ==
        Work(bars, PointAsOf(bars, session), IF order.delta > 0 THEN "BUY" ELSE "SELL",
             Size(order.delta), ParticipationCap(AdvCap(bars, session)))
  IN IF series[order.entity].bars = <<>> THEN acc ELSE On(series[order.entity].bars)

InEntityOrder(orders) ==
  LET named == Keeping(EntityOrder, {i \in DOMAIN EntityOrder : \E o \in orders : o.entity = EntityOrder[i]})
  IN [i \in DOMAIN named |-> CHOOSE o \in orders : o.entity = named[i]]

(* The missing-data tier: the features of some entities are dropped.       *)
WithMissing(features, dropped) ==
  [e \in DOMAIN features |->
     IF e \in dropped THEN [features[e] EXCEPT !.mom = None, !.trend = None, !.vol = None] ELSE features[e]]

SizedVolatility(weights, vols) == MapThenSumSet(LAMBDA e : weights[e] * vols[e], DOMAIN weights) \div Whole

TargetWeights(vols) ==
  ConstructTargets(DOMAIN vols, vols,
                   SizedVolatility(ApplyCap(RawWeights(DOMAIN vols, vols), MaxWeight), vols))

PricesAt(series, session) ==
  Tabulated([e \in {x \in Universe : CloseOn(series[x].bars, session) # -1} |-> CloseOn(series[e].bars, session)])

ValueOf(acc, prices) ==
  acc.cash + MapThenSumSet(LAMBDA e : acc.held[e] * prices[e], DOMAIN acc.held \cap DOMAIN prices)

(* What every decision notes, before it may stop the run.                  *)
Noted(acc, session, weight, nav) ==
  [acc EXCEPT !.nav = nav,
              !.weights = IF weight = None THEN @ ELSE Append(@, [session |-> session, weight |-> weight]),
              !.missingVol = @ \/ (weight = None /\ acc.weights # <<>>)]

WorkOrders(acc, in, series, decision) ==
  LET orders == InEntityOrder(decision.orders)
      Worked[k \in 0..Len(orders)] ==
        IF k = 0 THEN [acc EXCEPT !.decisions = Append(@, decision)]
        ELSE WorkOrder(Worked[k - 1], orders[k], series, decision.session, in.delay)
  IN Worked[Len(orders)]

Rebalance(acc, in, series, session, anchor, cand, weights, prices) ==
  IF acc.nav <= 0 THEN [acc EXCEPT !.stopped = TRUE]
  ELSE WorkOrders(acc, in, series,
         [session |-> session, anchor |-> anchor, nav |-> acc.nav, cand |-> cand, weights |-> weights,
          orders |-> RebalanceOrders(acc.nav, ShareTargets(acc.nav, weights, prices).targets, acc.held, prices),
          cash |-> acc.cash])

DecideOn(acc, in, series, session, fs) ==
  LET Sized(cand, prices) ==
        Rebalance(Noted(acc, session,
                        IF Primary \in Risk THEN TargetWeight(fs.features[Primary].vol, VolTarget) ELSE None,
                        ValueOf(acc, prices)),
                  in, series, session, fs.anchor, cand,
                  TargetWeights([e \in ToSet(cand.selected) |-> fs.features[e].vol]), prices)
  IN Sized(SelectCandidates(WithMissing(fs.features, in.missing), fs.cashMom, DOMAIN acc.held, {}),
           PricesAt(series, fs.anchor))

(* Slip: features are read from the series loaded for the marks.           *)
DecideOnMarks(acc, in, series, session) ==
  IF acc.stopped THEN acc
  ELSE DecideOn(acc, in, series, session, ComputeFeatures(series, Risk, CashEtf, session))

(* A decision: features, candidates, weights, value, orders; then the work.*)
Decide(acc, in, series, session) ==
  IF acc.stopped THEN acc
  ELSE DecideOn(acc, in, series, session,
         ComputeFeatures(Tabulated([e \in Risk \cup {CashEtf} |-> LoadExecutionSeries(in, e, 0, session, session)]),
                         Risk, CashEtf, session))

-----------------------------------------------------------------------------
(* Secondary 2: its weights are placed where a fill of the strategy would  *)
(* have acquired them.                                                     *)

(* Slip: the first bar after the decision, traded or not.                  *)
AcquisitionInstantAnyBar(bars, d, delay) ==
  LET start == d + (IF delay = 0 THEN 1 ELSE delay)
  IN IF delay = 0 /\ bars[d].tradable THEN {[kind |-> "close", session |-> bars[d].session]}
     ELSE IF start \notin DOMAIN bars THEN {}
     ELSE {[kind |-> "open", session |-> bars[start].session]}

AcquisitionInstant(bars, d, delay) ==
  LET start == d + (IF delay = 0 THEN 1 ELSE delay)
      open == {i \in start..Len(bars) : bars[i].tradable}
  IN IF delay = 0 /\ bars[d].tradable THEN {[kind |-> "close", session |-> bars[d].session]}
     ELSE IF open = {} THEN {}
     ELSE {[kind |-> "open", session |-> bars[CHOOSE i \in open : \A j \in open : i <= j].session]}

(* Where the bar of a decision's session would acquire a weight.           *)
WeightInstants(bars, session, delay) ==
  UNION {AcquisitionInstant(bars, i, delay) : i \in {n \in DOMAIN bars : bars[n].session = session}}

(* A weight equal to the last one placed needs no activation.              *)
PlaceWeight(acc, w, at) ==
  IF w.weight = acc.previous THEN acc
  ELSE IF at = {} THEN [acc EXCEPT !.unplaced = TRUE]
  ELSE [acc EXCEPT !.previous = w.weight,
                   !.placed = Append(@, [weight |-> w.weight, decided |-> w.session, at |-> CHOOSE x \in at : TRUE])]

Secondary2Activations(weights, bars, delay) ==
  LET Placed[k \in 0..Len(weights)] ==
        IF k = 0 THEN [placed |-> <<>>, unplaced |-> FALSE, previous |-> None]
        ELSE PlaceWeight(Placed[k - 1], weights[k], WeightInstants(bars, weights[k].session, delay))
  IN Placed[Len(weights)]

Secondary2WeightPath(activations, sessions) ==
  IF activations = <<>> THEN <<>>
  ELSE [i \in DOMAIN sessions |->
          [session |-> sessions[i],
           weight |-> WeightAt(SortedActivations(activations), CloseOf(sessions[i]))]]

(* Exact only from the first session of the run to the last.               *)
Comparator(acc, s2, index, sessions) ==
  LET spans == index.points[1].session = sessions[1] /\ Last(index.points).session = Last(sessions)
  IN [placed |-> s2.placed, built |-> s2.placed # <<>>, points |-> index.points,
      exact |-> s2.placed # <<>> /\ index.exact /\ ~s2.unplaced /\ ~acc.missingVol
                /\ (index.points = <<>> \/ spans)]

Secondary2Of(acc, series, sessions, delay) ==
  LET Built(s2) ==
        Comparator(acc, s2,
                   VolatilityTargetedSeries(series[Primary], series[CashEtf], s2.placed, ToSet(sessions)), sessions)
  IN Built(Secondary2Activations(acc.weights, series[Primary].bars, delay))

-----------------------------------------------------------------------------
(* The arms and the result.                                                *)

ActionEvents(e, actions) ==
  LET Event(a) ==
        CASE a.kind = "CASH_DIVIDEND" ->
               [type |-> "DIVIDEND", entity |-> e, session |-> a.pay, entitled |-> -1, amount |-> Cash(a.value)]
          [] a.kind = "SPLIT" -> [type |-> "SPLIT", entity |-> e, session |-> a.ex, ratio |-> <<a.value, 1>>]
          [] OTHER -> [type |-> "DELISTING", entity |-> e, session |-> a.ex, price |-> Cash(a.value)]
      kept == {x \in actions : x.kind \in {"CASH_DIVIDEND", "SPLIT", "DELISTING"}}
      listed == RankedBy(kept, [x \in kept |-> x.ex])   \* one action a day
  IN [i \in DOMAIN listed |-> Event(listed[i])]

ReplayOf(events, series, sessions) ==
  DailyNavSeries(InitialCash, events, sessions,
                 [s \in ToSet(sessions) |-> [e \in Entities |-> CloseOn(series[e].bars, s)]])

NavIndex(points) ==
  IF points = <<>> \/ points[1].nav <= 0 THEN <<>>
  ELSE [i \in DOMAIN points |-> [session |-> points[i].session,
                                 tr |-> (points[i].nav * Level) \div points[1].nav]]

(* Buy and hold of the primary benchmark from the first tradable open, as  *)
(* many shares as the cash buys before fees.                               *)
RunPassiveArm(series, sessions, delay) ==
  LET Bought(bar, qty) ==
        IF qty = 0 THEN <<>>
        ELSE <<[type |-> "FILL", entity |-> Primary, side |-> "BUY", qty |-> qty, session |-> bar.session,
                price |-> AdversePrice("BUY", bar.open), fees |-> FeesOn("BUY", bar.open, qty)]>>
      Entry(bars) == IF bars = <<>> THEN <<>> ELSE Bought(bars[1], InitialCash \div AdversePrice("BUY", bars[1].open))
      entry == sessions[Least(delay, Len(sessions) - 1) + 1]
  IN ReplayOf(Entry(SelectSeq(series[Primary].bars, LAMBDA b : b.session >= entry /\ b.tradable))
                \o ActionEvents(Primary, {a \in series[Primary].actions : a.kind # "DELISTING"}),
              series, sessions)

(* Sessions on which a held instrument's bar is absent or carried forward. *)
NavDistortingSessions(points, series) ==
  {p.session : p \in {x \in ToSet(points) :
     \E e \in x.held : e \notin DOMAIN series \/ BarDistortsLevel(series[e].bars, x.session)}}

LabelsOf(in) ==
  in.labels \cup (IF in.delay = 0 THEN {"OPTIMISTIC_DELAY"} ELSE {})
            \cup (IF in.missing # {} THEN {"SYNTHETIC_MISSING_DATA"} ELSE {})

Begun ==
  [cash |-> InitialCash, held |-> <<>>, nav |-> InitialCash, events |-> <<>>, weights |-> <<>>,
   missingVol |-> FALSE, violations |-> FALSE, stopped |-> FALSE, decisions |-> <<>>]

(* The replay of either arm may throw, and ends the run.                   *)
Thrown(points) == \E i \in DOMAIN points : points[i].err # "none"

BacktestResult(in, sessions, series, run, points, passive) ==
  [decisions |-> run.decisions, events |-> run.events, points |-> points, sessions |-> sessions,
   err |-> Thrown(points) \/ Thrown(passive), passive |-> NavIndex(passive),
   index |-> NavIndex(points), primary |-> series[Primary].tr, cash |-> series[CashEtf].tr,
   primaryBars |-> series[Primary].bars, secondary2 |-> Secondary2Of(run, series, sessions, in.delay),
   held |-> run.held, left |-> run.cash, navGaps |-> NavDistortingSessions(points, series),
   primaryGaps |-> DistortingSessions(series[Primary].bars, sessions),
   violations |-> run.violations, labels |-> LabelsOf(in),
   citable |-> /\ in.reasons = {} /\ ~run.violations
               /\ LabelsOf(in) \cap {"SURVIVORSHIP_BIASED", "OPTIMISTIC_DELAY", "SYNTHETIC_MISSING_DATA"} = {}]

(* The run's fills and the actions of every instrument, replayed, and the  *)
(* passive arm.                                                            *)
Valued(in, sessions, series, run) ==
  BacktestResult(in, sessions, series, run,
    ReplayOf(run.events \o FlattenSeq([i \in DOMAIN EntityOrder |->
               ActionEvents(EntityOrder[i], series[EntityOrder[i]].actions)]), series, sessions),
    RunPassiveArm(series, sessions, in.entryDelay))

RunThrough(in, series, days) ==
  LET Run[k \in 0..Len(days)] == IF k = 0 THEN Begun ELSE Decide(Run[k - 1], in, series, days[k])
  IN Run[Len(days)]

RunOver(in, series) ==
  Valued(in, SessionDates(in.from, in.to), series, RunThrough(in, series, WeeklyDecisionSessions(in.from, in.to)))

RunBacktest(in) ==
  RunOver(in, Tabulated([e \in Universe |-> LoadExecutionSeries(in, e, in.from, in.to, in.to)]))

=============================================================================
