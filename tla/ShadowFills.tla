------------------------- MODULE ShadowFills -------------------------
(***************************************************************************)
(* The fills of the shadow book, and the replay of its ledgers against it. *)
(***************************************************************************)
EXTENDS Ordered, Nav, Construct

-----------------------------------------------------------------------------
(***************************************************************************)
(* The outcome of a sealed shadow decision: the book it starts from, as    *)
(* replayed from the recorded fills (packages/core/src/decision/           *)
(* shadow-book.ts), and the fills its orders would have had                *)
(* (decision/shadow-fills.ts).                                             *)
(*                                                                         *)
(* A fill is [session, entity, side, qty, price, fees]; a bar is            *)
(* [session, open, close, volume, tradable]; a split [entity, ratio,       *)
(* session], its ratio forward and whole; a dividend [entity, amount, ex,  *)
(* session].  Cash is in the simulator's units.                            *)
(***************************************************************************)

CONSTANTS InitialCash,  \* of the synthetic book, in whole units of money
          DelayBars,    \* sessions from the decision to the first attempt
          MaxFillBars   \* bars a remainder is worked for

ASSUME FillsAssumption == InitialCash \in Nat /\ DelayBars \in Nat /\ MaxFillBars \in Nat \ {0}

-----------------------------------------------------------------------------
(* The book.  market is [bars, splits, dividends], bars[e] a sequence.     *)

(* Bars lie in the order of their sessions.                                *)
ClosedBy(bars, session) ==
  SubSeq(bars, 1, Cardinality({i \in DOMAIN bars : bars[i].session <= session}))

(* Raw closes at or before the session, in the units of cash.              *)
ClosesAt(market, session) ==
  [e \in Entities |->
     LET seen == ClosedBy(market.bars[e], session)
     IN IF seen = <<>> THEN -1 ELSE Cash(seen[Len(seen)].close)]

FillEvent(f) ==
  [type |-> "FILL", entity |-> f.entity, side |-> f.side, qty |-> f.qty,
   price |-> f.price, fees |-> f.fees, session |-> f.session]

SplitEvent(s) == [type |-> "SPLIT", entity |-> s.entity, ratio |-> <<s.ratio, 1>>,
                  session |-> s.session]

(* What the arm held going into the ex-date.                               *)
EntitledQuantity(market, fills, e, ex) ==
  LET mine == SelectSeq(fills, LAMBDA f : f.entity = e /\ f.session < ex)
      splits == SelectSeq(market.splits, LAMBDA s : s.entity = e /\ s.session < ex)
      events == [i \in DOMAIN splits |-> SplitEvent(splits[i])]
                  \o [i \in DOMAIN mine |-> FillEvent(mine[i])]
      Apply(n, v) == IF v.type = "SPLIT" THEN n * v.ratio[1]
                     ELSE IF v.side = "BUY" THEN n + v.qty ELSE n - v.qty
  IN FoldLeft(Apply, 0, ReplayOrder(events))

DividendEvent(market, fills, d) ==
  [type |-> "DIVIDEND", entity |-> d.entity, amount |-> Cash(d.amount), session |-> d.session,
   entitled |-> EntitledQuantity(market, fills, d.entity, d.ex)]

ReplayEvents(market, fills) ==
  [i \in DOMAIN market.splits |-> SplitEvent(market.splits[i])]
    \o [i \in DOMAIN market.dividends |-> DividendEvent(market, fills, market.dividends[i])]
    \o [i \in DOMAIN fills |-> FillEvent(fills[i])]

(* The points of one arm, from the first session to the last.              *)
ReplayShadowArm(market, fills, first, last) ==
  DailyNavSeries(Cash(InitialCash), ReplayEvents(market, fills),
                 [i \in 1..(last - first + 1) |-> first + i - 1],
                 [s \in first..last |-> ClosesAt(market, s)])

BookAt(market, fills, session) ==
  LET Book(p) == [positions |-> [e \in HeldEntities(p) |-> Quantity(p, e)], cash |-> p.cash,
                  nav |-> NavOf(p, ClosesAt(market, session)), err |-> p.err]
  IN Book(ReplayThrough(Cash(InitialCash), ReplayEvents(market, fills), session))

(* The halt machine's picture of the book, and its weights: parts of Whole *)
(* rounded down, zero for a holding without a price.                       *)
ShadowBookStateAt(market, fills, first, session) ==
  LET prices == ClosesAt(market, session)
      Weights(held, mark) ==
        [e \in DOMAIN held |-> IF prices[e] = -1 THEN 0 ELSE (held[e] * prices[e] * Whole) \div mark]
      State(points, held) ==
        LET mark == Last(points).nav
        IN IF mark <= 0 THEN [weights |-> <<>>, nav |-> 0, hwm |-> 0, start |-> 0]
           ELSE [weights |-> Weights(held, mark), nav |-> mark,
                 hwm |-> FoldLeft(LAMBDA n, p : IF p.nav > n THEN p.nav ELSE n, Cash(InitialCash), points),
                 start |-> IF Len(points) >= 2 THEN points[Len(points) - 1].nav ELSE Cash(InitialCash)]
  IN State(ReplayShadowArm(market, fills, first, session), BookAt(market, fills, session).positions)

-----------------------------------------------------------------------------
(* The window an order is worked in.                                       *)

NoAnchor == -1

SimulatorAnchor(bars, session) ==
  LET before == ClosedBy(bars, session)
  IN IF HasBar(bars, session) THEN session
     ELSE IF DelayBars = 0 \/ before = <<>> THEN NoAnchor
     ELSE before[Len(before)].session

FirstAttempt == IF DelayBars = 0 THEN 1 ELSE DelayBars

(* The whole window is there in the entity's own bars.                     *)
FillWindowObserved(bars, session) ==
  LET anchor == SimulatorAnchor(bars, session)
      place == CHOOSE i \in DOMAIN bars : bars[i].session = anchor
  IN anchor # NoAnchor /\ Len(bars) >= place + FirstAttempt + MaxFillBars - 1

SplitFactor(splits, after, at) ==
  FoldLeft(LAMBDA n, s : IF s.session > after /\ s.session <= at THEN n * s.ratio ELSE n, 1, splits)

InDecisionUnits(bars, splits, session) ==
  IF splits = <<>> THEN bars ELSE [i \in DOMAIN bars |->
     LET f == SplitFactor(splits, session, bars[i].session)
     IN [bars[i] EXCEPT !.open = @ * f, !.close = @ * f, !.volume = @ \div f]]

-----------------------------------------------------------------------------
(* The orders the sealed verdict lets through.  A decision is [weights,    *)
(* halt, newRisk].                                                         *)

OrdersOf(decision, book, prices) ==
  LET st == ShareTargets(book.nav, decision.weights, prices)
  IN RebalanceOrders(book.nav, st.targets, book.positions, prices)

Increases(o) == o.delta > 0

(* Slip: a hold stops what adds to the book only.                          *)
ActionableExits(decision, orders) == {o \in orders : decision.newRisk \/ ~Increases(o)}

Actionable(decision, orders) ==
  {o \in orders : decision.halt # "HOLD_ONLY" /\ (decision.newRisk \/ ~Increases(o))}

RemovedHeld(decision, book) ==
  IF decision.halt = "HOLD_ONLY" THEN DOMAIN book.positions \ DOMAIN decision.weights ELSE {}

SideOf(o) == IF Increases(o) THEN "BUY" ELSE "SELL"

SizeOf(o) == IF Increases(o) THEN o.delta ELSE -o.delta

SplitsAfter(market, e, session) ==
  SelectSeq(market.splits, LAMBDA s : s.entity = e /\ s.session > session)

(* Phase 1: an order simulated alone, in the units of its decision; its    *)
(* fills restated in the units of their sessions.                          *)
WorkOrder(o, market, session) ==
  LET splits == SplitsAfter(market, o.entity, session)
      bars == InDecisionUnits(market.bars[o.entity], splits, session)
      sim == SimulateFill([side |-> SideOf(o), qty |-> SizeOf(o)], bars,
                          SimulatorAnchor(market.bars[o.entity], session), DelayBars, MaxFillBars)
      Restated(f) ==
        LET k == SplitFactor(splits, session, f.session)
        IN [type |-> "FILL", session |-> f.session, entity |-> o.entity, side |-> SideOf(o),
            qty |-> f.qty * k, price |-> f.price \div k, fees |-> f.fees, factor |-> k]
  IN [left |-> sim.left, steps |-> {Restated(sim.fills[i]) : i \in DOMAIN sim.fills}]

(* Phase 2: in time order, a split before a fill of its day and sells      *)
(* before buys.                                                            *)
StepRank(s) == IF s.type = "SPLIT" THEN 0 ELSE IF s.side = "SELL" THEN 1 ELSE 2

Affordable(cash, step) ==
  LET unit == step.price + step.fees \div step.qty
  IN IF cash \div unit < step.qty THEN cash \div unit ELSE step.qty

ApplyStep(acc, step) ==
  LET have == acc.held[step.entity]
      qty == IF step.side = "BUY" THEN Affordable(acc.cash, step)
             ELSE IF step.qty > have THEN have ELSE step.qty
      fees == (step.fees * qty) \div step.qty
      change == qty * step.price
      fill == [session |-> step.session, entity |-> step.entity, side |-> step.side,
               qty |-> qty, price |-> step.price, fees |-> fees]
      short == IF step.side = "BUY" /\ qty < step.qty THEN {step.entity} ELSE {}
  IN IF step.type = "SPLIT" THEN [acc EXCEPT !.held[step.entity] = @ * step.ratio[1]]
     ELSE IF qty <= 0 THEN [acc EXCEPT !.short = @ \cup short]
     ELSE [acc EXCEPT
             !.cash = IF step.side = "BUY" THEN @ - change - fees ELSE @ + change - fees,
             !.held[step.entity] = IF step.side = "BUY" THEN @ + qty ELSE @ - qty,
             !.applied[step.entity] = @ + qty \div step.factor,
             !.short = @ \cup short,
             !.fills = Append(@, fill)]

(* SPLIT steps carry a side and sizes nothing reads, so that steps are     *)
(* records of one shape.                                                   *)
SplitStep(s) == [type |-> "SPLIT", session |-> s.session, entity |-> s.entity,
                 ratio |-> <<s.ratio, 1>>, side |-> "NONE", qty |-> 1, price |-> 1, fees |-> 0]

StepBefore(entityOrder, a, b) ==
  \/ a.session < b.session
  \/ a.session = b.session /\ StepRank(a) < StepRank(b)
  \/ /\ a.session = b.session /\ StepRank(a) = StepRank(b)
     /\ entityOrder[a.entity] < entityOrder[b.entity]

StepsInOrder(steps, entityOrder) ==
  InOrder(steps, [a \in steps |-> {b \in steps : StepBefore(entityOrder, a, b)}])

ApplySteps(steps, first) ==
  LET Applied[k \in 0..Len(steps)] == IF k = 0 THEN first ELSE ApplyStep(Applied[k - 1], steps[k])
  IN Applied[Len(steps)]

(* Why an order was not filled whole: no bar, the market, or the cash.     *)
Remainders(orders, work, worked, final) ==
  LET left(o) == SizeOf(o) - final.applied[o.entity]
  IN {[entity |-> o.entity, reason |-> "NO_BARS"] : o \in orders \ worked}
       \cup {[entity |-> o.entity,
              reason |-> IF work[o].left > 0 \/ o.entity \notin final.short
                           THEN "LIQUIDITY" ELSE "CASH"]
             : o \in {w \in worked : left(w) > 0}}

CounterfactualFills(decision, book, market, session, entityOrder) ==
  LET prices == ClosesAt(market, session)
      orders == OrdersOf(decision, book, prices)
      acted == Actionable(decision, orders)
      worked == {o \in acted : SimulatorAnchor(market.bars[o.entity], session) # NoAnchor}
      work == [o \in worked |-> WorkOrder(o, market, session)]
      later == {s \in ToSet(market.splits) : s.session > session}
      Held(e) == IF e \in DOMAIN book.positions THEN book.positions[e] ELSE 0
      final == ApplySteps(StepsInOrder((UNION {work[o].steps : o \in worked}) \cup {SplitStep(s) : s \in later},
                                       entityOrder),
                          [cash |-> book.cash, held |-> [e \in Entities |-> Held(e)],
                           applied |-> [e \in Entities |-> 0], short |-> {}, fills |-> <<>>])
      unpricedExits == {e \in RemovedHeld(decision, book) : prices[e] = -1}
      exits == {o.entity : o \in {x \in orders \ acted : ~Increases(x)}}
  IN IF book.nav <= 0
       THEN [fills |-> <<>>, unfilled |-> {}, entries |-> {}, exits |-> RemovedHeld(decision, book)]
     ELSE [fills |-> final.fills, unfilled |-> Remainders(acted, work, worked, final),
           entries |-> {o.entity : o \in {x \in orders \ acted : Increases(x)}},
           exits |-> exits \cup unpricedExits]

-----------------------------------------------------------------------------
(***************************************************************************)
(* The shadow reconciler (packages/core/src/decision/shadow-reconcile.ts): *)
(* the breaks that the sealed decisions and the recorded outcomes show, as *)
(* of the last completed session.                                          *)
(*                                                                         *)
(* A session is its number.  A decision is [arm, at, session], an outcome  *)
(* names the decision by arm and session, and a break is a tuple.          *)
(***************************************************************************)

CONSTANTS Week  \* sessions between two weekly decision sessions

ASSUME WeekAssumption == Week \in Nat \ {0}

Arms == {"B0_PASSIVE", "B1_DETERMINISTIC"}

SleeveArm == "B1_DETERMINISTIC"

IsWeeklyDecisionSession(session) == session % Week = 0

FillDueSession(session) == session + DelayBars

FillWindowEnd(session) == session + FirstAttempt + MaxFillBars - 1

(* One further window for the sessions an instrument may miss.             *)
FillOwedSession(session) == session + FirstAttempt + 2 * MaxFillBars - 1

(* Slip: the outcome is owed when the calendar's window ends.              *)
MissingFillsAtWindowEnd(sealed, outcomes, through) ==
  {<<"MISSING_FILL_RECORD", d.arm, d.session>> : d \in
     {x \in sealed : /\ FillWindowEnd(x.session) <= through
                     /\ ~\E o \in outcomes : o.arm = x.arm /\ o.session = x.session}}

MissingFills(sealed, outcomes, through) ==
  {<<"MISSING_FILL_RECORD", d.arm, d.session>> : d \in
     {x \in sealed : /\ FillOwedSession(x.session) <= through
                     /\ ~\E o \in outcomes : o.arm = x.arm /\ o.session = x.session}}

FirstSealed(sealed) == CHOOSE s \in {d.session : d \in sealed} : \A d \in sealed : s <= d.session

(* Slip: the session the reconciler looks through to is not looked at.     *)
MissingDecisionsBefore(sealed, through) ==
  IF sealed = {} THEN {}
  ELSE {<<"MISSING_DECISION_RECORD", k[1], k[2]>> : k \in
          {x \in Arms \X (FirstSealed(sealed)..(through - 1)) :
             /\ IsWeeklyDecisionSession(x[2])
             /\ ~\E d \in sealed : d.arm = x[1] /\ d.session = x[2]}}

(* Every arm, from the first session any arm sealed.                       *)
MissingDecisions(sealed, through) ==
  IF sealed = {} THEN {}
  ELSE {<<"MISSING_DECISION_RECORD", k[1], k[2]>> : k \in
          {x \in Arms \X (FirstSealed(sealed)..through) :
             /\ IsWeeklyDecisionSession(x[2])
             /\ ~\E d \in sealed : d.arm = x[1] /\ d.session = x[2]}}

UnfilledBreaks(outcomes) ==
  UNION {{<<"UNFILLED_REMAINDER", o.arm, o.session, u.entity>> :
            u \in {x \in o.unfilled : x.reason # "CASH"}} : o \in outcomes}

(* The points of the replayed books are [arm, session, cash].              *)
NegativeCash(points) ==
  {<<"NEGATIVE_CASH", p.arm, p.session>> : p \in {x \in points : x.cash < 0}}

ReconcileShadow(sealed, outcomes, through, points) ==
  MissingDecisions(sealed, through) \cup MissingFills(sealed, outcomes, through)
    \cup UnfilledBreaks(outcomes) \cup NegativeCash(points)

=============================================================================
