------------------------- MODULE Nav -------------------------
(***************************************************************************)
(* How an order fills, and what the book is worth after its fills.         *)
(***************************************************************************)
EXTENDS Integers, Sequences, FiniteSets, SequencesExt, FiniteSetsExt

-----------------------------------------------------------------------------
(***************************************************************************)
(* The fill simulator (packages/core/src/research/simulator.ts): an order  *)
(* decided at the close of a session is worked at the opens of the bars    *)
(* that follow, each time for at most a share of the bar's volume.         *)
(*                                                                         *)
(* Rates are parts of Scale, which stands for the code's ten thousand      *)
(* basis points; an amount of money is counted in units of 1/Scale^2, so   *)
(* that prices, notionals and fees are the code's exact decimals.          *)
(***************************************************************************)

CONSTANTS Scale,         \* the whole a rate is a part of
          Adverse,       \* half spread and slippage
          Commission,    \* commission rate
          Participation  \* share of a bar's volume an order may take

ASSUME RatesAssumption ==
  /\ Scale \in Nat \ {0} /\ Commission \in Nat
  /\ Adverse \in 0..Scale /\ Participation \in 1..Scale

Least(a, b) == IF a < b THEN a ELSE b

Sign(side) == IF side = "BUY" THEN 1 ELSE -1

Cash(amount) == amount * Scale * Scale

ParticipationCap(volume) == (volume * Participation) \div Scale

AdversePrice(side, ref) == ref * (Scale + Sign(side) * Adverse) * Scale

FeesOn(side, ref, qty) == ref * (Scale + Sign(side) * Adverse) * qty * Commission

MakeFill(side, session, qty, ref) ==
  [session |-> session, qty |-> qty, ref |-> ref,
   price |-> AdversePrice(side, ref), fees |-> FeesOn(side, ref, qty)]

(* One bar of the order's work; acc.left is the remainder.                 *)
WorkBar(side, acc, bar, ref) ==
  LET qty == Least(acc.left, ParticipationCap(bar.volume))
  IN IF ~bar.tradable THEN [acc EXCEPT !.skipped = Append(@, bar.session)]
     ELSE IF qty = 0 THEN acc
     ELSE [acc EXCEPT !.left = @ - qty,
                      !.fills = Append(@, MakeFill(side, bar.session, qty, ref))]

(* The bars of a window, one after the other, while something is left.     *)
WorkThrough(side, acc, window) ==
  LET Worked[k \in 0..Len(window)] ==
        IF k = 0 THEN acc
        ELSE IF Worked[k - 1].left = 0 THEN Worked[k - 1]
        ELSE WorkBar(side, Worked[k - 1], window[k], window[k].open)
  IN Worked[Len(window)]

SimulateFill(intent, bars, session, delay, maxBars) ==
  LET d == CHOOSE i \in DOMAIN bars : bars[i].session = session
      begun == [left |-> intent.qty, fills |-> <<>>, skipped |-> <<>>]
      atClose == IF delay = 0 THEN WorkBar(intent.side, begun, bars[d], bars[d].close)
                 ELSE begun
      start == d + IF delay = 0 THEN 1 ELSE delay
  IN WorkThrough(intent.side, atClose, SubSeq(bars, start, Least(Len(bars), start + maxBars - 1)))

HasBar(bars, session) == \E i \in DOMAIN bars : bars[i].session = session

FilledQty(fills) == FoldLeft(LAMBDA n, f : n + f.qty, 0, fills)

(* The signed cost of the fills against the decision's close.              *)
Shortfall(side, close, fills) ==
  FoldLeft(LAMBDA s, f : s + Sign(side) * (f.price - Cash(close)) * f.qty + f.fees,
           0, fills)

-----------------------------------------------------------------------------
(***************************************************************************)
(* The portfolio accounting (packages/core/src/research/nav.ts): cash, the *)
(* first-in first-out lots of each entity, the gains realized, and the     *)
(* replay of a list of events into a daily series of values.               *)
(*                                                                         *)
(* A portfolio is a value; an operation that throws leaves the error in    *)
(* its field err, and nothing is applied to it any more, as the exception  *)
(* ends the replay.  Split ratios are pairs <<num, den>>.                  *)
(***************************************************************************)

CONSTANTS Entities,    \* instruments
          LongTermDays \* days after which a gain is long-term

ASSUME EntitiesAssumption == IsFiniteSet(Entities)

NewPortfolio(cash) ==
  [cash |-> cash, lots |-> [e \in Entities |-> <<>>],
   gains |-> <<>>, dividends |-> 0, err |-> "none"]

SumSeq(s) == FoldLeft(+, 0, s)

Shares(lots) == SumSeq([i \in DOMAIN lots |-> lots[i].qty])

Quantity(p, e) == Shares(p.lots[e])

CostBasis(p, e) == SumSeq([i \in DOMAIN p.lots[e] |-> p.lots[e][i].qty * p.lots[e][i].cost])

GainTerm(opened, closed) == IF closed - opened > LongTermDays THEN "LONG_TERM" ELSE "SHORT_TERM"

(* Buy: a lot whose cost per share carries its share of the fees.          *)
ApplyBuy(p, f) ==
  LET cost == f.qty * f.price + f.fees
  IN IF cost > p.cash THEN [p EXCEPT !.err = "CASH"]
     ELSE [p EXCEPT !.cash = @ - cost,
                    !.lots[f.entity] = Append(@, [opened |-> f.session, qty |-> f.qty,
                                                  cost |-> cost \div f.qty])]

(* What is taken from each lot, oldest first, to make up qty.              *)
TakenFrom(lots, qty) ==
  [i \in DOMAIN lots |->
     LET before == Shares(SubSeq(lots, 1, i - 1))
     IN IF before >= qty THEN 0
        ELSE IF qty - before < lots[i].qty THEN qty - before ELSE lots[i].qty]

ReduceFifo(p, e, qty, price, fees, session) ==
  LET Gain(lot, n) == [entity |-> e, qty |-> n, gain |-> n * (price - lot.cost) - (n * fees) \div qty,
                       term |-> GainTerm(lot.opened, session)]
      Reduced(lots, taken, touched, kept) ==
        [p EXCEPT !.lots[e] = [k \in DOMAIN kept |-> [lots[kept[k]] EXCEPT !.qty = @ - taken[kept[k]]]],
                  !.gains = @ \o [k \in DOMAIN touched |-> Gain(lots[touched[k]], taken[touched[k]])]]
      Take(lots, taken) ==
        Reduced(lots, taken, SelectSeq([i \in DOMAIN lots |-> i], LAMBDA i : taken[i] > 0),
                SelectSeq([i \in DOMAIN lots |-> i], LAMBDA i : taken[i] < lots[i].qty))
  IN Take(p.lots[e], TakenFrom(p.lots[e], qty))

ApplySell(p, f) ==
  IF f.qty > Quantity(p, f.entity) THEN [p EXCEPT !.err = "QUANTITY"]
  ELSE ReduceFifo([p EXCEPT !.cash = @ + f.qty * f.price - f.fees],
                  f.entity, f.qty, f.price, f.fees, f.session)

ApplyFill(p, f) == IF f.side = "BUY" THEN ApplyBuy(p, f) ELSE ApplySell(p, f)

(* The entitled quantity is the holding unless the event names it (not -1). *)
ApplyDividend(p, d) ==
  LET qty == IF d.entitled = -1 THEN Quantity(p, d.entity) ELSE d.entitled
  IN [p EXCEPT !.cash = @ + qty * d.amount, !.dividends = @ + qty * d.amount]

ApplySplit(p, e, ratio) ==
  [p EXCEPT !.lots[e] =
     [i \in DOMAIN @ |-> [@[i] EXCEPT !.qty = (@ * ratio[1]) \div ratio[2],
                                      !.cost = (@ * ratio[2]) \div ratio[1]]]]

ApplyDelisting(p, e, price, session) ==
  LET qty == Quantity(p, e)
  IN IF qty = 0 THEN p
     ELSE ReduceFifo([p EXCEPT !.cash = @ + qty * price], e, qty, price, 0, session)

HeldEntities(p) == {e \in Entities : p.lots[e] # <<>>}

(* A held entity without a price (-1) fails the mark.                      *)
NavOf(p, prices) ==
  IF \E e \in HeldEntities(p) : prices[e] = -1 THEN -1
  ELSE p.cash + MapThenSumSet(LAMBDA e : Quantity(p, e) * prices[e], HeldEntities(p))

(* The equity of the book, to be divided by its nav.                       *)
InvestedValue(p, prices) ==
  IF NavOf(p, prices) <= 0 THEN 0 ELSE NavOf(p, prices) - p.cash

RealizedOf(p, term) ==
  SumSeq([i \in DOMAIN p.gains |-> IF p.gains[i].term = term THEN p.gains[i].gain ELSE 0])

-----------------------------------------------------------------------------
(* The replay: events by date, on a date splits before dividends before    *)
(* fills before delistings, otherwise in the order given.                  *)

EventDate(e) == e.session

EventRank(e) ==
  CASE e.type = "SPLIT" -> 0 [] e.type = "DIVIDEND" -> 1
    [] e.type = "FILL" -> 2 [] OTHER -> 3

EventLess(events, i, j) ==
  LET a == events[i]
      b == events[j]
  IN \/ EventDate(a) < EventDate(b)
     \/ EventDate(a) = EventDate(b) /\ EventRank(a) < EventRank(b)
     \/ EventDate(a) = EventDate(b) /\ EventRank(a) = EventRank(b) /\ i < j

ReplayOrder(events) ==
  LET order == SortSeq([i \in DOMAIN events |-> i], LAMBDA i, j : EventLess(events, i, j))
  IN [k \in DOMAIN order |-> events[order[k]]]

ApplyEvent(p, e) ==
  IF p.err # "none" THEN p
  ELSE CASE e.type = "FILL" -> ApplyFill(p, e)
         [] e.type = "DIVIDEND" -> ApplyDividend(p, e)
         [] e.type = "SPLIT" -> ApplySplit(p, e.entity, e.ratio)
         [] e.type = "DELISTING" -> ApplyDelisting(p, e.entity, e.price, e.session)

ReplayThrough(cash, events, session) ==
  FoldLeft(ApplyEvent, NewPortfolio(cash),
           SelectSeq(ReplayOrder(events), LAMBDA e : EventDate(e) <= session))

(* The points of the sessions in order; after a throw nothing moves.       *)
DailyNavSeries(cash, events, sessions, closes) ==
  LET ordered == ReplayOrder(events)
      Until(p, last, session) ==
        FoldLeft(ApplyEvent, p,
                 SelectSeq(ordered, LAMBDA e : last < EventDate(e) /\ EventDate(e) <= session))
      Point(p, session) ==
        [session |-> session, nav |-> NavOf(p, closes[session]), cash |-> p.cash,
         held |-> HeldEntities(p), err |-> p.err]
      Day(acc, p, session) ==
        [book |-> p, last |-> session, points |-> Append(acc.points, Point(p, session))]
  IN FoldLeft(LAMBDA acc, s : Day(acc, Until(acc.book, acc.last, s), s),
              [book |-> NewPortfolio(cash), last |-> -1, points |-> <<>>], sessions).points

=============================================================================
