------------------------- MODULE Features -------------------------
(***************************************************************************)
(* What a decision knows of an instrument: its series, and the features of *)
(* it.                                                                     *)
(***************************************************************************)
EXTENDS Ordered

-----------------------------------------------------------------------------
(***************************************************************************)
(* Market series (packages/core/src/market/series.ts): the raw bars of an  *)
(* entity as a decision sees them, and the total-return series rebuilt     *)
(* from the bars and the corporate actions.                                *)
(*                                                                         *)
(* A row is [session, open, close, volume, id, known, stale]; known is the *)
(* session from which a reader sees it.  An action is [kind, ex, pay,      *)
(* value, known]: the ratio of a split, the amount of a dividend, the      *)
(* price of an ending.                                                     *)
(* Levels are counted in parts of Level.                                   *)
(***************************************************************************)

CONSTANT Level

ASSUME LevelAssumption == Level \in Nat \ {0}

BySession(S) == RankedBy(S, [r \in S |-> r.session])

(* What the point-in-time store serves at an instant.                      *)
RowsRead(rows, at) == {r \in rows : r.known <= at}

(* The youngest row of each session the reader sees, in order; a stale bar *)
(* is kept and is not tradable.                                            *)
RawSeries(rows, actions, from, to, at) ==
  LET seen == {r \in RowsRead(rows, at) : r.session \in from..to}
      youngest == {r \in seen : \A o \in seen : o.session = r.session => o.id <= r.id}
      stale(r) == r.stale \/ \E a \in actions : a.kind = "STALE_BAR" /\ a.ex = r.session
  IN BySession({[session |-> r.session, open |-> r.open, close |-> r.close, volume |-> r.volume,
                 tradable |-> ~stale(r)] : r \in youngest})

SessionsOf(points) == {points[i].session : i \in DOMAIN points}

(* Sessions between the first and the last bar that have none.             *)
Gaps(bars, sessions) ==
  IF bars = <<>> THEN {}
  ELSE {s \in sessions : bars[1].session < s /\ s < Last(bars).session} \ SessionsOf(bars)

AtOrAfter(bars, session) == {b \in ToSet(bars) : b.session >= session}

Ending(actions) ==
  LET delisted == {a \in actions : a.kind = "DELISTING"}
  IN IF delisted # {} THEN delisted ELSE {a \in actions : a.kind = "MERGER"}

Factor(splits, session) ==
  FoldSet(LAMBDA s, n : n * s.value, 1, {s \in splits : s.ex <= session})

(* A distribution is paid at the first bar on or after its ex-date, and    *)
(* none on or before the first bar.                                        *)
DistributionAt(bars, actions, session) ==
  LET paid == {a \in actions : /\ a.kind \in {"CASH_DIVIDEND", "SPINOFF"} /\ a.ex > bars[1].session
                               /\ \E b \in AtOrAfter(bars, a.ex) :
                                    /\ b.session = session
                                    /\ \A o \in AtOrAfter(bars, a.ex) : o.session >= session}
  IN MapThenSumSet(LAMBDA a : a.value, paid)

(* Closes in shares of the end of the series, distributions reinvested at  *)
(* the close before, and a last point for a delisting or a cash merger.    *)
TotalReturnSeries(raw, actions) ==
  LET ends == Ending(actions)
      bars == Keeping(raw, {i \in DOMAIN raw : raw[i].tradable /\ \A e \in ends : raw[i].session <= e.ex})
      splits == {a \in actions : a.kind = "SPLIT" /\ a.ex > bars[1].session /\ a.ex <= Last(bars).session}
      end == Factor(splits, Last(bars).session)
      scaled(n, session) == (n * Factor(splits, session) * Level) \div end
      paid == Tabulated([i \in DOMAIN bars |->
                [adj |-> scaled(bars[i].close, bars[i].session),
                 dist |-> scaled(DistributionAt(bars, actions, bars[i].session), bars[i].session)]])
      Grown[i \in DOMAIN bars] ==
        IF i = 1 THEN Level ELSE (Grown[i - 1] * (paid[i].adj + paid[i].dist)) \div paid[i - 1].adj
      Ended(points) ==
        points \o SetToSeq({[session |-> IF e.kind = "DELISTING" THEN Last(bars).session + 1 ELSE e.ex,
                             tr |-> (Last(points).tr * e.value * Level) \div Last(points).adj,
                             adj |-> e.value * Level, dist |-> 0] : e \in ends})
  IN IF bars = <<>> THEN <<>>
     ELSE Ended(Tabulated([i \in DOMAIN bars |->
                  [session |-> bars[i].session, tr |-> Grown[i], adj |-> paid[i].adj, dist |-> paid[i].dist]]))

PointAsOf(points, session) ==
  LET past == {i \in DOMAIN points : points[i].session <= session}
  IN IF past = {} THEN 0 ELSE CHOOSE i \in past : \A j \in past : i >= j

SimpleReturns(points) ==
  [i \in 1..(Len(points) - 1) |->
     [session |-> points[i + 1].session,
      value |-> (points[i + 1].tr * Level) \div points[i].tr - Level]]

PeriodReturn(points, from, to) ==
  (points[PointAsOf(points, to)].tr * Level) \div points[PointAsOf(points, from)].tr - Level

-----------------------------------------------------------------------------
(***************************************************************************)
(* The features of a decision (packages/core/src/strategy/features.ts):    *)
(* every entity is read at one anchor session, and a feature that lacks    *)
(* its window is None, never a value over fewer observations.  The         *)
(* variance over the common window is an operator constant.                *)
(***************************************************************************)

CONSTANTS Lookback, Skip,     \* momentum window, in sessions
          TrendWindow, AdvWindow, VolWindow,
          Volatility(_)       \* of a sequence of returns

ASSUME WindowsAssumption ==
  /\ Lookback \in Nat /\ Skip \in 0..(Lookback - 1)
  /\ TrendWindow \in Nat \ {0} /\ AdvWindow \in Nat \ {0} /\ VolWindow \in Nat \ {0}

None == -1000000

Momentum(tr, i) ==
  IF i <= Lookback \/ tr[i - Lookback].tr <= 0 THEN None
  ELSE (tr[i - Skip].tr * Level) \div tr[i - Lookback].tr - Level

TrendFlag(tr, i) ==
  IF i < TrendWindow THEN None
  ELSE LET sum == FoldLeft(LAMBDA n, p : n + p.adj, 0, SubSeq(tr, i - TrendWindow + 1, i))
       IN IF tr[i].adj * TrendWindow > sum THEN 1 ELSE 0

AverageDollarVolume(bars, i) ==
  IF i < AdvWindow THEN None
  ELSE FoldLeft(LAMBDA n, b : n + b.close * b.volume, 0, SubSeq(bars, i - AdvWindow + 1, i)) \div AdvWindow

LogReturnSessions(tr) == {tr[i].session : i \in {j \in 2..Len(tr) : tr[j].tr > 0 /\ tr[j - 1].tr > 0}}

NoFeatures(reason) ==
  [mom |-> None, trend |-> None, adv |-> None, px |-> None, vol |-> None, reason |-> reason]

(* The newest bar any entity has, at or before the decision's session.     *)
AnchorOf(bars, decision) ==
  LET lasts == {Last(bars[e]).session : e \in {x \in DOMAIN bars : bars[x] # <<>>}}
  IN IF lasts = {} THEN decision ELSE CHOOSE s \in lasts : \A t \in lasts : s >= t

EntityFeatures(bars, tr, anchor) ==
  LET b == PointAsOf(bars, anchor)
      i == PointAsOf(tr, anchor)
  IN IF b = 0 \/ i = 0 THEN NoFeatures("NO_BAR_AT_DECISION")
     ELSE IF bars[b].session # anchor THEN NoFeatures("STALE_ANCHOR")
     ELSE [mom |-> Momentum(tr, i), trend |-> TrendFlag(tr, i), vol |-> None,
           adv |-> AverageDollarVolume(bars, b), px |-> bars[b].close, reason |-> "none"]

(* The last VolWindow sessions every eligible entity has a return for.     *)
CovarianceSessions(tr, eligible, anchor) ==
  LET common == {s \in 0..anchor : \A e \in eligible : s \in LogReturnSessions(tr[e])}
  IN IF eligible = {} \/ Cardinality(common) < VolWindow THEN {}
     ELSE {s \in common : Cardinality({t \in common : t >= s}) <= VolWindow}

ReturnsOn(tr, sessions) ==
  LET r == SelectSeq(SimpleReturns(tr), LAMBDA p : p.session \in sessions)
  IN [i \in DOMAIN r |-> r[i].value]

(* loaded is [entity -> [bars, tr]] as the decision sees it.               *)
ComputeFeatures(loaded, risk, cash, decision) ==
  LET bars == [e \in DOMAIN loaded |-> loaded[e].bars]
      tr == [e \in DOMAIN loaded |-> loaded[e].tr]
      anchor == AnchorOf(bars, decision)
      base == Tabulated([e \in risk |-> EntityFeatures(bars[e], tr[e], anchor)])
      eligible == {e \in risk : /\ base[e].mom # None /\ base[e].trend # None
                                /\ Cardinality(LogReturnSessions(tr[e])) >= VolWindow}
      window == CovarianceSessions(tr, eligible, anchor)
      c == PointAsOf(tr[cash], anchor)
      cashAt == c > 0 /\ tr[cash][c].session = anchor
  IN [anchor |-> anchor,
      cashMom |-> IF cashAt THEN Momentum(tr[cash], c) ELSE None,
      features |-> Tabulated([e \in risk |-> IF e \in eligible /\ window # {}
                                             THEN [base[e] EXCEPT !.vol = Volatility(ReturnsOn(tr[e], window))]
                                             ELSE base[e]])]

=============================================================================
