------------------------------ MODULE Benchmarks ------------------------------
(***************************************************************************)
(* The benchmark series (packages/core/src/research/benchmarks.ts): the    *)
(* daily-rebalanced blend, the volatility-targeted index whose weight      *)
(* moves at the instant it was acquired, and the metrics over a series.    *)
(* Weights, levels and factors are parts of Level.                         *)
(***************************************************************************)
EXTENDS Features

CommonSessions(a, b) == SessionsOf(a) \cap SessionsOf(b)

Ascending(sessions) == RankedBy(sessions, [s \in sessions |-> s])

At(points, session) == points[CHOOSE i \in DOMAIN points : points[i].session = session]

CloseToClose(points, session, prev) ==
  (At(points, session).tr * Level) \div At(points, prev).tr - Level

PlainStep(weight, equity, cash, session, prev) ==
  (weight * CloseToClose(equity, session, prev)
     + (Level - weight) * CloseToClose(cash, session, prev)) \div Level

(* weight[s] is the weight held into session s.                            *)
BlendSeries(equity, cash, weight) ==
  LET sessions == Ascending(CommonSessions(equity, cash))
      Step(points, i) ==
        LET prev == Last(points)
            r == PlainStep(weight[sessions[i]], equity, cash, sessions[i], prev.session)
        IN Append(points, [session |-> sessions[i], tr |-> (prev.tr * (Level + r)) \div Level])
  IN IF sessions = <<>> THEN <<>>
     ELSE FoldLeft(Step, <<[session |-> sessions[1], tr |-> Level]>>, [k \in 1..(Len(sessions) - 1) |-> k + 1])

(* An instant of acquisition: the open of a session before its close.      *)
InstantKey(at) == 2 * at.session + (IF at.kind = "open" THEN 0 ELSE 1)
CloseOf(session) == 2 * session + 1
OpenOf(session) == 2 * session

(* Activations come in the order of their decisions, and an acquisition    *)
(* never overtakes an earlier one.                                         *)
SortedActivations(activations) == SortSeq(activations, LAMBDA a, b : InstantKey(a.at) < InstantKey(b.at))

(* The two factors of a session, from the close before to the open and     *)
(* from the open to the close; <<>> when a leg has no usable open.         *)
LegSplit(leg, session, prev) ==
  LET bar == {b \in ToSet(leg.bars) : b.session = session}
      i == PointAsOf(leg.tr, session)
  IN IF bar = {} \/ i < 2 \/ \E b \in bar : b.open <= 0 \/ b.close <= 0 THEN <<>>
     ELSE LET b == CHOOSE x \in bar : TRUE
              point == leg.tr[i]
              last == leg.tr[i - 1]
              open == (b.open * point.adj) \div b.close
              carry == (last.tr * Level) \div At(leg.tr, prev).tr
          IN <<(carry * (open + point.dist)) \div last.adj, (point.adj * Level) \div open>>

Blend(weight, a, b) == (weight * a + (Level - weight) * b) \div Level

(* Sessions either leg or the run saw strictly between two common ones.    *)
SkippedBetween(seen, prev, session) == {s \in seen : prev < s /\ s < session}

(* The weight in force at an instant: the last one acquired by then.       *)
WeightAt(acts, key) ==
  LET upTo == {i \in DOMAIN acts : InstantKey(acts[i].at) <= key}
  IN IF upTo = {} THEN 0 ELSE acts[Cardinality(upTo)].weight

Changes(acts, k) == acts[k].weight # IF k = 1 THEN 0 ELSE acts[k - 1].weight

(* The index over a session, split at its open when the weight moves there;*)
(* the splits of the legs are empty where they cannot be.                  *)
SteppedIndex(acc, before, atOpen, plain, e, c) ==
  IF before = atOpen \/ e = <<>> \/ c = <<>>
    THEN (acc.index * (Level + plain)) \div Level
  ELSE (((acc.index * Blend(before, e[1], c[1])) \div Level) * Blend(atOpen, e[2], c[2])) \div Level

(* The index: a rebalance session is split at its open.  It is exact when  *)
(* every change of weight was priced at the instant it was acquired.       *)
IndexOver(equity, cash, acts, sessions, seen) ==
  LET Price(acc, session, prev, before, atOpen, e, c) ==
        [index |-> SteppedIndex(acc, before, atOpen, PlainStep(before, equity.tr, cash.tr, session, prev), e, c),
         inexact |-> \/ acc.inexact
                     \/ before # atOpen /\ (e = <<>> \/ c = <<>>)
                     \/ SkippedBetween(seen, prev, session) # {} /\ before \notin {0, Level}
                     \/ \E k \in DOMAIN acts : /\ InstantKey(acts[k].at) > CloseOf(prev)
                                              /\ InstantKey(acts[k].at) < OpenOf(session)
                                              /\ Changes(acts, k)]
      late == \E k \in DOMAIN acts : /\ InstantKey(acts[k].at) > CloseOf(Last(sessions))
                                     /\ Changes(acts, k)
      Indexed[k \in DOMAIN sessions] ==
        IF k = 1 THEN [index |-> Level, inexact |-> FALSE]
        ELSE Price(Indexed[k - 1], sessions[k], sessions[k - 1], WeightAt(acts, CloseOf(sessions[k - 1])),
                   WeightAt(acts, OpenOf(sessions[k])),
                   LegSplit(equity, sessions[k], sessions[k - 1]), LegSplit(cash, sessions[k], sessions[k - 1]))
      Result(indexed) == [points |-> [k \in DOMAIN sessions |-> [session |-> sessions[k], tr |-> indexed[k].index]],
                          exact |-> ~Last(indexed).inexact /\ ~late]
  IN Result(Tabulated(Indexed))

VolatilityTargetedSeries(equity, cash, activations, expected) ==
  IF CommonSessions(equity.tr, cash.tr) = {} THEN [points |-> <<>>, exact |-> FALSE]
  ELSE IndexOver(equity, cash, SortedActivations(activations), Ascending(CommonSessions(equity.tr, cash.tr)),
                 SessionsOf(equity.tr) \cup SessionsOf(cash.tr) \cup expected)

MaxDrawdown(points) ==
  LET falls == {Level - (points[p[2]].tr * Level) \div points[p[1]].tr :
                  p \in {q \in (DOMAIN points) \X (DOMAIN points) : q[1] <= q[2] /\ points[q[1]].tr > 0}}
  IN IF falls = {} THEN 0 ELSE CHOOSE f \in falls : \A g \in falls : f >= g

TotalReturnOf(points) ==
  IF Len(points) < 2 THEN 0 ELSE (Last(points).tr * Level) \div points[1].tr - Level

(* Paired daily differences on the common sessions.                        *)
ExcessReturns(a, b) ==
  LET common == CommonSessions(a, b)
      ra == SimpleReturns(SelectSeq(a, LAMBDA p : p.session \in common))
      rb == SimpleReturns(SelectSeq(b, LAMBDA p : p.session \in common))
  IN [i \in DOMAIN ra |-> ra[i].value - rb[i].value]

=============================================================================
