------------------------- MODULE DecisionGate -------------------------
(***************************************************************************)
(* What a decision must pass: the compliance rules, the limits and the     *)
(* halt state.                                                             *)
(***************************************************************************)
EXTENDS Integers, Sequences, FiniteSets, SequencesExt, FiniteSetsExt, HaltMachine

-----------------------------------------------------------------------------
(***************************************************************************)
(* Compliance of new risk (packages/core/src/compliance): the restricted   *)
(* list (engine.ts), the look-through of a fund's published holdings       *)
(* (look-through.ts) and the owner's theme membership (theme-membership.ts). *)
(*                                                                         *)
(* Symbols, entity ids and themes are opaque; NoEntity stands for an       *)
(* undefined id and Unknown for a look-through that has not run.           *)
(***************************************************************************)

CONSTANTS NoEntity, Unknown

LaterOf(a, b) == IF a > b THEN a ELSE b

(* A list is [asOf, names, etfs, themes, pending, cooling, blackouts]; a   *)
(* pending removal is [item, requested, eligible], a blackout [from, to].  *)

IdentityOf(c) == {c.symbol} \cup c.identifiers \cup ({c.entityId} \ {NoEntity})

EligibleFrom(rl, removal) == LaterOf(removal.eligible, removal.requested + rl.cooling)

Cooling(c, rl, today) ==
  \E p \in rl.pending : p.item \in IdentityOf(c) /\ today < EligibleFrom(rl, p)

(* Days are the unit of time, so the age is a difference.                  *)
ComplianceViolations(c, rl, today, maxAge) ==
  (IF today - rl.asOf > maxAge THEN {"RESTRICTED_LIST_STALE"} ELSE {})
    \cup (IF rl.names \cap IdentityOf(c) # {} THEN {"RESTRICTED_NAME"} ELSE {})
    \cup (IF rl.etfs \cap IdentityOf(c) # {} THEN {"RESTRICTED_ETF"} ELSE {})
    \cup (IF Cooling(c, rl, today) THEN {"RESTRICTED_COOLING"} ELSE {})
    \cup (IF c.themes = Unknown THEN {"UNKNOWN_LOOK_THROUGH"}
          ELSE IF c.themes \cap rl.themes # {} THEN {"RESTRICTED_THEME"} ELSE {})
    \cup (IF \E b \in rl.blackouts : b.from <= today /\ today <= b.to THEN {"BLACKOUT"} ELSE {})

EvaluateCompliance(c, rl, today, maxAge, isNewRisk) ==
  IF isNewRisk THEN ComplianceViolations(c, rl, today, maxAge) ELSE {}

-----------------------------------------------------------------------------
(* The look-through.  Holdings are [asOf, lines], a line [symbol, entityId, *)
(* weight], and an issuer of the membership [symbols, entityId, themes].   *)

ThemesOf(issuers, symbol, entityId) ==
  UNION {i.themes : i \in {j \in issuers : symbol \in j.symbols
                             \/ (entityId # NoEntity /\ entityId = j.entityId)}}

RestrictedLines(h, issuers, themes) ==
  {k \in DOMAIN h.lines :
     ThemesOf(issuers, h.lines[k].symbol, h.lines[k].entityId) \cap themes # {}}

ThemeWeight(h, issuers, themes) ==
  MapThenSumSet(LAMBDA k : h.lines[k].weight, RestrictedLines(h, issuers, themes))

PresentThemes(h, issuers, themes) ==
  UNION {ThemesOf(issuers, h.lines[k].symbol, h.lines[k].entityId) \cap themes :
           k \in DOMAIN h.lines}

LookThroughUnknown(h, today, maxAge) ==
  h = Unknown \/ (h.lines = <<>> \/ today < h.asOf \/ today - h.asOf > maxAge)

EvaluateLookThrough(h, issuers, themes, limit, today, maxAge) ==
  IF LookThroughUnknown(h, today, maxAge) THEN Unknown
  ELSE IF ThemeWeight(h, issuers, themes) <= limit THEN {}
  ELSE PresentThemes(h, issuers, themes)

(* The holdings of the newest as-of among the admissible rows, the later   *)
(* row on a tie, their constituents resolved as of that date.              *)
StoredHoldings(rows, resolve) ==
  LET Newer(a, b) == rows[a].asOf > rows[b].asOf \/ (rows[a].asOf = rows[b].asOf /\ a >= b)
      best == rows[CHOOSE a \in DOMAIN rows : \A b \in DOMAIN rows : Newer(a, b)]
  IN IF rows = <<>> THEN Unknown
     ELSE [asOf |-> best.asOf,
           lines |-> [k \in DOMAIN best.lines |->
                        [symbol |-> best.lines[k].symbol, weight |-> best.lines[k].weight,
                         entityId |-> resolve[best.lines[k].symbol, best.asOf]]]]

CoversRestricted(issuers, themes) == themes \subseteq UNION {i.themes : i \in issuers}

StoredLookThrough(etf, scope, rows, resolve, issuers, themes, limit, today, maxAge) ==
  IF etf \notin scope \/ themes = {} THEN {}
  ELSE IF ~CoversRestricted(issuers, themes) THEN Unknown
  ELSE EvaluateLookThrough(StoredHoldings(rows, resolve), issuers, themes, limit, today, maxAge)

-----------------------------------------------------------------------------
(***************************************************************************)
(* What may be added to the book: the limits of a target book              *)
(* (packages/core/src/risk/limits.ts), the liquidity of what increases     *)
(* (risk/liquidity.ts), the limits of a session's orders (risk/orders.ts)  *)
(* and the gate that composes them with the halt machine and compliance    *)
(* (decision/gate.ts).                                                     *)
(*                                                                         *)
(* A policy is a record of the limits of risk.yaml and of the charter that *)
(* bind with them, weights in parts of the whole, money in whole units; an *)
(* unknown fact is 0, as the code treats them alike.                       *)
(***************************************************************************)

HeldLines(w) == {e \in DOMAIN w : w[e] > 0}

SumWeights(w, S) == MapThenSumSet(LAMBDA e : w[e], S)

Stricter(a, b) == IF a < b THEN a ELSE b

SectorsOf(p, S) == UNION {p.sectors[e] : e \in S}

SectorWeight(p, w, s) ==
  SumWeights(w, {e \in HeldLines(w) \cap p.admitted \cap p.classified : s \in p.sectors[e]})

ClusterBreaks(p, w) ==
  UNION {LET members == c.members \cap HeldLines(w)
         IN (IF SumWeights(w, members) > p.clusterCap THEN {"CLUSTER_WEIGHT"} ELSE {})
              \cup (IF Cardinality(members) > c.most THEN {"CLUSTER_MEMBERS"} ELSE {})
         : c \in p.clusters}

EvaluateRiskLimits(p, w, cash) ==
  LET lines == HeldLines(w)
      gross == SumWeights(w, lines)
      When(c, code) == IF c THEN {code} ELSE {}
  IN When(\E e \in DOMAIN w : w[e] < 0, "NEGATIVE_WEIGHT")
       \cup When(\E e \in lines : w[e] > p.maxWeight, "SINGLE_ETF_WEIGHT")
       \cup When(Cardinality(lines) > Stricter(p.maxOpen, p.maxPositions), "MAX_OPEN_POSITIONS")
       \cup When(gross > p.maxGross, "GROSS_EXPOSURE")
       \cup When(gross > p.maxNet, "NET_EXPOSURE")
       \cup When(cash < p.minCash, "MIN_CASH")
       \cup When(lines \ p.admitted # {}, "NOT_ADMITTED")
       \cup When((lines \cap p.admitted) \ p.classified # {}, "UNCLASSIFIED_HOLDING")
       \cup When(\E s \in SectorsOf(p, DOMAIN p.sectors) : SectorWeight(p, w, s) > p.sectorCap,
                 "SECTOR_CONCENTRATION")
       \cup ClusterBreaks(p, w)

(* facts[e] is [adv, price].                                               *)
InstrumentLiquidity(p, adv, price) ==
  IF adv <= 0 \/ price <= 0 THEN {"LIQUIDITY_UNKNOWN"}
  ELSE (IF adv < p.minAdv THEN {"MIN_ADV"} ELSE {})
         \cup (IF price < p.minPrice THEN {"MIN_PRICE"} ELSE {})

EvaluateLiquidity(p, increasing, facts) ==
  UNION {IF e \in DOMAIN facts THEN InstrumentLiquidity(p, facts[e].adv, facts[e].price)
         ELSE {"LIQUIDITY_UNKNOWN"} : e \in increasing}

-----------------------------------------------------------------------------
(* The orders of a session: [id, entity, side, qty, price, adv, bid, ask], *)
(* id its place in the list, the bid -1 without a quote.                   *)

ValidQuote(o) == o.bid > 0 /\ o.ask >= o.bid

SpreadViolations(p, o) ==
  IF o.bid = -1 THEN {"SPREAD_UNOBSERVED"}
  ELSE IF ~ValidQuote(o) THEN {"BAD_QUOTE"}
  ELSE IF 2 * (o.ask - o.bid) * 10000 > p.maxSpreadBps * (o.ask + o.bid) THEN {"SPREAD"} ELSE {}

(* The most an order can fill for: a sell's limit is only a floor.         *)
SizingPrice(o) == IF o.side = "SELL" /\ ValidQuote(o) THEN Greater(o.price, o.bid) ELSE o.price

Notional(o) == o.qty * SizingPrice(o)

OrderViolations(p, o) ==
  LET When(c, code) == IF c THEN {code} ELSE {}
      buy == o.side = "BUY"
      part == Stricter(p.maxParticipation, p.charterParticipation)
  IN When(o.qty <= 0, "BAD_QUANTITY") \cup When(o.qty > p.maxQty, "QTY_CAP")
       \cup (IF o.price <= 0 THEN {"BAD_PRICE"}
             ELSE When(Notional(o) > p.maxNotional, "NOTIONAL_CAP")
                    \cup (IF o.adv <= 0 THEN When(buy, "ADV_UNKNOWN")
                          ELSE When(Notional(o) * Percent > part * o.adv, "ADV_PARTICIPATION")))
       \cup (IF buy /\ o.adv > 0 /\ ValidQuote(o)
               THEN InstrumentLiquidity(p, o.adv, (o.ask + o.bid) \div 2) ELSE {})
       \cup (IF buy THEN SpreadViolations(p, o) ELSE {})

SoldOf(orders, e) ==
  MapThenSumSet(LAMBDA o : o.qty, {o \in orders : o.entity = e /\ o.side = "SELL"})

EvaluateOrderLimits(p, nav, holding, orders) ==
  LET When(c, code) == IF c THEN {code} ELSE {}
      buys == {o \in orders : o.side = "BUY"}
      entries == {o.entity : o \in {b \in buys : holding[b.entity] <= 0}}
      sold == {o.entity : o \in orders \ buys}
      turnover == MapThenSumSet(Notional, {o \in orders : o.price > 0})
  IN UNION {OrderViolations(p, o) : o \in orders}
       \cup When(\E e \in sold : SoldOf(orders, e) > holding[e], "SELL_EXCEEDS_HELD")
       \cup When(Cardinality(orders) > p.maxOrders, "MAX_ORDERS_PER_SESSION")
       \cup When(Cardinality(entries) > Stricter(p.maxNew, p.charterNew), "MAX_NEW_POSITIONS")
       \cup (IF nav <= 0 THEN When(buys # {}, "BAD_NAV")
             ELSE When(turnover * Percent > p.maxTurnover * nav, "DAILY_TURNOVER"))

-----------------------------------------------------------------------------
(* The gateway's own copy of the order caps (guards/hard-caps.ts of the    *)
(* broker gateway).  An intent is an order with its [account, mode, type,  *)
(* tif, extended, at], at the time of its quote and the price 0 without a  *)
(* limit; shares are whole.                                                *)

LiveModes == {"LIVE_MANUAL", "LIVE_LIMITED"}

ReferencePrice(o) ==
  CASE o.type = "LIMIT" /\ o.side = "SELL" /\ o.price # 0 -> Greater(o.price, o.bid)
    [] o.type = "LIMIT" /\ (o.side = "BUY" \/ o.price = 0) -> o.price
    [] OTHER -> IF o.side = "BUY" THEN o.ask ELSE o.bid

HardCapReasons(c, o, now) ==
  LET When(broken, code) == IF broken THEN {code} ELSE {}
      age == now - o.at
  IN When(o.account # c.account, "ACCOUNT_MISMATCH") \cup When(o.mode \in LiveModes, "LIVE_UNAVAILABLE")
       \cup When(o.side \notin c.sides, "SIDE") \cup When(o.type \notin c.types, "ORDER_TYPE")
       \cup When(o.tif \notin c.tifs, "TIF") \cup When(o.extended, "EXTENDED_HOURS")
       \cup When(o.qty <= 0, "BAD_QTY") \cup When(o.qty > c.maxQty, "QTY_CAP")
       \cup When((o.type = "LIMIT" /\ o.price <= 0) \/ ReferencePrice(o) <= 0, "BAD_LIMIT")
       \cup When(age < 0 \/ age > c.maxQuoteAge, "STALE_QUOTE")
       \cup When(ReferencePrice(o) > 0 /\ o.qty * ReferencePrice(o) > c.maxNotional, "NOTIONAL_CAP")

(* What is thrown: a live mode before anything else.                       *)
AssertHardCaps(c, o, now) ==
  IF o.mode \in LiveModes THEN {"LIVE_UNAVAILABLE"} ELSE HardCapReasons(c, o, now)

-----------------------------------------------------------------------------
(* The gate.  candidates[e] is the compliance candidate filed under e, its *)
(* canonical key.                                                          *)

CurrentWeight(current, e) == IF e \in DOMAIN current THEN current[e] ELSE 0

Increasing(w, current) == {e \in DOMAIN w : w[e] > CurrentWeight(current, e)}

GateBlocks(g) ==
  LET increased == Increasing(g.weights, g.current)
  IN (IF g.halt # "NORMAL" THEN {"HALT"} ELSE {})
       \cup EvaluateRiskLimits(g.policy, g.weights, g.cash)
       \cup EvaluateLiquidity(g.policy, increased, g.facts)
       \cup (UNION {EvaluateCompliance(g.candidates[e], g.list, g.today, g.policy.maxListAge, TRUE) :
                      e \in DOMAIN g.candidates})
       \cup (IF increased \ DOMAIN g.candidates # {} THEN {"MISSING_COMPLIANCE"} ELSE {})

NewRiskAllowed(g) == GateBlocks(g) = {}

=============================================================================
