------------------------------- MODULE MCShadow -------------------------------
(* A small instance of the shadow loop, and of the gate of its sleeve.     *)
EXTENDS ShadowLoop

MCEntities == {"x", "y"}
MCRank == [x |-> 1, y |-> 2]
MCPassive == [x |-> 10]
MCTargets == [s \in 1..6 |-> IF s = 4 THEN {[x |-> 5, y |-> 1]} ELSE {[y |-> 5]}]
MCSplits == <<[entity |-> "y", ratio |-> 2, session |-> 4]>>
MCPrice == [x |-> <<10, 10, 10, 10, 10, 10>>, y |-> <<10, 10, 10, 6, 6, 6>>]
MCFirstDays == {1, 5}
MCOneDay == {1}

-----------------------------------------------------------------------------
(* The rest of the sleeve's gate, that "clear" stands for.                 *)

CONSTANT Unknown

Gate == INSTANCE DecisionGate WITH NoEntity <- ""

MCPolicy ==
  [maxWeight |-> 6, maxOpen |-> 2, maxPositions |-> 2, maxGross |-> 9, maxNet |-> 9, minCash |-> 1,
   admitted |-> {"x", "y"}, classified |-> {"x", "y"}, sectors |-> [x |-> {"s", "t"}, y |-> {"s"}], sectorCap |-> 7,
   clusters |-> {[members |-> {"x", "y"}, most |-> 1]}, clusterCap |-> 6, minAdv |-> 50, minPrice |-> 2,
   maxListAge |-> 7, maxSpreadBps |-> 10000, maxQty |-> 3, maxNotional |-> 6, maxParticipation |-> 5,
   charterParticipation |-> 10, maxOrders |-> 2, maxNew |-> 1, charterNew |-> 2, maxTurnover |-> 10]

MCList ==
  [asOf |-> 3, names |-> {}, etfs |-> {}, themes |-> {"banned"}, pending |-> {}, cooling |-> 5, blackouts |-> {}]

MCCandidate(symbol, themes) == [symbol |-> symbol, identifiers |-> {}, entityId |-> "", themes |-> themes]

MCGate(w, current, cash, themes, covered) ==
  [halt |-> "NORMAL", policy |-> MCPolicy, weights |-> w, cash |-> cash, current |-> current,
   facts |-> [x |-> [adv |-> 60, price |-> 2]], today |-> 8, list |-> MCList,
   candidates |-> [e \in covered |-> MCCandidate(e, IF e = "x" THEN {} ELSE themes)]]

MCBooks == [{"x", "y"} -> {0, 3, 5, 7}]

(* What lets a book through lets every smaller one through: no limit, no   *)
(* missing fact and no candidate stands in the way of a reduction.         *)
ASSUME ReducingIsNeverBlocked ==
  \A w, less, current \in MCBooks, cash \in {0, 2}, covered \in SUBSET {"x", "y"} :
    (\A e \in {"x", "y"} : less[e] <= w[e]) =>
      Gate!GateBlocks(MCGate(less, current, cash + 1, {}, covered)) \subseteq Gate!GateBlocks(MCGate(w, current, cash, {}, covered))

MCIssuers == {[symbols |-> {"B"}, entityId |-> "b", themes |-> {"banned"}], [symbols |-> {"C"}, entityId |-> "c", themes |-> {"other"}]}
MCLine(symbol, weight) == [symbol |-> symbol, weight |-> weight]
MCHoldings == [asOf : {1, 5, 9}, lines : {<<>>, <<MCLine("B", 4)>>, <<MCLine("B", 2), MCLine("OLD", 2)>>, <<MCLine("C", 9)>>}]
MCResolve == [symbol \in {"B", "C", "OLD"}, date \in {1, 5, 9} |-> IF symbol = "OLD" THEN "b" ELSE ""]
MCSeen(rows, today) ==
  Gate!StoredLookThrough("y", {"y"}, rows, MCResolve, MCIssuers, {"banned"}, 3, today, 4)

(* The newest holdings decide, in whatever order they were stored; old,    *)
(* future or empty ones let no fund be added to, however good those before *)
(* them were, and neither does a ban under another name.                   *)
ASSUME NewestHoldingsDecide ==
  \A a, b \in MCHoldings, today \in {6, 8} :
    LET seen == MCSeen(<<a, b>>, today)
        adds == MCGate([x |-> 0, y |-> 3], [x |-> 0, y |-> 0], 2, seen, {"y"})
        policy == [MCPolicy EXCEPT !.minAdv = 0]
    IN /\ a.asOf < b.asOf => seen = MCSeen(<<b>>, today) /\ seen = MCSeen(<<b, a>>, today)
       /\ a.asOf < b.asOf /\ (b.lines = <<>> \/ b.asOf > today \/ today - b.asOf > 4 \/ b.lines[1].symbol = "B") =>
            ~Gate!NewRiskAllowed([adds EXCEPT !.facts = [y |-> [adv |-> 60, price |-> 2]], !.policy = policy])
       /\ a.asOf = 1 /\ b.asOf = 5 /\ b.lines = <<MCLine("C", 9)>> =>
            Gate!NewRiskAllowed([adds EXCEPT !.facts = [y |-> [adv |-> 60, price |-> 2]], !.policy = policy])

MCOrders ==
  [id : {1}, entity : {"x"}, side : {"BUY", "SELL"}, qty : 0..4, price : 0..3, adv : {0, 200}, bid : 0..3, ask : 1..3,
   account : {"sleeve", "other"}, mode : {"SHADOW", "LIVE_MANUAL"}, type : {"LIMIT", "MARKET"}, tif : {"DAY"}, extended : {FALSE}, at : {3, 5, 6}]
MCCaps ==
  [account |-> "sleeve", sides |-> {"BUY", "SELL"}, types |-> {"LIMIT"}, tifs |-> {"DAY"}, maxQty |-> 3, maxNotional |-> 6, maxQuoteAge |-> 1]
MCSizes == {"QTY_CAP", "NOTIONAL_CAP"}
MCCode(codes) == {IF c = "BAD_QUANTITY" THEN "BAD_QTY" ELSE IF c = "BAD_PRICE" THEN "BAD_LIMIT" ELSE c : c \in codes}

(* With the same numbers the gateway never lets through a size that the    *)
(* core would refuse, and refuses a size the core lets through only on a   *)
(* quote that is no market (hard-caps.ts 113, orders.ts 138).              *)
ASSUME CapsAgree ==
  \A o \in MCOrders :
    LET core == MCCode(Gate!OrderViolations(MCPolicy, o))
        gateway == Gate!AssertHardCaps(MCCaps, o, 5)
    IN /\ gateway = {} => core \cap (MCSizes \cup {"BAD_QTY", "BAD_LIMIT"}) = {} /\ o.type = "LIMIT" /\ o.at = 5
       /\ gateway \cap MCSizes # {} /\ Gate!ValidQuote(o) => core \cap (MCSizes \cup {"BAD_LIMIT"}) # {} \/ o.type = "MARKET"
       /\ "LIVE_UNAVAILABLE" \in gateway <=> o.mode = "LIVE_MANUAL"

=============================================================================
