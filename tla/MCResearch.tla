------------------------------- MODULE MCResearch -------------------------------
(* A small instance of the research protocol.                              *)
EXTENDS Research, Analyst

(* The exchange trades three days of four, with a holiday; a year has two  *)
(* months.                                                                 *)
MCCalendar == {d \in 1..60 : d % 4 # 0} \ {22}
MCMonths == <<8, 8, 7, 8, 8, 8, 7, 8, 8, 8, 8, 8>>
MCMonthOf(session) == session \div 8

MCEntities == {"a", "b", "m", "c"}
MCRisk == {"a", "b", "m"}
MCOrder == <<"a", "b", "c", "m">>
MCClusters == {{"a", "m"}}
MCMissing == -1000000

MCClose(e, d) ==
  CASE e = "a" -> 10 + (d \div 5) + ((d * 3) % 5)
    [] e = "b" -> 14 + ((d * 5) % 7) + (d \div 20)
    [] e = "m" -> 20 + (d \div 8) + (d % 2)
    [] OTHER -> 20
MCRow(e, d) ==
  [session |-> d, open |-> MCClose(e, d) - (d % 2), close |-> MCClose(e, d), volume |-> 200,
   id |-> d, known |-> d, stale |-> FALSE]
MCRows == [e \in MCEntities |-> {MCRow(e, d) : d \in Calendar}]
(* A rising market, in which the leaders change.                           *)
MCRising(e, d) ==
  20 + 2 * d + CASE e = "a" -> (d * 3) % 7 [] e = "b" -> (d * 2) % 5 [] OTHER -> (d * 5) % 7
MCRisen == [e \in MCEntities |-> IF e = "c" THEN MCRows[e]
                                 ELSE {[r EXCEPT !.open = MCRising(e, r.session), !.close = MCRising(e, r.session)] : r \in MCRows[e]}]
MCNoActions == [e \in MCEntities |-> {}]

(* Little of "b" trades, so that its orders fill over several sessions and,*)
(* in the week of the holiday, past the next decision; the volatility of   *)
(* "m" moves the comparator's weight.                                      *)
MCWild(d) == 12 + (d \div 6) + (d % 3)
MCThin == [MCRows EXCEPT !["b"] = {[r EXCEPT !.volume = IF r.session % 4 = 2 THEN 40 ELSE 8] : r \in @},
                         !["m"] = {[r EXCEPT !.open = MCWild(r.session), !.close = MCWild(r.session)] : r \in @}]
(* Bars of "m" and "b" are carried forward or absent.                      *)
MCHoles == [MCRows EXCEPT !["m"] = {[r EXCEPT !.stale = r.session \in {25, 29, 37}] : r \in @},
                          !["b"] = {r \in @ : r.session \notin {21, 33, 34}}]
(* The comparator has no bar on the last session of a window either, and a *)
(* close is corrected weeks after its session.                             *)
MCRevised == [MCHoles EXCEPT !["m"] = {r \in @ : r.session # 34},
                             !["b"] = @ \cup {[MCRow("b", d) EXCEPT !.id = 100 + d, !.known = d + 9,
                                                                     !.close = @ + 6] : d \in {19, 23, 30}}]
MCActions == [MCNoActions EXCEPT
  !["a"] = {[kind |-> "SPLIT", ex |-> 34, pay |-> 34, value |-> 2, known |-> 33]},
  !["b"] = {[kind |-> "CASH_DIVIDEND", ex |-> 29, pay |-> 33, value |-> 2, known |-> 27]}]

MCMarket(d) ==
  CASE d.market = "rising" -> [rows |-> MCRisen, actions |-> MCNoActions, labels |-> {}, reasons |-> {}]
    [] d.market = "thin" -> [rows |-> MCThin, actions |-> MCActions, labels |-> {}, reasons |-> {}]
    [] d.market = "holes" -> [rows |-> MCHoles, actions |-> MCNoActions, labels |-> {}, reasons |-> {}]
    [] OTHER -> [rows |-> MCRevised, actions |-> MCNoActions, labels |-> {"SURVIVORSHIP_BIASED"}, reasons |-> {}]

MCCharter(d) ==
  [design |-> <<1, 42>>, recent |-> <<43, 50>>, holdout |-> d.holdout,
   walkForward |-> [years |-> 1, step |-> 1, purge |-> 1, embargo |-> 1],
   threshold |-> 3, drawdownRatio |-> 12, mixedResolved |-> FALSE, coGates |-> TRUE,
   minimumDecisions |-> 2, delay |-> 1]

(* The bootstrap: the mean difference, and an interval around it.          *)
MCSum(s) == FoldLeft(LAMBDA n, x : n + x, 0, s)
MCInterval(a, b) ==
  LET point == MCSum(a) - MCSum(b) IN [point |-> point, lower |-> point - 2, upper |-> point + 2]
MCVolatility(returns) ==
  1 + FoldLeft(LAMBDA n, r : IF r > n THEN r ELSE IF -r > n THEN -r ELSE n, 0, returns)
MCDefaultDelay(source) == IF source = "s" THEN 1 ELSE 0

MCDef(strategy, market, holdout, open) ==
  [strategy |-> strategy, commit |-> "c1", snapshots |-> {"s1"}, arms |-> {"B1_DETERMINISTIC"},
   processingDelay |-> IF market = "holes" THEN 0 ELSE 1, holdout |-> holdout, declaredOpened |-> open, dirty |-> FALSE, market |-> market]
MCDefinitions ==
  {MCDef("S", "rising", <<51, 56>>, FALSE), MCDef("S", "thin", <<57, 60>>, FALSE),
   MCDef("S", "holes", <<51, 56>>, TRUE), MCDef("T", "revised", <<51, 56>>, FALSE)}
(* The market in which an order is worked past the next decision.          *)
MCWorkedLong == {d \in MCDefinitions : d.market = "thin"}

-----------------------------------------------------------------------------
(* The arms that take a model's word, on every answer it may give.         *)

MCPacket == BuildEvidencePacket({[id |-> 1, marks |-> {}], [id |-> 2, marks |-> {"currency"}]}, {})

MCSays(pro, con) == [shape |-> TRUE, abstain |-> FALSE, reasoned |-> FALSE, thesis |-> TRUE, pro |-> pro, con |-> con, factors |-> {"f"}]
MCSaid ==
  {MCSays({1}, {}), MCSays({}, {2}), MCSays({3}, {}), [MCSays({1}, {}) EXCEPT !.factors = {}],
   [MCSays({}, {}) EXCEPT !.thesis = FALSE], [MCSays({}, {}) EXCEPT !.abstain = TRUE, !.reasoned = TRUE]}

MCReply(kind, model, said) == [kind |-> kind, model |-> model, said |-> said, cost |-> 4]
MCReplies ==
  {MCReply(kind, Pinned, MCSays({1}, {})) : kind \in {"network", "late"}} \cup {MCReply("message", "other", MCSays({1}, {}))}
  \cup {MCReply("message", Pinned, said) : said \in MCSaid}

MCLimits == [perDay |-> 10, perMonth |-> 14]
MCBreakers == {[failures |-> n, open |-> n >= Threshold] : n \in 0..Threshold}

(* An assessment rests on an answer of the pinned model that cites only    *)
(* the packet and repeats the factors, within the attempts; any failure    *)
(* counts towards the breaker, and an open breaker sends nothing.          *)
ASSUME AssessmentIsEarned ==
  \A breaker \in MCBreakers, a, b, c \in MCReplies :
    LET answers == <<a, b, c>>
        r == RunAssessment(MCPacket, {"f"}, breaker, [today |-> 0, month |-> 0, perDay |-> 1, perMonth |-> 1], answers)
        deciding == answers[r.attempts]
    IN /\ r.attempts <= MaxAttempts /\ (breaker.open <=> r.code = "CIRCUIT_OPEN") /\ (breaker.open => r.attempts = 0)
       /\ r.code = "ASSESSED" =>
            /\ deciding.kind = "message" /\ deciding.model = Pinned /\ r.breaker = Closed
            /\ deciding.said.pro \cup deciding.said.con \subseteq PacketSourceIds(MCPacket) /\ deciding.said.factors = {"f"}
       /\ r.code \notin {"ASSESSED", "MODEL_ABSTAINED", "CIRCUIT_OPEN"} => r.breaker.failures > breaker.failures

(* Whatever the answers, each run leaves one row, and the spending passes  *)
(* a budget by no more than the run that was under way when it was spent.  *)
ASSUME SpendingIsBounded ==
  \A replies \in [1..5 -> {MCReply("message", Pinned, MCSays({1}, {})), MCReply("late", Pinned, MCSays({1}, {}))}] :
    LET Run(s, i) == RunAnalyst(s.log, [day |-> i \div 4, month |-> 0], {[id |-> 1, marks |-> {}]}, {}, {"f"}, Closed,
                                MCLimits, <<replies[i], replies[i], replies[i]>>, "FORWARD")
        ran == FoldLeft(Run, [log |-> <<>>, breaker |-> Closed, code |-> "none"], <<1, 2, 3, 4, 5>>)
        spent == ModelCallSpend(ran.log, 0, 0)
    IN /\ Len(ran.log) = 5
       /\ spent.today < MCLimits.perDay + 4 /\ spent.month < MCLimits.perMonth + 4
       /\ \A i \in DOMAIN ran.log : ran.log[i].code = "BUDGET_EXCEEDED" => ran.log[i].cost = 0

(* C1 only takes away from B1, in its order, and is B1 when every call     *)
(* failed; what D1 would buy, the veto would never have taken away.        *)
ASSUME OverlayOnlyVetoes ==
  \A said \in [{"a", "b", "m"} -> {[assessed |-> x.shape, abstain |-> x.abstain, pro |-> x.pro, con |-> x.con] : x \in MCSaid} \cup {Abstained}],
     selected \in {<<"a", "b", "m">>, <<"m", "c", "a">>} :
    LET c1 == ApplyOverlay(selected, said, "FORWARD").selected
        d1 == ShadowSelection(said, "FORWARD").selected
    IN /\ ToSet(c1) \cup (d1 \cap ToSet(selected)) \subseteq ToSet(selected) /\ d1 \cap ToSet(selected) \subseteq ToSet(c1)
       /\ \A x \in 1..Len(c1), y \in 1..Len(c1) : x < y =>
             \E i, j \in DOMAIN selected : i < j /\ selected[i] = c1[x] /\ selected[j] = c1[y]
       /\ (\A e \in DOMAIN said : ~said[e].assessed) => c1 = selected /\ d1 = {}

-----------------------------------------------------------------------------
(* The leakage auditor, over every sequence of three reads.                *)

MCLooks ==
  {[source |-> source, at |-> at, delay |-> delay, labels |-> {}, rows |-> rows] :
     source \in {"s", "t"}, at \in {2, 4}, delay \in {0, 1},
     rows \in SUBSET {[known |-> 1, session |-> 1], [known |-> 3, session |-> 5]}}

(* An audit is clean only of reads none of which saw a row before it was   *)
(* public and processed, went back in time for its source or dropped the   *)
(* delay its source has; and no margin is below the one it reports.        *)
ASSUME AuditorSeesEveryLook ==
  \A a, b, c \in MCLooks :
    LET looks == <<a, b, c>>
        audit == FoldLeft(AuditRead, NewAudit, looks)
        report == AuditReport(audit)
        spare == UNION {{looks[i].at - (row.known + looks[i].delay) : row \in looks[i].rows} : i \in DOMAIN looks}
    IN /\ report.clean =
            /\ \A m \in spare : m >= 0
            /\ \A i, j \in DOMAIN looks : i < j /\ looks[i].source = looks[j].source => looks[i].at <= looks[j].at
            /\ \A i \in DOMAIN looks : looks[i].source = "s" => looks[i].delay > 0
       /\ report.margin = (IF spare = {} THEN NoMargin ELSE Min(spare))
       /\ report.zeroDelay = {looks[i].source : i \in {j \in DOMAIN looks : looks[j].delay = 0}}
       /\ AuditReport(CheckEffectiveSessions(audit, 4, c.rows)).clean =
            (report.clean /\ \A row \in c.rows : row.session <= 4)

-----------------------------------------------------------------------------
(* Universe membership, at every instant.                                  *)

MCSnapshots ==
  {[universe |-> u, effective |-> e, avail |-> a, members |-> ms, free |-> a = 1] :
     u \in {"u", "v"}, e \in 1..2, a \in 1..3, ms \in {{}, {"x"}, {"x", "y"}}}

MCTables == {AddSnapshot(AddSnapshot({}, s), t) : s, t \in MCSnapshots}

(* A snapshot that becomes available later, whatever day it is effective,  *)
(* never changes what an earlier decision reads; a decision reads one.     *)
ASSUME MembershipNeverLooksAhead ==
  \A table \in MCTables, s \in MCSnapshots, t \in 1..2 :
    /\ Cardinality(MembersAsOf(table, s.universe, t)) <= 1
    /\ s.avail > t => MembersAsOf(AddSnapshot(table, s), s.universe, t) = MembersAsOf(table, s.universe, t)

-----------------------------------------------------------------------------
(* The variations of a charter.                                            *)

MCGrid == <<<<1, 2, 3>>, <<10, 20>>, <<5, 6>>>>

(* The grid holds each combination once and the registered one once, and a *)
(* point is adjacent to those that differ in one dimension, both ways.     *)
ASSUME GridIsTheProduct ==
  LET points == EnumerateGrid(<<2, 10, 6>>).points
  IN /\ Cardinality(Range(points)) = TrialCount /\ Cardinality(EnumerateGrid(<<2, 10, 6>>).registered) = 1
     /\ \A a \in 1..3, b \in {10, 20}, c \in {5, 6} : <<a, b, c>> \in Range(points)
     /\ \A k \in DOMAIN points :
          /\ Cardinality(AdjacentPoints(points, k)) = 2 + 1 + 1
          /\ \A n \in AdjacentPoints(points, k) : k \in AdjacentPoints(points, n)

MCMetrics ==
  {[primary |-> p, lower |-> l, upper |-> l + 2, strategyDrawdown |-> 10, benchmarkDrawdown |-> 10, adverse |-> a,
    delayed |-> p, withoutBestYear |-> p, grid |-> g, independent |-> n, versusSecondary2 |-> v] :
     p \in {-1, 0, 2, 4}, l \in {-3, -1, 1}, a \in {-1, 1}, g \in {<<>>, <<1, -1>>, <<1, 1>>}, n \in {1, 3},
     v \in {"beats", "trails", "unknown"}}

MCTerms(falsifiers) ==
  [threshold |-> 1, drawdownRatio |-> 12, minAgreement |-> 6, minimumDecisions |-> 2, falsifiers |-> falsifiers]

(* A charter with its first falsifier is never both passed and rejected,   *)
(* an unmeasured comparator never rejects, and a falsifier that nothing    *)
(* evaluates fails the charter that names it.                              *)
ASSUME VerdictsAgree ==
  \A m \in MCMetrics, extra \in SUBSET {"F3", "F5", "F9"} :
    LET v == EvaluateFalsifiers(MCTerms(extra \cup {"F1"}), m)
    IN /\ ~(v.passes /\ v.decisiveRejection = "yes")
       /\ m.versusSecondary2 = "unknown" => v.decisiveRejection = "unknown"
       /\ "F9" \in extra => ~v.passes

-----------------------------------------------------------------------------
(* Charters that parse, and what the rest of the harness may rely on then. *)

MCRanges == {<<1, 17>>, <<25, 40>>, <<3, 25>>, <<9, 33>>, <<26, 40>>, <<34, 33>>, <<41, 60>>}

MCParsed(design, holdout, recent, w) ==
  [historyStart |-> 2, design |-> design, holdout |-> holdout, recent |-> recent, walkForward |-> w,
   holdRank |-> HoldRank, entryRank |-> EntryRank, maxPositions |-> MaxPositions, skip |-> Skip, lookback |-> Lookback,
   maxWeight |-> MaxWeight, minCash |-> MinCash, maxGross |-> Whole - MinCash, risk |-> Risk, cashEtf |-> CashEtf,
   flagged |-> {}, conditional |-> [e \in {"m"} |-> "undecided"], clusters |-> {[members |-> {"a", "m"}, most |-> MaxMembers]},
   taxonomy |-> <<"value">>, factors |-> [e \in {"a"} |-> <<"value">>], grid |-> MCGrid, point |-> <<2, 10, 6>>,
   withDefault |-> {"base", "adverse", "stress"}, falsifiers |-> {"F1", "F2"}, coGates |-> <<"F2">>,
   approval |-> [state |-> "APPROVED", missing |-> {}, decisions |-> {}]]

(* The boundaries of a sound charter give a plan that leaves the holdout   *)
(* alone, however the walk forward is spaced; and a member nobody decided  *)
(* about is not admitted, and keeps the charter from being registered.     *)
ASSUME SoundBoundariesPlan ==
  \A design \in {<<1, 17>>, <<3, 25>>, <<9, 33>>}, holdout, recent \in MCRanges, purge \in {0, 3} :
    LET c == MCParsed(design, holdout, recent, [years |-> 1, step |-> 1, purge |-> purge, embargo |-> 1])
    IN /\ StructuralIssues(c) = {} => ~SplitPlan(c).err /\ \A s \in ToSet(SplitPlan(c).splits) : s.evaluation[1] >= 2
       /\ design = <<3, 25>> /\ holdout = <<26, 40>> => (StructuralIssues(c) = {}) = (recent = <<41, 60>>)
       /\ RegistrabilityReasons(c) = {"UNDECIDED_MEMBER"} /\ CharterUniverseMembers(c) = {"a", "b", "c"}

(* Exactly the registered point of a sound charter is in its grid once.    *)
ASSUME SoundPointIsRegistered ==
  \A a \in 1..4, b \in {10, 15}, d \in {6, 7} :
    LET c == [MCParsed(<<3, 25>>, <<26, 40>>, <<41, 60>>, [years |-> 1, step |-> 1, purge |-> 1, embargo |-> 1])
                EXCEPT !.point = <<a, b, d>>]
    IN (StructuralIssues(c) = {}) = (Cardinality(EnumerateGrid(c.point).registered) = 1)

=============================================================================
