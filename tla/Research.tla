------------------------- MODULE Research -------------------------
(***************************************************************************)
(* The registry of experiments, and the protocol a researcher follows with *)
(* it.                                                                     *)
(***************************************************************************)
EXTENDS Leakage, SequencesExt, Evaluate

-----------------------------------------------------------------------------
(***************************************************************************)
(* The experiment registry (packages/core/src/research/registry.ts): what  *)
(* is registered is frozen, results are viewed once, the holdout opens     *)
(* once and after the view, and evidence for a promotion is cited last.    *)
(* Every operation is one transaction that writes its row and appends its  *)
(* ledger entry.                                                           *)
(*                                                                         *)
(* A definition is [strategy, commit, snapshots, arms, processingDelay,    *)
(* holdout, declaredOpened, dirty]; an operation that throws changes       *)
(* nothing.                                                                *)
(***************************************************************************)

CONSTANTS Definitions,     \* definitions a researcher may register
          KnownSnapshots,  \* snapshots the point-in-time store has
          MaxExperiments, MaxTrials, MaxLog  \* bounds of a run

VARIABLES experiments,  \* registered experiments; an id is a position
          trials,       \* the trial ledger
          log           \* the event ledger's entries about them

registryVars == <<experiments, trials, log>>

(* What the schema of a registration has parsed (registry.ts 45).          *)
ASSUME DefinitionAssumption == \A d \in Definitions : d.processingDelay \in Nat

NoParent == 0

Log(entry) == Len(log) < MaxLog /\ log' = Append(log, entry)

Entry(kind, e, value) == [kind |-> kind, experiment |-> e, value |-> value]

ViewedOf(strategy) ==
  {e \in DOMAIN experiments : experiments[e].viewed /\ experiments[e].def.strategy = strategy}

(* Results that were viewed require a parent; a parent whose holdout is    *)
(* open requires a later one, or the admission that none is left.          *)
MayDescend(def, parent) ==
  IF parent = NoParent THEN ViewedOf(def.strategy) = {}
  ELSE LET p == experiments[parent]
       IN p.opened => def.holdout[1] > p.def.holdout[2] \/ def.declaredOpened

Register(def, parent, labels) ==
  LET all == labels \cup (IF def.processingDelay = 0 THEN {"OPTIMISTIC_DELAY"} ELSE {})
  IN /\ Len(experiments) < MaxExperiments
     /\ ~def.dirty /\ def.snapshots \subseteq KnownSnapshots
     /\ MayDescend(def, parent)
     /\ experiments' = Append(experiments,
          [def |-> def, parent |-> parent, labels |-> all, allowed |-> BlocksPromotionEvidence(all) = {},
           viewed |-> FALSE, opened |-> FALSE, cited |-> FALSE])
     /\ Log(Entry("registered", Len(experiments) + 1, parent))
     /\ UNCHANGED trials

(* A second view changes and logs nothing.                                 *)
MarkResultsViewed(e) ==
  /\ ~experiments[e].viewed
  /\ experiments' = [experiments EXCEPT ![e].viewed = TRUE]
  /\ Log(Entry("results_viewed", e, TRUE))
  /\ UNCHANGED trials

OpenHoldout(e) ==
  /\ ~experiments[e].opened /\ experiments[e].viewed
  /\ experiments' = [experiments EXCEPT ![e].opened = TRUE]
  /\ Log(Entry("holdout_opened", e, TRUE))
  /\ UNCHANGED trials

TrialsOf(e) == {i \in DOMAIN trials : trials[i].experiment = e}

(* Slip: the labels of the trials are not asked.                           *)
MayCiteByRegistration(e) ==
  experiments[e].allowed /\ BlocksPromotionEvidence(experiments[e].labels) = {} /\ experiments[e].opened

(* A blocking label anywhere makes the experiment exploratory.             *)
MayCite(e) ==
  LET labels == experiments[e].labels \cup UNION {trials[i].labels : i \in TrialsOf(e)}
  IN experiments[e].allowed /\ BlocksPromotionEvidence(labels) = {} /\ experiments[e].opened

SetPromotionEvidence(e, value) ==
  /\ value => MayCite(e)
  /\ experiments' = [experiments EXCEPT ![e].cited = value]
  /\ Log(Entry("promotion_evidence_set", e, value))
  /\ UNCHANGED trials

(* A trial matches the frozen registration, and carries its labels.        *)
RecordTrial(t) ==
  LET rec == experiments[t.experiment]
      row == [t EXCEPT !.labels = @ \cup rec.labels]
  IN /\ Len(trials) < MaxTrials
     /\ t.commit = rec.def.commit /\ t.arm \in rec.def.arms
     /\ t.snapshots # {} /\ t.snapshots \subseteq rec.def.snapshots
     /\ trials' = Append(trials, row)
     /\ Log(Entry("trial_recorded", t.experiment, row.labels))
     /\ UNCHANGED experiments

(* The trials of the experiment and of its ancestors.                      *)
CumulativeTrialCount(e) ==
  LET Chain[n \in 0..Len(experiments)] ==
        IF n = 0 THEN {e}
        ELSE Chain[n - 1] \cup {experiments[x].parent : x \in Chain[n - 1] \ {NoParent}}
  IN Cardinality(UNION {TrialsOf(x) : x \in Chain[Len(experiments)]})

RegistryInit == experiments = <<>> /\ trials = <<>> /\ log = <<>>

-----------------------------------------------------------------------------
(***************************************************************************)
(* The research protocol: a registered experiment is evaluated over the    *)
(* splits of its charter, its trials are recorded with the labels its run  *)
(* came back with, its results are viewed, its holdout is opened and       *)
(* backtested, and it is cited.  A researcher takes these steps in any     *)
(* order the registry allows.                                              *)
(*                                                                         *)
(* A definition names its market and its charter beside what the registry  *)
(* freezes; an evaluation is a function of the definition alone.           *)
(***************************************************************************)

CONSTANTS Market(_),   \* [rows, actions, labels, reasons] of a definition
          Charter(_)   \* of a definition

(* The store numbers its rows and takes none that would be known before    *)
(* its session (pit/repository.ts 25), and the calendar reaches beyond a   *)
(* charter.                                                                *)
ASSUME MarketAssumption ==
  \A d \in Definitions : \A e \in Universe :
    /\ IsFiniteSet(Market(d).rows[e]) /\ IsFiniteSet(Market(d).actions[e])
    /\ \A a \in Market(d).actions[e] : a.ex \in Int
    /\ \A r, o \in Market(d).rows[e] :
         /\ r.session \in Int /\ r.id \in Int /\ r.known \in Int /\ r.session <= r.known
         /\ r.session = o.session /\ r.id = o.id => r = o

ASSUME ScheduleAssumption ==
  \A d \in Definitions :
    /\ Charter(d).delay \in Nat
    /\ Charter(d).walkForward.purge \in Nat /\ Charter(d).walkForward.embargo \in Nat
    /\ \A s \in ToSet(WalkForwardSplits(Charter(d).design, Charter(d).walkForward)) : s.design[2] \in Int

InputOf(d, range) ==
  [rows |-> Market(d).rows, actions |-> Market(d).actions, labels |-> Market(d).labels,
   reasons |-> Market(d).reasons, delay |-> Charter(d).delay, entryDelay |-> Charter(d).delay,
   missing |-> {}, from |-> range[1], to |-> range[2]]

BacktestOf(d, range) == RunBacktest(InputOf(d, range))

EvaluationOf(d) ==
  LET kinds == {"DESIGN", "WALK_FORWARD", "RECENT"}
  IN RunEvaluation(Charter(d), kinds,
                   [w \in {s.evaluation : s \in ToSet(Selected(Charter(d), kinds))} |-> BacktestOf(d, w)])

(* What the evaluation of every definition says, and its holdout's run.    *)
Evaluations == [d \in Definitions |-> EvaluationOf(d)]

HoldoutRuns == [d \in Definitions |-> BacktestOf(d, d.holdout)]

Trial(e, kind, labels) ==
  [experiment |-> e, arm |-> "B1_DETERMINISTIC", kind |-> kind, labels |-> labels,
   commit |-> experiments[e].def.commit, snapshots |-> experiments[e].def.snapshots]

RecordSplit(e) ==
  \E evaluation \in {Evaluations[experiments[e].def]} : \E split \in ToSet(evaluation.splits) :
    ~evaluation.err /\ RecordTrial(Trial(e, split.kind, split.labels))

(* The holdout is handed out by the registry's record of it.               *)
RecordHoldout(e) ==
  /\ HoldoutSplit(Charter(experiments[e].def), experiments[e].opened) # {}
  /\ RecordTrial(Trial(e, "HOLDOUT", HoldoutRuns[experiments[e].def].labels))

ResearchNext ==
  \/ \E d \in Definitions, parent \in 0..Len(experiments) : Register(d, parent, {})
  \/ \E e \in DOMAIN experiments :
       \/ MarkResultsViewed(e)
       \/ OpenHoldout(e)
       \/ RecordSplit(e)
       \/ RecordHoldout(e)
       \/ \E value \in BOOLEAN : SetPromotionEvidence(e, value)

ResearchSpec == RegistryInit /\ [][ResearchNext]_registryVars

-----------------------------------------------------------------------------
(* What makes the registry and the backtests behind it trustworthy.        *)

LoggedBefore(k, kind, e) == {i \in 1..(k - 1) : log[i].kind = kind /\ log[i].experiment = e}

(* An experiment, the one it replaced, and so on, as the log has them.     *)
AncestorsOf(e) ==
  LET Closed == {S \in SUBSET (0..Len(experiments)) :
                   \A i \in DOMAIN log : log[i].kind = "registered" /\ log[i].experiment \in S => log[i].value \in S}
  IN {x \in 0..Len(experiments) : \A S \in Closed : e \in S => x \in S}

(* What is cited was opened before, was viewed before that, and no label   *)
(* that had come back with a trial or the registration barred it; and the  *)
(* count of trials a reader is shown has every trial logged for the        *)
(* experiment and whatever it replaced (registry.ts 386-437).              *)
CitationWasEarned ==
  /\ \A e \in DOMAIN experiments :
       CumulativeTrialCount(e) =
         Cardinality(UNION {LoggedBefore(Len(log) + 1, "trial_recorded", x) : x \in AncestorsOf(e)})
  /\ \A k \in DOMAIN log :
       log[k].kind = "promotion_evidence_set" /\ log[k].value =>
         LET e == log[k].experiment
         IN /\ \E i \in LoggedBefore(k, "holdout_opened", e) : LoggedBefore(i, "results_viewed", e) # {}
            /\ \A i \in LoggedBefore(k, "trial_recorded", e) : log[i].value \cap BarringCodes = {}
            /\ experiments[e].def.processingDelay > 0

(* Definitions are judged once, whoever registers them; an evaluation that *)
(* threw has no runs to show.                                              *)
RunsIn(evaluation) == IF evaluation.err THEN {} ELSE ToSet(evaluation.splits)
RunsOf(d) == RunsIn(Evaluations[d])
Registered(Good) == \A e \in DOMAIN experiments : experiments[e].def \in Good

KeepsApart ==
  {d \in Definitions : \A evaluation \in {Evaluations[d]} :
     LET c == Charter(d)
         splits == evaluation.splits
         pooled == {i \in DOMAIN splits : ~evaluation.err /\ splits[i].kind = "WALK_FORWARD"}
     IN /\ \A run \in RunsIn(evaluation) : ~Overlaps(run.evaluation, c.holdout)
        /\ \A w \in ToSet(SplitPlan(c).splits) :
             w.kind = "WALK_FORWARD" =>
               w.design[2] + c.walkForward.purge + c.walkForward.embargo < w.evaluation[1]
        /\ \A i, j \in pooled :
             i # j => ToSet(splits[i].backtest.sessions) \cap ToSet(splits[j].backtest.sessions) = {}}

(* Nothing of the holdout is read before the registry opens it: no trial   *)
(* of it is recorded, every other run of the evaluation stays clear of its *)
(* days, the walk-forward windows follow their own design windows and the  *)
(* gap, and no session is pooled for two of them (walkforward.ts, evaluate *)
(* 254, aggregate.ts 374).                                                 *)
HoldoutStaysSealed ==
  /\ Registered(KeepsApart)
  /\ \A i \in DOMAIN trials : trials[i].kind = "HOLDOUT" => experiments[trials[i].experiment].opened

Measured(d, run) ==
  LET points == run.backtest.secondary2.points
  IN /\ run.backtest.secondary2.exact
     /\ points[1].session = run.backtest.sessions[1] /\ Last(points).session = Last(run.backtest.sessions)
     /\ \A i \in DOMAIN run.backtest.points : \A x \in run.backtest.points[i].held :
          \E r \in Market(d).rows[x] : r.session = run.backtest.points[i].session /\ ~r.stale

RejectsOnEvidence ==
  {d \in Definitions :
     \A evaluation \in {Evaluations[d]} : \A a \in evaluation.aggregate :
       ~evaluation.err /\ a.verdict = "REJECT" =>
         \A w \in ToSet(SplitPlan(Charter(d)).splits) :
           w.kind = "WALK_FORWARD" =>
             \E run \in RunsIn(evaluation) : run.evaluation = w.evaluation /\ Measured(d, run)}

(* A rejection rests on the whole schedule, measured: in every planned     *)
(* window each instrument the book held had a bar of its own that day, and *)
(* the comparator was exact, from the window's first to its last session   *)
(* (aggregate.ts 404-560).                                                 *)
RejectionIsMeasured == Registered(RejectsOnEvidence)

(* A bar of a session that offers an order of one share none of its volume.*)
OffersNone(bars, session) ==
  \E i \in DOMAIN bars : bars[i].session = session /\ ParticipationCap(bars[i].volume) < 1

FillsAlike ==
  {d \in Definitions :
     \A run \in RunsOf(d) : \A at \in ToSet(run.backtest.secondary2.placed) :
       LET fills == SimulateFill([side |-> "BUY", qty |-> 1], run.backtest.primaryBars, at.decided,
                                 Charter(d).delay, MaxFillBars).fills
       IN fills # <<>> => \/ fills[1].session = at.at.session
                          \/ OffersNone(run.backtest.primaryBars, at.at.session)}

(* The comparator takes a weight where the fill simulator would first have *)
(* bought a share for the same decision: neither acquires before the other,*)
(* unless that session traded too little to be given a share (backtest.ts  *)
(* 356-412).                                                               *)
ComparatorFillsWithUs == Registered(FillsAlike)

(* The incumbents that keep their slot and rank above x.                   *)
IncumbentsAbove(c, x) ==
  {y \in ToSet(c.selected) \ c.entries : RankOf(c.ranking, y) < RankOf(c.ranking, x)}

KeepsTheRules ==
  {d \in Definitions :
     \A run \in RunsOf(d) : \A decision \in ToSet(run.backtest.decisions) :
       LET c == decision.cand
       IN /\ Len(c.selected) <= MaxPositions /\ Cardinality(c.entries) <= MaxNewPositions
          /\ \A cl \in Clusters : Cardinality(cl \cap ToSet(c.selected)) <= MaxMembers
          /\ \A x \in c.exits \cap ToSet(c.ranking) :
               \/ RankOf(c.ranking, x) > HoldRank \/ x \in c.clusterFull
               \/ Cardinality(IncumbentsAbove(c, x)) >= MaxPositions}

(* The book never outgrows the rules: its size, the members of a cluster,  *)
(* the newcomers of one decision; and an incumbent that still ranks within *)
(* the hold band leaves only to its cluster, or to a whole book of other   *)
(* incumbents that rank above it (candidates.ts 138-319).                  *)
BookRules == Registered(KeepsTheRules)

-----------------------------------------------------------------------------
(* What a decision knows.  The same loop, ended on the day of the decision *)
(* over the store as it stood that day, is what could have been run then.  *)

KnownBy(known, at) == [e \in Universe |-> {x \in known[e] : x.known <= at}]

LoopOf(in, days) ==
  RunThrough(in, Tabulated([e \in Universe |-> LoadExecutionSeries(in, e, in.from, in.to, in.to)]), days)

OnTheDay(d, range, session) ==
  LoopOf([InputOf(d, range) EXCEPT !.rows = KnownBy(@, session), !.actions = KnownBy(@, session), !.to = session],
         WeeklyDecisionSessions(range[1], session))

UpTo(d, range, session) ==
  LoopOf(InputOf(d, range), SelectSeq(WeeklyDecisionSessions(range[1], range[2]), LAMBDA s : s < session))

(* An order of an earlier decision is filled after a session, or something *)
(* about the sessions up to it becomes known later in the window.          *)
Disturbed(d, range, session) ==
  \/ \E event \in ToSet(UpTo(d, range, session).events) : event.session > session
  \/ \E e \in Universe :
       \/ \E r \in Market(d).rows[e] : r.session <= session /\ session < r.known /\ r.known <= range[2]
       \/ \E a \in Market(d).actions[e] : a.ex <= session /\ session < a.known /\ a.known <= range[2]

(* A decision of a run of an evaluation, and the one of the day.           *)
Recalled(d, range, decision) ==
  [decided |-> decision, disturbed |-> Disturbed(d, range, decision.session),
   then |-> {x \in ToSet(OnTheDay(d, range, decision.session).decisions) : x.session = decision.session}]

RecalledIn(d, run) == {Recalled(d, run.evaluation, x) : x \in ToSet(run.backtest.decisions)}

InHindsight == [d \in Definitions |-> UNION {RecalledIn(d, run) : run \in RunsOf(d)}]

(* The same ranking, and the same weights for the same selection.          *)
RanksAlike(a, b) ==
  /\ a.anchor = b.anchor /\ a.cand.ranking = b.cand.ranking
  /\ a.cand.selected = b.cand.selected => a.weights = b.weights

RanksWhatWasKnown ==
  {d \in Definitions : \A x \in InHindsight[d] : \A then \in x.then : RanksAlike(then, x.decided)}

(* Which instruments a decision ranks, in which order, and the weights it  *)
(* gives to those it selects, are what they would have been on the day,    *)
(* whatever is revised, restated or listed later in the window             *)
(* (backtest.ts 476-477).                                                  *)
RankingsNeverLookAhead == Registered(RanksWhatWasKnown)

StandsUndisturbed ==
  {d \in Definitions : \A x \in InHindsight[d] : x.disturbed \/ x.decided \in x.then}

(* Nothing else reads a later session: a decision that no later fill and   *)
(* no later row of an earlier session reaches is, with its value, cash,    *)
(* weights and orders, the one of the day (backtest.ts 466-656).           *)
UndisturbedDecisionsStand == Registered(StandsUndisturbed)

ReadsNoLaterSession == {d \in Definitions : \A x \in InHindsight[d] : x.decided \in x.then}

(* backtest.ts 25-26, as the comment says it: nothing in the loop reads a  *)
(* later session, so every decision is the one of the day.                 *)
NothingReadsALaterSession == Registered(ReadsNoLaterSession)

=============================================================================
