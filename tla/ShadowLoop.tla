------------------------------ MODULE ShadowLoop ------------------------------
(***************************************************************************)
(* The shadow decision loop: the decision job (packages/core/src/decision/ *)
(* shadow-job.ts, shadow-decision.ts) seals a decision of both arms on     *)
(* each weekly session, the fill job (shadow-fill-job.ts) records what its *)
(* orders would have filled and reconciles the ledgers after every         *)
(* session, and the owner re-arms a halted loop (shadow-halt.ts).          *)
(*                                                                         *)
(* Session s closes at instant 2s, which is also its decision instant; its *)
(* jobs are due at 2s+1 and the scheduler still starts them until, but not *)
(* at, 2s+3.  One process or several run the jobs of a session in the      *)
(* order of their ids; a handler of the decision job may be overtaken by   *)
(* the fill job of another process, and either may be lost in a crash.     *)
(***************************************************************************)
EXTENDS ShadowFills, ShadowHalt

CONSTANTS Sessions,   \* number of sessions
          Price,      \* opening and closing price of an entity and session
          ThinVolume, FullVolume, \* volumes of a bar
          Splits,     \* the splits of the window
          Passive,    \* target book of the passive arm
          Targets,    \* target books the strategy may reach in a session
          EntityRank, \* order of the entity ids
          FirstDays,  \* instants the experiment may have been registered at
          ReArmTargets, \* states an owner may ask for
          MaxTrouble,   \* bound of the troubles of a run: thin or absent bars,
                        \* late and lost runs, decisions that are blocked
          MaxReArms     \* bound of the owner's re-arms

ASSUME SessionsAssumption == Sessions \in Nat
ASSUME SplitsAssumption == Splits \in Seq(ToSet(Splits))

VARIABLES clock, bars, registered, sealed, outcomes, reconciles, reArms, runs, trouble

vars == <<clock, bars, registered, sealed, outcomes, reconciles, reArms, runs, trouble>>

CloseOf(s) == 2 * s
DecisionAt(s) == 2 * s
RunAt(s) == 2 * s + 1
Lookback == 2

Session == clock \div 2

Due(s) == RunAt(s) <= clock /\ clock < RunAt(s) + Lookback

Bar(e, s, kind) ==
  [session |-> s, open |-> Price[e][s], tradable |-> TRUE,
   close |-> IF kind = "fallen" THEN Price[e][s] - 3 ELSE Price[e][s],
   volume |-> IF kind = "thin" THEN ThinVolume ELSE FullVolume]

(* The first weekly decision instant, after a market without trouble.      *)
Init ==
  /\ clock = DecisionAt(Week) /\ registered \in FirstDays
  /\ bars = [e \in Entities |-> [s \in 1..Week |-> Bar(e, s, "good")]]
  /\ sealed = {} /\ outcomes = <<>> /\ reconciles = <<>> /\ reArms = <<>>
  /\ runs = [j \in {"decision", "fill"} |->
               [s \in 1..Sessions |-> [state |-> IF s < Week THEN "succeeded" ELSE "none", at |-> 0]]]
  /\ trouble = 0

Charge(n) == trouble' = trouble + n /\ trouble' <= MaxTrouble

(* A run that starts a tick late.                                          *)
ChargeLate(s) == Charge(clock - RunAt(s))

Finish(j, s, state) == runs' = [runs EXCEPT ![j][s] = [state |-> state, at |-> clock]]

-----------------------------------------------------------------------------
(* Time and the market.                                                    *)

WithBar(seen, e, s, kind) == IF kind = "absent" THEN seen ELSE Append(seen, Bar(e, s, kind))

(* What a bar costs of the run's troubles.                                 *)
TroubleOf(kind) == IF kind = "good" THEN 0 ELSE IF kind = "fallen" THEN 2 ELSE 1

(* A bar trades in full or thinly, closes low, or never arrives.           *)
NewBars ==
  \E kinds \in [Entities -> {"good", "thin", "fallen", "absent"}] :
    /\ Charge(MapThenSumSet(LAMBDA e : TroubleOf(kinds[e]), Entities))
    /\ bars' = [e \in Entities |-> WithBar(bars[e], e, Session + 1, kinds[e])]

(* The runs no tick starts any more once the clock moves on.               *)
LostRuns ==
  IF clock % 2 = 0 /\ Session > 1
    THEN {j \in DOMAIN runs : /\ runs[j][Session - 1].state = "none"
                              /\ j = "fill" \/ IsWeeklyDecisionSession(Session - 1)}
  ELSE {}

Tick ==
  /\ clock < 2 * Sessions + 1
  /\ clock' = clock + 1
  /\ \A s \in 1..Sessions : runs["decision"][s].state # "running"
  /\ IF clock % 2 = 1
       THEN NewBars
     ELSE Charge(Cardinality(LostRuns)) /\ UNCHANGED bars
  /\ UNCHANGED <<registered, sealed, outcomes, reconciles, reArms, runs>>

MarketThrough(s) ==
  [bars |-> [e \in Entities |-> ClosedBy(bars[e], s)],
   splits |-> Keeping(Splits, {i \in DOMAIN Splits : Splits[i].session <= s}), dividends |-> <<>>]

FillsOf(records, arm) ==
  FoldLeft(LAMBDA all, o : IF o.arm = arm THEN all \o o.fills ELSE all, <<>>, records)

FirstSession == IF sealed = {} THEN Session ELSE FirstSealed(sealed)

-----------------------------------------------------------------------------
(* The decision job.                                                       *)

(* The outcomes of the sleeve's earlier decisions, as of the instant.      *)
KnownOutcomes(s) ==
  SelectSeq(outcomes, LAMBDA o : /\ o.arm = SleeveArm /\ o.session < s
                                 /\ o.computedAt <= DecisionAt(s))

PriorSleeve(s) == {d \in sealed : d.arm = SleeveArm /\ d.session < s}

(* A prior decision without an outcome leaves the book unknown.            *)
BookIncomplete(s) ==
  \E d \in PriorSleeve(s) : ~\E o \in ToSet(KnownOutcomes(s)) : o.session = d.session

EmptyBook == [weights |-> <<>>, nav |-> 1, hwm |-> 1, start |-> 1]

CarriedShadowBook(s) ==
  IF PriorSleeve(s) = {} THEN EmptyBook
  ELSE ShadowBookStateAt(MarketThrough(s), FillsOf(KnownOutcomes(s), SleeveArm), FirstSession, s)

CarriedBookThrows(s) ==
  /\ PriorSleeve(s) # {}
  /\ BookAt(MarketThrough(s), FillsOf(KnownOutcomes(s), SleeveArm), s).err # "none"

HaltContext(s) == ShadowHaltContext(sealed, reconciles, reArms, DecisionAt(s), s)

DecisionFaults(s, stale) ==
  CollectFaults(CarriedShadowBook(s) @@ [known |-> TRUE],
    (IF stale \/ BookIncomplete(s) THEN {"STALE_INPUT"} ELSE {})
      \cup (IF HaltContext(s).unresolved # {} THEN {"RECONCILIATION_UNRESOLVED"} ELSE {}))

(* The records of both arms.  The passive arm's gate is the halt alone;    *)
(* clear is the rest of the sleeve's gate (DecisionGate).                  *)
ShadowDecisionRecords(s, now, weights, stale, clear) ==
  LET Record(halt, arm, w, risk) ==
        [arm |-> arm, at |-> DecisionAt(s), session |-> s, sealedAt |-> now, halt |-> halt,
         weights |-> w, newRisk |-> halt = "NORMAL" /\ risk]
      Records(halt) == {Record(halt, "B0_PASSIVE", Passive, TRUE),
                        Record(halt, "B1_DETERMINISTIC", weights, clear)}
  IN Records(DecisionHalt(HaltContext(s), reArms, DecisionFaults(s, stale)))

DecisionClaim(s) ==
  /\ Due(s) /\ IsWeeklyDecisionSession(s) /\ runs["decision"][s].state = "none"
  /\ Finish("decision", s, "running") /\ ChargeLate(s)
  /\ UNCHANGED <<clock, bars, registered, sealed, outcomes, reconciles, reArms>>

DecisionSkip(s) ==
  /\ runs["decision"][s].state = "running" /\ registered > DecisionAt(s)
  /\ Finish("decision", s, "succeeded")
  /\ UNCHANGED <<clock, bars, registered, sealed, outcomes, reconciles, reArms, trouble>>

(* The carried book fails to replay, or the charter file was replaced by   *)
(* one of another decision offset than the schedule was registered with,   *)
(* which fails the run whether or not the experiment is registered.        *)
DecisionThrow(s) ==
  /\ runs["decision"][s].state = "running" /\ Finish("decision", s, "failed")
  /\ Charge(IF registered <= DecisionAt(s) /\ CarriedBookThrows(s) THEN 0 ELSE 1)
  /\ UNCHANGED <<clock, bars, registered, sealed, outcomes, reconciles, reArms>>

(* Both arms and the ledger event in one transaction.                      *)
DecisionSeal(s) ==
  /\ runs["decision"][s].state = "running" /\ registered <= DecisionAt(s) /\ ~CarriedBookThrows(s)
  /\ \E weights \in Targets[s], stale, clear \in BOOLEAN :
       /\ stale => clear  \* one of them blocks as well as both
       /\ Charge(IF stale \/ ~clear THEN 1 ELSE 0)
       /\ sealed' = sealed \cup ShadowDecisionRecords(s, clock, weights, stale, clear)
  /\ Finish("decision", s, "succeeded")
  /\ UNCHANGED <<clock, bars, registered, outcomes, reconciles, reArms>>

(* The process dies in the handler: nothing is committed.                  *)
DecisionCrash(s) ==
  /\ runs["decision"][s].state = "running" /\ Charge(1)
  /\ Finish("decision", s, "pending")
  /\ UNCHANGED <<clock, bars, registered, sealed, outcomes, reconciles, reArms>>

-----------------------------------------------------------------------------
(* The fill job.                                                           *)

Recorded(records, d) == \E o \in ToSet(records) : o.arm = d.arm /\ o.session = d.session

DecisionBefore(a, b) ==
  a.session < b.session \/ (a.session = b.session /\ a.arm = "B0_PASSIVE" /\ b.arm # "B0_PASSIVE")

(* Those due and without an outcome, oldest first.                         *)
PendingDecisions(s) ==
  LET pending == {d \in sealed : ~Recorded(outcomes, d) /\ FillDueSession(d.session) <= s}
  IN Ranked(pending, {p \in pending \X pending : DecisionBefore(p[1], p[2])})

WindowOpen(market, d, unfilled) ==
  \E u \in unfilled : u.reason # "CASH" /\ ~FillWindowObserved(market.bars[u.entity], d.session)

OutcomeOf(market, records, d, now) ==
  LET Outcome(book, cf) ==
        [arm |-> d.arm, session |-> d.session, computedAt |-> now, fills |-> cf.fills,
         unfilled |-> cf.unfilled, err |-> book.err]
      Simulated(book) == Outcome(book, CounterfactualFills(d, book, market, d.session, EntityRank))
  IN Simulated(BookAt(market, FillsOf(records, d.arm), d.session))

(* Slip: a deferred decision does not hold back the arm's later ones.      *)
RecordOutcomeAhead(market, s, acc, d, o) ==
  IF o.err # "none" THEN [acc EXCEPT !.err = o.err]
  ELSE IF WindowOpen(market, d, o.unfilled) /\ FillOwedSession(d.session) > s THEN acc
  ELSE [acc EXCEPT !.records = Append(@, o)]

(* One pending decision and its outcome o: an outcome later bars could     *)
(* still change waits, and the arm's later decisions with it.              *)
RecordOutcome(market, s, acc, d, o) ==
  IF acc.err # "none" \/ d.arm \in acc.deferred THEN acc
  ELSE IF o.err # "none" THEN [acc EXCEPT !.err = o.err]
  ELSE IF WindowOpen(market, d, o.unfilled) /\ FillOwedSession(d.session) > s
    THEN [acc EXCEPT !.deferred = @ \cup {d.arm}]
  ELSE [acc EXCEPT !.records = Append(@, o)]

(* The pending decisions in turn, each after the outcomes of those before. *)
RecordOutcomes(s) ==
  LET market == MarketThrough(s)
      pending == PendingDecisions(s)
      Step(acc, d) == RecordOutcome(market, s, acc, d, OutcomeOf(market, acc.records, d, clock))
      pass[n \in 0..Len(pending)] ==
        IF n = 0 THEN [records |-> outcomes, deferred |-> {}, err |-> "none"]
        ELSE Step(pass[n - 1], pending[n])
  IN pass[Len(pending)]

FillPass(s) ==
  LET market == MarketThrough(s)
      Points(records) ==
        UNION {{[arm |-> arm, session |-> p.session, cash |-> p.cash, err |-> p.err] :
                  p \in ToSet(ReplayShadowArm(market, FillsOf(records, arm), FirstSession, s))} : arm \in Arms}
      Checked(done, points) ==
        LET broken == \E p \in points : p.err # "none"
        IN [records |-> done.records, err |-> done.err # "none" \/ broken,
            breaks |-> IF broken THEN {}
                       ELSE ReconcileShadow(sealed, ToSet(done.records), s, points)]
      Pass(done) == Checked(done, Points(done.records))
  IN Pass(RecordOutcomes(s))

(* The fill job follows the decision job of its session in a tick.         *)
FillDue(s) ==
  /\ Due(s) /\ runs["fill"][s].state = "none"
  /\ IsWeeklyDecisionSession(s) => runs["decision"][s].state # "none"

FillIdle(s) ==
  /\ FillDue(s) /\ sealed = {} /\ Finish("fill", s, "succeeded") /\ ChargeLate(s)
  /\ UNCHANGED <<clock, bars, registered, sealed, outcomes, reconciles, reArms>>

(* A replay that throws rolls the transaction back.                        *)
FillRun(s) ==
  /\ FillDue(s) /\ sealed # {} /\ ChargeLate(s)
  /\ \E pass \in {FillPass(s)} :
       \/ /\ pass.err /\ Finish("fill", s, "failed") /\ UNCHANGED <<outcomes, reconciles>>
       \/ /\ ~pass.err /\ Finish("fill", s, "succeeded")
          /\ outcomes' = pass.records
          /\ reconciles' = Append(reconciles, [session |-> s, at |-> clock, breaks |-> pass.breaks])
  /\ UNCHANGED <<clock, bars, registered, sealed, reArms>>

-----------------------------------------------------------------------------
(* The owner, and the status the owner reads.                              *)

(* The owner has no reason to act before the ledgers show one.             *)
ShowsTrouble ==
  (\E d \in sealed : d.halt # "NORMAL") \/ ReportedBreaks(reconciles, clock) # {}

ReArm ==
  /\ Len(reArms) < MaxReArms /\ ShowsTrouble
  /\ \E to \in ReArmTargets, acks \in {{}, ReportedBreaks(reconciles, clock)} :
       /\ ReArmAccepted(reconciles, to, acks, clock)
       /\ reArms' = Append(reArms, [to |-> to, at |-> clock, acks |-> acks])
  /\ UNCHANGED <<clock, bars, registered, sealed, outcomes, reconciles, runs, trouble>>

SealedWhole(s) == \A arm \in Arms : \E d \in sealed : d.arm = arm /\ d.session = s

(* Slip: an instant whose run has not started is over when it has passed.  *)
InstantOverAtOnce(s) ==
  \/ SealedWhole(s)
  \/ runs["decision"][s].state = "none" /\ RunAt(s) <= clock
  \/ runs["decision"][s].state \in {"succeeded", "failed"}
  \/ runs["decision"][s].state \in {"running", "pending"} /\ runs["decision"][s].at < clock

InstantOver(s) ==
  \/ SealedWhole(s)
  \/ runs["decision"][s].state = "none" /\ RunAt(s) + Lookback <= clock
  \/ runs["decision"][s].state \in {"succeeded", "failed"}
  \/ runs["decision"][s].state \in {"running", "pending"} /\ runs["decision"][s].at < clock

(* The decision the status speaks of, 0 beyond the last session.           *)
UpcomingShadowDecision ==
  LET open == {s \in 1..Sessions : IsWeeklyDecisionSession(s) /\ ~InstantOver(s)}
  IN IF open = {} THEN 0 ELSE CHOOSE s \in open : \A x \in open : s <= x

-----------------------------------------------------------------------------
Next ==
  \/ Tick \/ ReArm
  \/ \E s \in 1..Sessions :
       \/ DecisionClaim(s) \/ DecisionSkip(s) \/ DecisionThrow(s) \/ DecisionSeal(s)
       \/ DecisionCrash(s) \/ FillIdle(s) \/ FillRun(s)

Spec == Init /\ [][Next]_vars

-----------------------------------------------------------------------------
(* Properties.                                                             *)

(* A halt is sticky: between any two decisions the state relaxes by at     *)
(* most one step for each re-arm the owner issued between their instants   *)
(* (shadow-decision.ts haltInputOf, shadow-halt.ts).                       *)
HaltsAreSticky ==
  \A d, e \in sealed :
    d.session < e.session =>
      FaultRank(e.halt) + Cardinality({i \in DOMAIN reArms : d.at < reArms[i].at /\ reArms[i].at <= e.at})
        >= FaultRank(d.halt)

(* A break that first appeared in an earlier session, that every reconcile  *)
(* up to the decision instant has reported since, and that no re-arm has   *)
(* acknowledged since, holds both arms (shadow-halt.ts, D-54).             *)
UnresolvedBreaksHold ==
  \A d \in sealed :
    \A i \in DOMAIN reconciles :
      \A code \in reconciles[i].breaks :
        (/\ reconciles[i].session < d.session /\ reconciles[i].at <= d.at
         /\ i > 1 => code \notin reconciles[i - 1].breaks
         /\ \A j \in i..Len(reconciles) :
              reconciles[j].at <= d.at => code \in reconciles[j].breaks
         /\ \A k \in DOMAIN reArms :
              code \in reArms[k].acks => reArms[k].at < reconciles[i].at \/ reArms[k].at > d.at)
        => d.halt = "HOLD_ONLY"

(* An arm's outcomes are recorded in the order of its decisions, and never *)
(* one while an older one is still open: each is simulated from a book     *)
(* that holds all the earlier fills (shadow-fill-job.ts 130-152).          *)
OutcomesInOrder ==
  \A i \in DOMAIN outcomes :
    \A d \in sealed :
      d.arm = outcomes[i].arm /\ d.session < outcomes[i].session =>
        \E j \in 1..(i - 1) : outcomes[j].arm = d.arm /\ outcomes[j].session = d.session

(* A remainder that is legitimately deferred never reads as a missing      *)
(* record (shadow-reconcile.ts fillOwedSession, shared by both jobs).      *)
DeferralIsNoBreak ==
  \A i \in DOMAIN reconciles : \A b \in reconciles[i].breaks : b[1] # "MISSING_FILL_RECORD"

(* A gap that any arm leaves behind is reported by every reconcile of a    *)
(* later session: an arm that never sealed cannot hide its own gaps.       *)
GapsAreReported ==
  \A i \in DOMAIN reconciles :
    \A s \in 1..reconciles[i].session :
      \A arm \in Arms :
        (/\ IsWeeklyDecisionSession(s) /\ \E d \in sealed : d.session <= s /\ d.sealedAt <= reconciles[i].at
         /\ RunAt(s) + Lookback <= clock /\ ~\E d \in sealed : d.arm = arm /\ d.session = s)
        => <<"MISSING_DECISION_RECORD", arm, s>> \in reconciles[i].breaks

(* What the sealed gate forbade is in no recorded fill: a held book does   *)
(* not trade, and a decision without new risk buys nothing.                *)
FrozenBookStaysFrozen ==
  \A i \in DOMAIN outcomes :
    \A d \in sealed :
      d.arm = outcomes[i].arm /\ d.session = outcomes[i].session =>
        /\ d.halt = "HOLD_ONLY" => outcomes[i].fills = <<>>
        /\ \A k \in DOMAIN outcomes[i].fills : outcomes[i].fills[k].side = "BUY" => d.newRisk

(* The decision that is claimed, or sealed, is the one the owner's status  *)
(* named before: the status never skips an instant that can still be       *)
(* decided, late and crashed runs included (shadow-job.ts                  *)
(* upcomingShadowDecision).                                                *)
SealsTheUpcoming ==
  [][\A s \in 1..Sessions :
       \/ \E d \in sealed' \ sealed : d.session = s
       \/ runs["decision"][s].state = "none" /\ runs'["decision"][s].state = "running"
       => s = UpcomingShadowDecision]_vars

=============================================================================
