--------------------------------- MODULE Analyst ---------------------------------
(***************************************************************************)
(* One call of the analyst (packages/core/src/analyst, model, research/    *)
(* packet.ts, assessment.ts, model-call-log.ts): a packet of evidence, a   *)
(* bounded number of attempts behind a budget and a circuit breaker, an    *)
(* assessment or an abstention, one row in the log of calls; and what an   *)
(* arm of the experiment does with the assessments.                        *)
(*                                                                         *)
(* A fact is [id, marks] and a mark "secret" or "currency"; what a model   *)
(* says is [shape, abstain, reasoned, thesis, pro, con, factors], and what *)
(* the provider answers is [kind, model, said, cost]. Every amount is in   *)
(* the unit of the budgets.                                                *)
(***************************************************************************)
EXTENDS Integers, FiniteSets, Sequences, SequencesExt

CONSTANTS Pinned,         \* the model of the manifest
          Threshold,      \* failures in a row that open the breaker
          MaxAttempts

ASSUME AttemptsAssumption == Threshold \in Nat \ {0} /\ MaxAttempts \in Nat \ {0}

-----------------------------------------------------------------------------
(* The packet.                                                             *)

PacketSerializable(packet) ==
  /\ "currency" \notin packet.marks /\ "secret" \notin packet.marks
  /\ \A f \in packet.facts : "secret" \notin f.marks

(* Rows are what asOf returns for each source; a fact cites its row.       *)
BuildEvidencePacket(rows, marks) ==
  [facts |-> {[id |-> r.id, marks |-> r.marks] : r \in rows}, marks |-> marks]

PacketSourceIds(packet) == {f.id : f \in packet.facts}

-----------------------------------------------------------------------------
(* What the model says.                                                    *)

ValidateAssessment(said, ids, factors) ==
  IF ~said.shape THEN "SCHEMA_INVALID"
  ELSE IF said.abstain THEN IF said.reasoned THEN "ABSTAINED" ELSE "MISSING_ABSTAIN_REASON"
  ELSE IF ~said.thesis THEN "EMPTY_THESIS"
  ELSE IF ~(said.pro \cup said.con \subseteq ids) THEN "CITATION_UNRESOLVED"
  ELSE IF said.factors # factors THEN "FACTOR_MISMATCH"
  ELSE "VALID"

(* Every failure of the provider is one error; a text that is no JSON is   *)
(* handed on for validation to refuse, and a missing model is not pinned.  *)
Completion(answer) ==
  [unavailable |-> answer.kind \in {"network", "aborted", "status", "not_json", "refusal"},
   late |-> answer.kind = "late", model |-> answer.model, said |-> answer.said, cost |-> answer.cost]

(* A pinned model resolves to an entry whose prices were checked lately.   *)
ResolveModelEntry(manifest, model, now, maxAge) ==
  {e \in manifest : e.model = model /\ now - e.checkedAt <= maxAge}

-----------------------------------------------------------------------------
(* The breaker and the attempts.                                           *)

Closed == [failures |-> 0, open |-> FALSE]

Failure(breaker) ==
  [failures |-> breaker.failures + 1, open |-> breaker.open \/ breaker.failures + 1 >= Threshold]

(* The calls of one run so far: how many, how the last one failed, and the *)
(* result once there is one.                                               *)
Attempt(run, answer, packet, factors) ==
  LET got == Completion(answer)
      verdict == ValidateAssessment(got.said, PacketSourceIds(packet), factors)
      tried == [run EXCEPT !.attempts = @ + 1]
      done(code, breaker, validation) ==
        [tried EXCEPT !.code = code, !.breaker = breaker, !.validation = validation, !.cost = got.cost]
  IN IF run.code # "none" THEN run
     ELSE IF got.unavailable THEN [tried EXCEPT !.breaker = Failure(@), !.last = "MODEL_UNAVAILABLE"]
     ELSE IF got.late THEN [tried EXCEPT !.breaker = Failure(@), !.last = "DEADLINE_EXCEEDED"]
     ELSE IF got.model # Pinned THEN done("MODEL_ID_MISMATCH", Failure(run.breaker), "not_reached")
     ELSE IF verdict = "ABSTAINED" THEN done("MODEL_ABSTAINED", Closed, "abstained")
     ELSE IF verdict = "VALID" THEN done("ASSESSED", Closed, "valid")
     ELSE done("INVALID_OUTPUT", Failure(run.breaker), "invalid")

(* The answers are those the provider would give to each attempt in turn.  *)
RunAssessment(packet, factors, breaker, budget, answers) ==
  LET start == [code |-> "none", attempts |-> 0, last |-> "MODEL_UNAVAILABLE", breaker |-> breaker, cost |-> 0,
                validation |-> "not_reached"]
      ran == FoldLeft(LAMBDA run, a : Attempt(run, a, packet, factors), start, SubSeq(answers, 1, MaxAttempts))
  IN IF budget.today >= budget.perDay \/ budget.month >= budget.perMonth
     THEN [start EXCEPT !.code = "BUDGET_EXCEEDED"]
     ELSE IF breaker.open THEN [start EXCEPT !.code = "CIRCUIT_OPEN"]
     ELSE IF ran.code = "none" THEN [ran EXCEPT !.code = ran.last] ELSE ran

-----------------------------------------------------------------------------
(* The log of calls.                                                       *)

Total(costs) == FoldLeft(LAMBDA sum, c : sum + c, 0, costs)

ModelCallSpend(log, day, month) ==
  [today |-> Total([i \in DOMAIN SelectSeq(log, LAMBDA r : r.day = day) |->
                      SelectSeq(log, LAMBDA r : r.day = day)[i].cost]),
   month |-> Total([i \in DOMAIN SelectSeq(log, LAMBDA r : r.month = month) |->
                      SelectSeq(log, LAMBDA r : r.month = month)[i].cost])]

(* One row for every run, an abstention too; a replay is labelled. A packet*)
(* that may not be sent ends the run before any call, and leaves no row.   *)
RunAnalyst(log, at, rows, marks, factors, breaker, limits, answers, mode) ==
  LET spend == ModelCallSpend(log, at.day, at.month)
      packet == BuildEvidencePacket(rows, marks)
      result == RunAssessment(packet, factors, breaker,
                  [today |-> spend.today, month |-> spend.month, perDay |-> limits.perDay, perMonth |-> limits.perMonth],
                  answers)
      row == [day |-> at.day, month |-> at.month, cost |-> result.cost, code |-> result.code, attempts |-> result.attempts,
              validation |-> result.validation, contaminated |-> mode = "HISTORICAL_REPLAY"]
  IN IF PacketSerializable(packet)
     THEN [log |-> Append(log, row), breaker |-> result.breaker, code |-> result.code]
     ELSE [log |-> log, breaker |-> breaker, code |-> "REFUSED"]

-----------------------------------------------------------------------------
(* The arms. An assessment is what was said, or absent.                    *)

SubtractiveVetoRule(a) == ~(a.assessed /\ ~a.abstain /\ a.con # {} /\ a.pro = {})

Abstained == [assessed |-> FALSE, abstain |-> TRUE, pro |-> {}, con |-> {}]

LabelsForMode(mode) == IF mode = "HISTORICAL_REPLAY" THEN {"HISTORICAL_REPLAY_CONTAMINATED"} ELSE {}

ApplyOverlay(selected, assessments, mode) ==
  [arm |-> "C1", labels |-> LabelsForMode(mode),
   selected |-> SelectSeq(selected, LAMBDA c : SubtractiveVetoRule(IF c \in DOMAIN assessments THEN assessments[c] ELSE Abstained))]

ShadowSelection(assessments, mode) ==
  [arm |-> "D1", labels |-> LabelsForMode(mode),
   selected |-> {c \in DOMAIN assessments : assessments[c].assessed /\ ~assessments[c].abstain
                                            /\ assessments[c].pro # {} /\ assessments[c].con = {}}]

=============================================================================
