------------------------- MODULE Leakage -------------------------
(***************************************************************************)
(* What a row is worth as evidence, and whether a decision could have read *)
(* it.                                                                     *)
(***************************************************************************)
EXTENDS Integers, FiniteSets, FiniteSetsExt, SequencesExt

-----------------------------------------------------------------------------
(***************************************************************************)
(* The data-quality codes (packages/core/src/data/quality.ts): which may   *)
(* be read by a decision, and which a run cited for a promotion may carry. *)
(***************************************************************************)

ExcludedCodes == {"STALE", "SCHEMA_DRIFT", "TEMPORAL_INVERSION", "ARTIFACT_MISSING", "UNKNOWN_ENTITY"}

BarringCodes == {"SCHEMA_DRIFT", "TEMPORAL_INVERSION", "ARTIFACT_MISSING", "UNKNOWN_ENTITY",
                 "SURVIVORSHIP_BIASED", "OPTIMISTIC_DELAY", "UNVERIFIED_SINGLE_SOURCE"}

BlocksPromotionEvidence(codes) == codes \cap BarringCodes

ExcludesFromDecisions(codes) == codes \cap ExcludedCodes # {}

-----------------------------------------------------------------------------
(***************************************************************************)
(* The leakage auditor (packages/core/src/research/leakage.ts): a second   *)
(* check, from the rule, of every read a decision made.  A read is         *)
(* [source, at, delay, rows], where a row has the instant known from which *)
(* the store serves it, and labels.                                        *)
(***************************************************************************)

CONSTANT DefaultDelay(_)   \* of a source

NoMargin == 1000000

NewAudit == [latest |-> <<>>, violations |-> {}, margin |-> NoMargin, reads |-> 0, rows |-> 0,
             labels |-> {}, sources |-> {}, zeroDelay |-> {}]

(* One read: the reads of a source go forward in time, its declared delay  *)
(* is not dropped, and each row was public with the delay to spare.        *)
AuditRead(audit, read) ==
  LET margins == {read.at - (row.known + read.delay) : row \in read.rows}
      back == read.source \in DOMAIN audit.latest /\ read.at < audit.latest[read.source]
      found == (IF back THEN {"NON_MONOTONIC_DECISION_ORDER"} ELSE {})
               \cup (IF read.delay = 0 /\ DefaultDelay(read.source) > 0 THEN {"ZERO_DECLARED_DELAY"} ELSE {})
               \cup (IF \E m \in margins : m < 0 THEN {"FUTURE_AVAILABILITY"} ELSE {})
  IN [latest |-> IF back THEN audit.latest
                 ELSE [s \in DOMAIN audit.latest \cup {read.source} |->
                         IF s = read.source THEN read.at ELSE audit.latest[s]],
      violations |-> audit.violations \cup found,
      margin |-> Min(margins \cup {audit.margin}),
      reads |-> audit.reads + 1, rows |-> audit.rows + Cardinality(read.rows),
      labels |-> audit.labels \cup read.labels, sources |-> audit.sources \cup {read.source},
      zeroDelay |-> audit.zeroDelay \cup (IF read.delay = 0 THEN {read.source} ELSE {})]

(* Rows dated after the decision's own session, which no store can refuse. *)
CheckEffectiveSessions(audit, session, rows) ==
  IF \E row \in rows : row.session > session
    THEN [audit EXCEPT !.violations = @ \cup {"FUTURE_EFFECTIVE_SESSION"}] ELSE audit

AuditReport(audit) ==
  [violations |-> audit.violations, margin |-> audit.margin, labels |-> audit.labels,
   zeroDelay |-> audit.zeroDelay, clean |-> audit.violations = {}]

=============================================================================
