------------------------------ MODULE ShadowHalt -----------------------------
(***************************************************************************)
(* The halt inputs of a shadow decision, read back from the append-only    *)
(* ledgers (packages/core/src/decision/shadow-halt.ts), and the state a    *)
(* decision reaches from them (haltInputOf of shadow-decision.ts).         *)
(*                                                                         *)
(* A reconcile is [session, at, breaks], a re-arm [to, at, acks], both in  *)
(* the order of their instants, as the event ledger holds them; a sealed   *)
(* decision is [arm, at, sealedAt, halt].                                  *)
(***************************************************************************)
EXTENDS Integers, Sequences, HaltMachine

(* The places of a log that are known by an instant.                       *)
KnownBy(log, t) == {i \in DOMAIN log : log[i].at <= t}

Latest(log, t) == CHOOSE i \in KnownBy(log, t) : \A j \in KnownBy(log, t) : j <= i

ReportedBreaks(log, t) == IF KnownBy(log, t) = {} THEN {} ELSE log[Latest(log, t)].breaks

(* The current occurrence of a break is the unbroken run of reconciles, up *)
(* to the latest, that report it; this is the place where it begins.       *)
FirstReport(log, t, code) ==
  CHOOSE i \in KnownBy(log, t) :
    /\ \A j \in KnownBy(log, t) : j >= i => code \in log[j].breaks
    /\ i = 1 \/ code \notin log[i - 1].breaks

Acknowledged(log, reArms, t, code) ==
  \E k \in KnownBy(reArms, t) :
    code \in reArms[k].acks /\ reArms[k].at >= log[FirstReport(log, t, code)].at

OpenBreaks(log, reArms, t) ==
  {code \in ReportedBreaks(log, t) : ~Acknowledged(log, reArms, t, code)}

(* Slip: a break has a week before it holds the book.                      *)
UnresolvedBreaksLater(log, reArms, t, session) ==
  {code \in OpenBreaks(log, reArms, t) : log[FirstReport(log, t, code)].session + 2 < session}

UnresolvedBreaks(log, reArms, t, session) ==
  {code \in OpenBreaks(log, reArms, t) : log[FirstReport(log, t, code)].session < session}

(* The latest decision before the instant that was sealed by it, each arm. *)
PreviousSealed(sealed, t) ==
  LET before == {d \in sealed : d.at < t /\ d.sealedAt <= t}
  IN {d \in before : \A x \in before : x.at <= d.at}

AsFaultState(s) == IF s \in FaultStates THEN s ELSE "HOLD_ONLY"

CurrentHalt(previous) ==
  FromRank(IF \E d \in previous : AsFaultState(d.halt) = "HOLD_ONLY" THEN 2
           ELSE IF \E d \in previous : AsFaultState(d.halt) = "HALT_NEW_RISK" THEN 1 ELSE 0)

(* Slip: the re-arms of before the previous decision are applied again.    *)
ReArmsEver(reArms, t, previous) == KnownBy(reArms, t)

ReArmsSince(reArms, t, previous) ==
  {k \in KnownBy(reArms, t) : \A d \in previous : reArms[k].at > d.at}

(* What a decision at instant t of a session starts from.                  *)
ShadowHaltContext(sealed, reconciles, reArms, t, session) ==
  [current |-> CurrentHalt(PreviousSealed(sealed, t)),
   reArms |-> ReArmsSince(reArms, t, PreviousSealed(sealed, t)),
   unresolved |-> UnresolvedBreaks(reconciles, reArms, t, session),
   fresh |-> OpenBreaks(reconciles, reArms, t) \ UnresolvedBreaks(reconciles, reArms, t, session),
   acknowledged |-> ReportedBreaks(reconciles, t) \ OpenBreaks(reconciles, reArms, t)]

(* Each re-arm of the context in turn, staged and clamped to the faults.   *)
HaltInput(context, reArms, faults) ==
  LET state[k \in 0..Len(reArms)] ==
        IF k = 0 THEN context.current
        ELSE IF k \in context.reArms THEN EvaluateHaltState(state[k - 1], faults, reArms[k].to, FALSE)
        ELSE state[k - 1]
  IN state[Len(reArms)]

DecisionHalt(context, reArms, faults) ==
  EvaluateHaltState(HaltInput(context, reArms, faults), faults, "none", FALSE)

(* The CLI takes a re-arm whose acknowledged breaks the latest reported.   *)
ReArmAccepted(reconciles, to, acks, now) ==
  to \in FaultStates /\ acks \subseteq ReportedBreaks(reconciles, now)

=============================================================================
