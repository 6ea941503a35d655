------------------------------- MODULE Ledger -------------------------------
(***************************************************************************)
(* The hash-chained event ledger (packages/core/src/ledger/ledger.ts), the *)
(* jobs and commands that append to it, the scheduled seal job (serve.ts)  *)
(* and the manual seal command (main.ts).                                  *)
(*                                                                         *)
(* An event is its instant; its sequence number is its position.  The      *)
(* table refuses UPDATE and DELETE, and a hash stands for what it covers:  *)
(* the root of a day is the set of the sequence numbers it is made of.     *)
(***************************************************************************)
EXTENDS Integers, Sequences, FiniteSets

CONSTANTS Writers,      \* jobs and commands that append
          Sealers,      \* processes that run the seal job
          PerDay,       \* instants in a UTC day
          GraceDays,    \* SEAL_GRACE_DAYS
          ManualDays,   \* how many days back the seal command seals
          MaxTime,      \* bound on the clock
          MaxEvents,    \* bound on the events of writers
          MaxCrashes    \* bound: seal jobs die so many times in all

ASSUME DayAssumption ==
  PerDay \in Nat \ {0} /\ GraceDays \in Nat /\ ManualDays \subseteq Nat
ASSUME BoundsAssumption ==
  MaxTime \in Nat /\ MaxEvents \in Nat /\ MaxCrashes \in Nat

VARIABLES clock,
          events,    \* ledger_events
          seals,     \* ledger_seals: the root of each sealed date
          stamp,     \* stamp[w]: the instant w captured for its next event
          job,       \* job[s]: the seal job of process s
          crashes

vars == <<clock, events, seals, stamp, job, crashes>>

Never == -1

NoJob == [pc |-> "idle", now |-> 0, pending |-> {}]

Job == [pc : {"idle", "seal"}, now : Nat, pending : SUBSET Int]

TypeOK ==
  /\ clock \in Nat /\ crashes \in Nat
  /\ events \in Seq(Nat)
  /\ DOMAIN seals \subseteq Int
  /\ \A d \in DOMAIN seals : seals[d] \subseteq DOMAIN events
  /\ stamp \in [Writers -> Nat \cup {Never}]
  /\ job \in [Sealers -> Job]

Init ==
  /\ clock = 0 /\ crashes = 0
  /\ events = <<>>
  /\ seals = [d \in {} |-> {}]
  /\ stamp = [w \in Writers |-> Never]
  /\ job = [s \in Sealers |-> NoJob]

-----------------------------------------------------------------------------
(* The ledger.                                                             *)

DateOf(t) == t \div PerDay

Sealed(d) == d \in DOMAIN seals

EventsOnDate(d) == {seq \in DOMAIN events : DateOf(events[seq]) = d}

EventDates == {DateOf(events[seq]) : seq \in DOMAIN events}

(* Slip: only the newest day is looked for.                                *)
UnsealedDatesNewest(through) ==
  {d \in EventDates : d = through /\ ~Sealed(d)}

UnsealedDates(through) == {d \in EventDates : d <= through /\ ~Sealed(d)}

(* Slip: the grace window is forgotten.                                    *)
SealThroughYesterday(now) == DateOf(now) - 1

SealThrough(now) == DateOf(now) - (1 + GraceDays)

(* Slip: a sealed day takes events.                                        *)
AppendAnyway(at) == events' = Append(events, at)

(* The append is refused on a sealed date, in the transaction that writes. *)
AppendEvent(at) ==
  events' = IF Sealed(DateOf(at)) THEN events ELSE Append(events, at)

(* A sealed day keeps its seal.                                            *)
SealDaily(d) ==
  seals' = [e \in DOMAIN seals \cup {d} |->
              IF Sealed(e) THEN seals[e] ELSE EventsOnDate(e)]

(* sealDaily throws when the day's events changed after sealing.           *)
Mismatch(d) == Sealed(d) /\ seals[d] # EventsOnDate(d)

-----------------------------------------------------------------------------
(* Writers: a timestamp is captured, work is done, the event is appended.  *)

Capture(w) ==
  /\ stamp[w] = Never /\ Len(events) < MaxEvents
  /\ stamp' = [stamp EXCEPT ![w] = clock]
  /\ UNCHANGED <<clock, events, seals, job, crashes>>

Land(w) ==
  /\ stamp[w] # Never
  /\ AppendEvent(stamp[w])
  /\ stamp' = [stamp EXCEPT ![w] = Never]
  /\ UNCHANGED <<clock, seals, job, crashes>>

-----------------------------------------------------------------------------
(* The seal job: the backlog is listed, each day is sealed in a transaction
   of its own, and what was sealed is recorded.                            *)

SealStart(s) ==
  /\ job[s].pc = "idle"
  /\ LET pending == UnsealedDates(SealThrough(clock))
     IN  job' = IF pending = {} THEN job
                ELSE [job EXCEPT ![s] =
                       [pc |-> "seal", now |-> clock, pending |-> pending]]
  /\ UNCHANGED <<clock, events, seals, stamp, crashes>>

SealOne(s) ==
  /\ job[s].pc = "seal"
  /\ \E d \in job[s].pending :
       /\ \A e \in job[s].pending : d <= e
       /\ \/ /\ Mismatch(d)
             /\ job' = [job EXCEPT ![s] = NoJob]
             /\ UNCHANGED seals
          \/ /\ ~Mismatch(d)
             /\ SealDaily(d)
             /\ job' = [job EXCEPT ![s] =
                  [pc |-> "seal", now |-> @.now, pending |-> @.pending \ {d}]]
  /\ UNCHANGED <<clock, events, stamp, crashes>>

SealRecord(s) ==
  /\ job[s].pc = "seal" /\ job[s].pending = {}
  /\ AppendEvent(job[s].now)
  /\ job' = [job EXCEPT ![s] = NoJob]
  /\ UNCHANGED <<clock, seals, stamp, crashes>>

SealCrash(s) ==
  /\ job[s].pc # "idle" /\ crashes < MaxCrashes
  /\ crashes' = crashes + 1
  /\ job' = [job EXCEPT ![s] = NoJob]
  /\ UNCHANGED <<clock, events, seals, stamp>>

(* The seal command, for any day it is given; yesterday by default.        *)
ManualSeal(k) ==
  /\ ~Mismatch(DateOf(clock) - k)
  /\ SealDaily(DateOf(clock) - k)
  /\ UNCHANGED <<clock, events, stamp, job, crashes>>

Advance ==
  /\ clock < MaxTime
  /\ clock' = clock + 1
  /\ UNCHANGED <<events, seals, stamp, job, crashes>>

SealJob(s) == SealStart(s) \/ SealOne(s) \/ SealRecord(s)

Next ==
  \/ \E w \in Writers : Capture(w) \/ Land(w)
  \/ \E s \in Sealers : SealJob(s) \/ SealCrash(s)
  \/ \E k \in ManualDays : ManualSeal(k)
  \/ Advance

Spec == Init /\ [][Next]_vars

(* The scheduler runs the seal job again and again.                        *)
FairSpec == Spec /\ \A s \in Sealers : WF_vars(SealJob(s))

-----------------------------------------------------------------------------
(* What the ledger guarantees.                                             *)

(* A sealed day is never touched again: its root is the root of its events
   for ever (verifySeals), whatever stale stamps land after the seal, so
   sealDaily never throws.                                                 *)
SealsHold == \A d \in DOMAIN seals : seals[d] = EventsOnDate(d)

(* Stamps on their way to the ledger.                                      *)
Carried ==
  {stamp[w] : w \in {w \in Writers : stamp[w] # Never}}
  \cup {job[s].now : s \in {s \in Sealers : job[s].pc # "idle"}}

(* How many days of staleness the ways of sealing leave room for.          *)
SafeDays == {g \in 0..GraceDays : \A k \in ManualDays : g < k}

(* ledger.ts:55-64: the seal does not run so close behind the clock that it
   races a job still in flight: an event no staler than the grace window is
   not refused.                                                            *)
GraceHolds ==
  \A g \in SafeDays, t \in Carried :
    clock - t <= g * PerDay => ~Sealed(DateOf(t))

(* ledger.ts:193-195: a run of the job repairs every gap that missed runs
   and crashes left: no day past the grace window stays unsealed.          *)
BacklogIsSealed ==
  \A d \in 0..DateOf(MaxTime) :
    d \in UnsealedDates(SealThrough(clock)) ~> Sealed(d)

=============================================================================
