---------------------------- MODULE RecordProofs ----------------------------
(***************************************************************************)
(* Theorems about what is kept on record: the ledger, for any writers and  *)
(* seal jobs, any length of the day, any grace window and any days the     *)
(* seal command is given; and the registry of experiments, for any         *)
(* definitions, markets and charters.                                      *)
(***************************************************************************)
EXTENDS Ledger, Research, FiniteSetTheorems, SequenceTheorems, FunctionTheorems, WellFoundedInduction, TLAPS

-----------------------------------------------------------------------------
(* The ledger.                                                             *)

(* Appending leaves the events there are where they are.                   *)
LEMMA AppendKeeps ==
  ASSUME TypeOK, NEW at \in Nat, AppendEvent(at)
  PROVE  /\ events' \in Seq(Nat)
         /\ DOMAIN events \subseteq DOMAIN events'
         /\ \A d : Sealed(d) => EventsOnDate(d)' = EventsOnDate(d)
<1>1. CASE Sealed(DateOf(at))
  BY <1>1 DEF AppendEvent, TypeOK, EventsOnDate
<1>2. CASE ~Sealed(DateOf(at))
  <2>1. events' = Append(events, at) /\ events \in Seq(Nat)
    BY <1>2 DEF AppendEvent, TypeOK
  <2>2. /\ DOMAIN events' = DOMAIN events \cup {Len(events) + 1}
        /\ Len(events) + 1 \notin DOMAIN events
        /\ events'[Len(events) + 1] = at
        /\ \A seq \in DOMAIN events : events'[seq] = events[seq]
    BY <2>1
  <2>3. \A d : Sealed(d) => EventsOnDate(d)' = EventsOnDate(d)
    BY <1>2, <2>2 DEF EventsOnDate
  <2>. QED
    BY <2>1, <2>2, <2>3
<1>. QED
  BY <1>1, <1>2

LEMMA DateType == \A t \in Nat : DateOf(t) \in Int
  BY DayAssumption DEF DateOf

LEMMA DateBounds ==
  ASSUME NEW t \in Nat
  PROVE  PerDay * DateOf(t) <= t /\ t < PerDay * DateOf(t) + PerDay
  BY DayAssumption DEF DateOf

(* What sealing a day does to the seals.                                   *)
LEMMA SealDailyAdds ==
  ASSUME NEW d, SealDaily(d)
  PROVE  /\ DOMAIN seals' = DOMAIN seals \cup {d}
         /\ \A e \in DOMAIN seals : seals'[e] = seals[e]
         /\ ~Sealed(d) => seals'[d] = EventsOnDate(d)
  BY DEF SealDaily, Sealed

-----------------------------------------------------------------------------
LEMMA TypeStep == TypeOK /\ [Next]_vars => TypeOK'
<1>. SUFFICES ASSUME TypeOK, [Next]_vars PROVE TypeOK'
  OBVIOUS
<1>. USE DEF TypeOK, Job
<1>1. ASSUME NEW at \in Nat, AppendEvent(at), UNCHANGED seals
      PROVE  /\ events' \in Seq(Nat)
             /\ \A d \in DOMAIN seals' : seals'[d] \subseteq DOMAIN events'
  <2>1. events' \in Seq(Nat) /\ DOMAIN events \subseteq DOMAIN events'
    BY <1>1, AppendKeeps
  <2>. QED
    BY <1>1, <2>1
<1>2. ASSUME NEW d \in Int, SealDaily(d), UNCHANGED events
      PROVE  /\ DOMAIN seals' \subseteq Int
             /\ \A e \in DOMAIN seals' : seals'[e] \subseteq DOMAIN events'
  <2>1. DOMAIN seals' = DOMAIN seals \cup {d}
    BY <1>2, SealDailyAdds
  <2>2. \A e \in DOMAIN seals' : e \notin DOMAIN seals => seals'[e] = EventsOnDate(e)
    BY <1>2 DEF SealDaily, Sealed
  <2>3. \A e \in DOMAIN seals : seals'[e] = seals[e]
    BY <1>2, SealDailyAdds
  <2>4. \A e : EventsOnDate(e) \subseteq DOMAIN events
    BY DEF EventsOnDate
  <2>. QED
    BY <1>2, <2>1, <2>2, <2>3, <2>4
<1>3. ASSUME NEW w \in Writers, Capture(w) PROVE TypeOK'
  <2>1. stamp' \in [Writers -> Nat \cup {Never}]
    BY <1>3 DEF Capture
  <2>2. UNCHANGED <<clock, events, seals, job, crashes>>
    BY <1>3 DEF Capture
  <2>. QED
    BY <2>1, <2>2
<1>4. ASSUME NEW w \in Writers, Land(w) PROVE TypeOK'
  <2>1. stamp[w] \in Nat
    BY <1>4 DEF Land
  <2>. QED
    BY <1>1, <1>4, <2>1 DEF Land
<1>5. ASSUME NEW s \in Sealers, SealStart(s) PROVE TypeOK'
  <2>1. \A through : UnsealedDates(through) \subseteq Int
    BY DateType DEF UnsealedDates, EventDates
  <2>2. job' \in [Sealers -> Job]
    BY <1>5, <2>1 DEF SealStart
  <2>. QED
    BY <1>5, <2>2 DEF SealStart
<1>6. ASSUME NEW s \in Sealers, SealOne(s) PROVE TypeOK'
  <2>1. PICK d \in job[s].pending :
          \/ job' = [job EXCEPT ![s] = NoJob] /\ UNCHANGED seals
          \/ /\ SealDaily(d)
             /\ job' = [job EXCEPT ![s] =
                  [pc |-> "seal", now |-> @.now, pending |-> @.pending \ {d}]]
    BY <1>6 DEF SealOne
  <2>2. d \in Int /\ UNCHANGED <<clock, events, stamp, crashes>>
    BY <1>6 DEF SealOne
  <2>3. job' \in [Sealers -> Job]
    BY <2>1 DEF NoJob
  <2>4. /\ DOMAIN seals' \subseteq Int
        /\ \A e \in DOMAIN seals' : seals'[e] \subseteq DOMAIN events'
    BY <1>2, <2>1, <2>2
  <2>. QED
    BY <2>2, <2>3, <2>4
<1>7. ASSUME NEW s \in Sealers, SealRecord(s) PROVE TypeOK'
  <2>1. job' \in [Sealers -> Job]
    BY <1>7 DEF SealRecord, NoJob
  <2>2. job[s].now \in Nat
    OBVIOUS
  <2>. QED
    BY <1>1, <1>7, <2>1, <2>2 DEF SealRecord
<1>8. ASSUME NEW s \in Sealers, SealCrash(s) PROVE TypeOK'
  BY <1>8 DEF SealCrash, NoJob
<1>9. ASSUME NEW k \in ManualDays, ManualSeal(k) PROVE TypeOK'
  <2>1. DateOf(clock) - k \in Int
    BY DateType, DayAssumption
  <2>. QED
    BY <1>2, <1>9, <2>1 DEF ManualSeal
<1>10. CASE Advance \/ UNCHANGED vars
  BY <1>10 DEF Advance, vars
<1>. QED
  BY <1>3, <1>4, <1>5, <1>6, <1>7, <1>8, <1>9, <1>10 DEF Next, SealJob

(* Every reachable state of the ledger is well typed.                      *)
THEOREM TypeCorrect == Spec => []TypeOK
<1>1. Init => TypeOK
  BY DEF Init, TypeOK, Job, NoJob
<1>. QED
  BY <1>1, TypeStep, PTL DEF Spec

-----------------------------------------------------------------------------
(* Seals hold: the root of a sealed day is that of its events for ever.    *)

LEMMA SealsHoldStep == TypeOK /\ SealsHold /\ [Next]_vars => SealsHold'
<1>. SUFFICES ASSUME TypeOK, SealsHold, [Next]_vars PROVE SealsHold'
  OBVIOUS
<1>1. ASSUME NEW at \in Nat, AppendEvent(at), UNCHANGED seals
      PROVE  SealsHold'
  BY <1>1, AppendKeeps DEF SealsHold, Sealed
<1>2. ASSUME NEW d, SealDaily(d), UNCHANGED events PROVE SealsHold'
  <2>1. \A e : EventsOnDate(e)' = EventsOnDate(e)
    BY <1>2 DEF EventsOnDate
  <2>. QED
    BY <1>2, <2>1, SealDailyAdds DEF SealsHold, Sealed
<1>3. ASSUME UNCHANGED <<events, seals>> PROVE SealsHold'
  BY <1>3 DEF SealsHold, EventsOnDate
<1>4. ASSUME NEW w \in Writers, Land(w) PROVE SealsHold'
  <2>1. stamp[w] \in Nat
    BY <1>4 DEF Land, TypeOK
  <2>. QED
    BY <1>1, <1>4, <2>1 DEF Land
<1>5. ASSUME NEW s \in Sealers, SealOne(s) PROVE SealsHold'
  BY <1>2, <1>3, <1>5 DEF SealOne
<1>6. ASSUME NEW s \in Sealers, SealRecord(s) PROVE SealsHold'
  <2>1. job[s].now \in Nat
    BY DEF TypeOK, Job
  <2>. QED
    BY <1>1, <1>6, <2>1 DEF SealRecord
<1>7. ASSUME NEW k \in ManualDays, ManualSeal(k) PROVE SealsHold'
  BY <1>2, <1>7 DEF ManualSeal
<1>8. ASSUME NEW w \in Writers, Capture(w) PROVE SealsHold'
  BY <1>3, <1>8 DEF Capture
<1>9. ASSUME NEW s \in Sealers, SealStart(s) \/ SealCrash(s) PROVE SealsHold'
  BY <1>3, <1>9 DEF SealStart, SealCrash
<1>10. CASE Advance \/ UNCHANGED vars
  BY <1>3, <1>10 DEF Advance, vars
<1>. QED
  BY <1>4, <1>5, <1>6, <1>7, <1>8, <1>9, <1>10 DEF Next, SealJob

(* ledger.ts:36-43: no append, however stale its stamp, breaks the root of
   a sealed day.                                                           *)
THEOREM SealsHoldForEver == Spec => []SealsHold
<1>1. Init => SealsHold
  BY DEF Init, SealsHold
<1>. QED
  BY <1>1, SealsHoldStep, TypeCorrect, PTL DEF Spec

-----------------------------------------------------------------------------
(* The grace window.  A sealed day lies as many whole days back as every
   way of sealing leaves room for.                                         *)

SealedLongAgo ==
  \A d \in DOMAIN seals : \A g \in SafeDays : PerDay * (d + 1 + g) <= clock

PendingInTime ==
  \A s \in Sealers : job[s].now <= clock
    /\ \A d \in job[s].pending : d <= DateOf(job[s].now) - (1 + GraceDays)

StampsInPast == \A w \in Writers : stamp[w] <= clock

GraceInv == SealedLongAgo /\ PendingInTime /\ StampsInPast

(* A day before the date of an instant is over by that instant.            *)
LEMMA DayIsOver ==
  ASSUME NEW t \in Nat, NEW n \in Int, n <= DateOf(t)
  PROVE  PerDay * n <= t
<1>1. DateOf(t) \in Int /\ PerDay \in Nat
  BY DateType, DayAssumption
<1>2. PerDay * n <= PerDay * DateOf(t)
  BY <1>1
<1>. QED
  BY <1>1, <1>2, DateBounds

LEMMA GraceStep == TypeOK /\ GraceInv /\ [Next]_vars => GraceInv'
<1>. SUFFICES ASSUME TypeOK, GraceInv, [Next]_vars PROVE GraceInv'
  OBVIOUS
<1>0. \A g \in SafeDays : g \in Nat /\ g <= GraceDays /\ \A k \in ManualDays : g < k
  BY DayAssumption DEF SafeDays
<1>1. ASSUME UNCHANGED seals, clock' \in Nat, clock <= clock' PROVE SealedLongAgo'
  <2>. SUFFICES ASSUME NEW d \in DOMAIN seals, NEW g \in SafeDays
                PROVE  PerDay * (d + 1 + g) <= clock'
    BY <1>1 DEF SealedLongAgo, SafeDays
  <2>1. PerDay * (d + 1 + g) <= clock
    BY DEF GraceInv, SealedLongAgo
  <2>2. PerDay * (d + 1 + g) \in Int /\ clock \in Nat
    BY <1>0, DayAssumption DEF TypeOK
  <2>. QED
    BY <1>1, <2>1, <2>2
<1>2. ASSUME NEW d \in Int, NEW t \in Nat, SealDaily(d), UNCHANGED clock,
             t <= clock, \A g \in SafeDays : d + 1 + g <= DateOf(t)
      PROVE  SealedLongAgo'
  <2>1. \A g \in SafeDays : PerDay * (d + 1 + g) <= clock
    <3>. TAKE g \in SafeDays
    <3>1. d + 1 + g \in Int /\ PerDay * (d + 1 + g) \in Int /\ clock \in Nat
      BY <1>0, DayAssumption DEF TypeOK
    <3>2. PerDay * (d + 1 + g) <= t
      BY <1>2, <3>1, DayIsOver
    <3>. QED
      BY <1>2, <3>1, <3>2
  <2>2. DOMAIN seals' = DOMAIN seals \cup {d} /\ UNCHANGED clock
    BY <1>2, SealDailyAdds
  <2>3. SafeDays' = SafeDays
    BY DEF SafeDays
  <2>. QED
    BY <2>1, <2>2, <2>3 DEF GraceInv, SealedLongAgo
<1>3. ASSUME NEW w \in Writers, Capture(w) \/ Land(w) PROVE GraceInv'
  <2>1. StampsInPast'
    BY <1>3 DEF Capture, Land, GraceInv, StampsInPast, TypeOK, Never
  <2>2. UNCHANGED <<clock, seals, job>>
    BY <1>3 DEF Capture, Land
  <2>. QED
    BY <2>1, <2>2 DEF GraceInv, SealedLongAgo, PendingInTime, SafeDays
<1>4. ASSUME NEW s \in Sealers, UNCHANGED <<clock, stamp>>,
             \A r \in Sealers \ {s} : job'[r] = job[r],
             job'[s].now \in {0, clock, job[s].now},
             \A d \in job'[s].pending :
               d <= DateOf(job'[s].now) - (1 + GraceDays)
      PROVE  PendingInTime' /\ StampsInPast'
  <2>1. job'[s].now <= clock
    BY <1>4 DEF GraceInv, PendingInTime, TypeOK
  <2>2. PendingInTime'
    BY <1>4, <2>1 DEF GraceInv, PendingInTime, DateOf
  <2>. QED
    BY <1>4, <2>2 DEF GraceInv, StampsInPast
<1>5. ASSUME NEW s \in Sealers, SealStart(s) PROVE GraceInv'
  <2>1. \A d \in UnsealedDates(SealThrough(clock)) :
          d <= DateOf(clock) - (1 + GraceDays)
    BY DEF UnsealedDates, SealThrough
  <2>2. /\ UNCHANGED <<clock, stamp, seals>>
        /\ \A r \in Sealers \ {s} : job'[r] = job[r]
        /\ \/ job'[s] = job[s]
           \/ /\ job'[s].now = clock
              /\ job'[s].pending = UnsealedDates(SealThrough(clock))
    BY <1>5 DEF SealStart, TypeOK
  <2>3. job'[s].now \in {0, clock, job[s].now}
    BY <2>2
  <2>4. \A d \in job'[s].pending : d <= DateOf(job'[s].now) - (1 + GraceDays)
    BY <2>1, <2>2 DEF GraceInv, PendingInTime
  <2>5. SealedLongAgo'
    BY <1>1, <2>2 DEF TypeOK
  <2>. QED
    BY <1>4, <2>2, <2>3, <2>4, <2>5 DEF GraceInv
<1>6. ASSUME NEW s \in Sealers, SealOne(s) PROVE GraceInv'
  <2>1. PICK d \in job[s].pending :
          \/ job' = [job EXCEPT ![s] = NoJob] /\ UNCHANGED seals
          \/ /\ SealDaily(d)
             /\ job' = [job EXCEPT ![s] =
                  [pc |-> "seal", now |-> @.now, pending |-> @.pending \ {d}]]
    BY <1>6 DEF SealOne
  <2>2. /\ UNCHANGED <<clock, stamp>>
        /\ \A r \in Sealers \ {s} : job'[r] = job[r]
        /\ \/ job'[s].now = 0 /\ job'[s].pending = {}
           \/ job'[s].now = job[s].now /\ job'[s].pending = job[s].pending \ {d}
    BY <1>6, <2>1 DEF SealOne, NoJob, TypeOK
  <2>3. \A e \in job'[s].pending : e <= DateOf(job'[s].now) - (1 + GraceDays)
    BY <2>2 DEF GraceInv, PendingInTime
  <2>4. PendingInTime' /\ StampsInPast'
    BY <1>4, <2>2, <2>3
  <2>5. /\ d \in Int /\ job[s].now \in Nat /\ job[s].now <= clock
        /\ d <= DateOf(job[s].now) - (1 + GraceDays)
        /\ DateOf(job[s].now) \in Int
    BY DateType DEF TypeOK, Job, GraceInv, PendingInTime
  <2>6. \A g \in SafeDays : d + 1 + g <= DateOf(job[s].now)
    BY <1>0, <2>5, DayAssumption
  <2>7. SealedLongAgo'
    BY <1>1, <1>2, <2>1, <2>2, <2>5, <2>6 DEF TypeOK
  <2>. QED
    BY <2>4, <2>7 DEF GraceInv
<1>7. ASSUME NEW s \in Sealers, SealRecord(s) \/ SealCrash(s) PROVE GraceInv'
  <2>1. /\ UNCHANGED <<clock, stamp, seals>>
        /\ \A r \in Sealers \ {s} : job'[r] = job[r]
        /\ job'[s].now = 0 /\ job'[s].pending = {}
    BY <1>7 DEF SealRecord, SealCrash, NoJob, TypeOK
  <2>2. PendingInTime' /\ StampsInPast'
    BY <1>4, <2>1
  <2>3. SealedLongAgo'
    BY <1>1, <2>1 DEF TypeOK
  <2>. QED
    BY <2>2, <2>3 DEF GraceInv
<1>8. ASSUME NEW k \in ManualDays, ManualSeal(k) PROVE GraceInv'
  <2>1. /\ SealDaily(DateOf(clock) - k) /\ UNCHANGED <<clock, stamp, job>>
        /\ clock \in Nat /\ k \in Nat /\ DateOf(clock) \in Int
    BY <1>8, DayAssumption, DateType DEF ManualSeal, TypeOK
  <2>2. \A g \in SafeDays : (DateOf(clock) - k) + 1 + g <= DateOf(clock)
    BY <1>0, <2>1
  <2>3. SealedLongAgo'
    BY <1>2, <2>1, <2>2
  <2>. QED
    BY <2>1, <2>3 DEF GraceInv, PendingInTime, StampsInPast
<1>9. CASE Advance
  <2>1. clock' = clock + 1 /\ UNCHANGED <<seals, stamp, job>> /\ clock \in Nat
    BY <1>9 DEF Advance, TypeOK
  <2>2. SealedLongAgo'
    BY <1>1, <2>1
  <2>3. PendingInTime' /\ StampsInPast'
    BY <2>1 DEF GraceInv, PendingInTime, StampsInPast, TypeOK, Job, Never
  <2>. QED
    BY <2>2, <2>3 DEF GraceInv
<1>10. CASE UNCHANGED vars
  BY <1>10 DEF vars, GraceInv, SealedLongAgo, PendingInTime, StampsInPast, SafeDays
<1>. QED
  BY <1>3, <1>5, <1>6, <1>7, <1>8, <1>9, <1>10 DEF Next, SealJob

LEMMA GraceInvImplies == TypeOK /\ GraceInv => GraceHolds
<1>. SUFFICES ASSUME TypeOK, GraceInv, NEW g \in SafeDays, NEW t \in Carried,
                     clock - t <= g * PerDay, Sealed(DateOf(t))
              PROVE  FALSE
  BY DEF GraceHolds
<1>1. t \in Nat /\ clock \in Nat /\ g \in Nat /\ PerDay \in Nat
  BY DayAssumption DEF Carried, TypeOK, Job, SafeDays, Never
<1>2. DateOf(t) \in Int /\ t < PerDay * DateOf(t) + PerDay
  BY <1>1, DateType, DateBounds
<1>3. PerDay * (DateOf(t) + 1 + g) <= clock
  BY DEF GraceInv, SealedLongAgo, Sealed
<1>4. PerDay * (DateOf(t) + 1 + g) = PerDay * DateOf(t) + PerDay + g * PerDay
  BY <1>1, <1>2
<1>5. PerDay * DateOf(t) \in Int /\ g * PerDay \in Int
  BY <1>1, <1>2
<1>. QED
  BY <1>1, <1>2, <1>3, <1>4, <1>5

(* ledger.ts:55-64: for every grace window, an event no staler than the
   whole days every way of sealing leaves open is never refused.           *)
THEOREM GraceWindowHolds == Spec => []GraceHolds
<1>1. Init => GraceInv
  BY DEF Init, GraceInv, SealedLongAgo, PendingInTime, StampsInPast, NoJob, Never
<1>. QED
  BY <1>1, GraceStep, GraceInvImplies, TypeCorrect, PTL DEF Spec

-----------------------------------------------------------------------------
(* Numbers and logs.                                                       *)

(* A nonempty set of naturals has a least member.                          *)
LEMMA LeastNat ==
  ASSUME NEW S \in SUBSET Nat, S # {}
  PROVE  \E n \in S : \A m \in S : n <= m
<1>1. PICK n \in S : \A m \in S : ~(<<m, n>> \in OpToRel(<, Nat))
  BY WFMin, NatLessThanWellFounded, Zenon
<1>2. \A m \in S : ~(m < n)
  BY <1>1, Zenon DEF OpToRel
<1> QED BY <1>2

(* A log is a sequence, of whatever entries.                               *)
IsLog(q) == \E S : q \in Seq(S)

LEMMA LogPlaces ==
  ASSUME NEW q, IsLog(q)
  PROVE  Len(q) \in Nat /\ DOMAIN q = 1..Len(q)
<1>1. PICK S : q \in Seq(S)
  BY DEF IsLog
<1> QED BY <1>1

(* An appended entry changes none of those before it.                      *)
LEMMA AppendedLog ==
  ASSUME NEW q, IsLog(q), NEW x
  PROVE  /\ IsLog(Append(q, x))
         /\ Len(Append(q, x)) = Len(q) + 1
         /\ DOMAIN Append(q, x) = 1..(Len(q) + 1)
         /\ DOMAIN Append(q, x) = DOMAIN q \cup {Len(q) + 1}
         /\ Len(q) + 1 \notin DOMAIN q
         /\ \A i \in DOMAIN q : Append(q, x)[i] = q[i]
         /\ Append(q, x)[Len(q) + 1] = x
<1>1. PICK S : q \in Seq(S)
  BY DEF IsLog
<1>2. PICK T : T = S \cup {x}
  OBVIOUS
<1>3. q \in Seq(T) /\ x \in T
  BY <1>1, <1>2
<1>4. Append(q, x) \in Seq(T)
  BY <1>3
<1>5. IsLog(Append(q, x))
  BY <1>4 DEF IsLog
<1> QED BY <1>3, <1>5

-----------------------------------------------------------------------------
(* The ancestors of an experiment are those the count goes through.        *)

(* An experiment replaces an older one or none, and its registration is    *)
(* logged with it.                                                         *)
ParentsOlder ==
  \A e \in DOMAIN experiments : experiments[e].parent \in 0..(e - 1)

Registrations ==
  /\ \A i \in DOMAIN log : log[i].kind = "registered" =>
       log[i].experiment \in DOMAIN experiments /\ log[i].value = experiments[log[i].experiment].parent
  /\ \A e \in DOMAIN experiments : \E i \in DOMAIN log : log[i].kind = "registered" /\ log[i].experiment = e

(* The walk up the parents, as far as n steps.                             *)
StepUp(S) == S \cup {experiments[x].parent : x \in S \ {NoParent}}

IsWalk(f, e, n) == f = [k \in 0..n |-> IF k = 0 THEN {e} ELSE StepUp(f[k - 1])]

LEMMA WalksExist ==
  ASSUME NEW e, NEW n \in Nat
  PROVE  \E f : IsWalk(f, e, n)
<1> DEFINE Lacking == {m \in Nat : ~\E f : IsWalk(f, e, m)}
<1> SUFFICES ASSUME Lacking # {} PROVE FALSE
  OBVIOUS
<1>1. PICK m \in Lacking : \A x \in Lacking : m <= x
  <2>1. Lacking \in SUBSET Nat
    OBVIOUS
  <2> HIDE DEF Lacking
  <2> QED BY <2>1, LeastNat
<1>2. m \in Nat /\ ~\E f : IsWalk(f, e, m)
  OBVIOUS
<1>3. CASE m = 0
  <2>1. PICK f : f = [k \in 0..0 |-> {e}]
    OBVIOUS
  <2>2. f = [k \in 0..0 |-> IF k = 0 THEN {e} ELSE StepUp(f[k - 1])]
    BY <2>1
  <2> QED BY <2>2, <1>2, <1>3 DEF IsWalk
<1>4. CASE m # 0
  <2>1. m - 1 \in Nat /\ m - 1 \notin Lacking
    BY <1>1, <1>2, <1>4
  <2>2. PICK f : IsWalk(f, e, m - 1)
    BY <2>1
  <2>3. PICK g : g = [k \in 0..m |-> IF k = m THEN StepUp(f[m - 1]) ELSE f[k]]
    OBVIOUS
  <2>4. ASSUME NEW k \in 0..m PROVE g[k] = IF k = 0 THEN {e} ELSE StepUp(g[k - 1])
    <3>1. f = [j \in 0..(m - 1) |-> IF j = 0 THEN {e} ELSE StepUp(f[j - 1])]
      BY <2>2 DEF IsWalk
    <3>2. k # m => k \in 0..(m - 1) /\ g[k] = f[k]
      BY <2>1, <2>3
    <3>3. k # 0 => k - 1 \in 0..(m - 1) /\ g[k - 1] = f[k - 1]
      BY <2>1, <2>3
    <3>4. g[m] = StepUp(f[m - 1])
      BY <2>1, <2>3
    <3>5. k # m => g[k] = IF k = 0 THEN {e} ELSE StepUp(f[k - 1])
      BY <3>1, <3>2, Zenon
    <3> QED BY <1>4, <3>3, <3>4, <3>5, Zenon
  <2>5. g = [k \in 0..m |-> IF k = 0 THEN {e} ELSE StepUp(g[k - 1])]
    BY <2>3, <2>4
  <2> QED BY <2>5, <1>2 DEF IsWalk
<1> QED BY <1>3, <1>4

(* The count is taken over the end of a walk.                              *)
LEMMA CountWalks ==
  ASSUME NEW e, Len(experiments) \in Nat
  PROVE  \E f : /\ IsWalk(f, e, Len(experiments))
                /\ CumulativeTrialCount(e) = Cardinality(UNION {TrialsOf(x) : x \in f[Len(experiments)]})
<1> DEFINE N == Len(experiments)
           P(f) == f = [k \in 0..N |->
                          IF k = 0 THEN {e}
                          ELSE f[k - 1] \cup {experiments[x].parent : x \in f[k - 1] \ {NoParent}}]
<1>1. \E f : P(f)
  <2>1. PICK f : IsWalk(f, e, N)
    BY WalksExist
  <2>2. P(f)
    BY <2>1 DEF IsWalk, StepUp
  <2> HIDE DEF P
  <2> QED BY <2>2
<1>2. CumulativeTrialCount(e) = Cardinality(UNION {TrialsOf(x) : x \in (CHOOSE f : P(f))[N]})
  BY DEF CumulativeTrialCount
<1>3. P(CHOOSE f : P(f))
  <2> HIDE DEF P
  <2> QED BY <1>1
<1>4. PICK f : P(f) /\ CumulativeTrialCount(e) = Cardinality(UNION {TrialsOf(x) : x \in f[N]})
  <2> HIDE DEF P
  <2> QED BY <1>2, <1>3
<1> QED BY <1>4 DEF IsWalk, StepUp

(* A walk finds an experiment within as many steps as it is older than the *)
(* one the walk began at.                                                  *)
LEMMA WalkFinds ==
  ASSUME IsLog(experiments), ParentsOlder,
         NEW e \in DOMAIN experiments, NEW f, IsWalk(f, e, Len(experiments)),
         NEW k \in 0..Len(experiments)
  PROVE  /\ f[k] \subseteq 0..e
         /\ \A j \in k..Len(experiments) : f[k] \subseteq f[j]
         /\ \A x \in f[k] : x \in f[e - x]
<1> DEFINE N == Len(experiments)
           Found(n) == /\ f[n] \subseteq 0..e
                       /\ \A x \in f[n] : x \in f[e - x]
<1>1. N \in Nat /\ DOMAIN experiments = 1..N
  BY LogPlaces
<1>2. \A n \in 0..N : f[n] = IF n = 0 THEN {e} ELSE StepUp(f[n - 1])
  BY DEF IsWalk
<1>3. ASSUME NEW n \in 0..N, NEW j \in n..N PROVE f[n] \subseteq f[j]
  <2> DEFINE Lacking == {m \in Nat : m \in n..N /\ ~(f[n] \subseteq f[m])}
  <2> SUFFICES ASSUME Lacking # {} PROVE FALSE
    BY <1>1
  <2>1. PICK m \in Lacking : \A x \in Lacking : m <= x
    <3>1. Lacking \in SUBSET Nat
      OBVIOUS
    <3> HIDE DEF Lacking
    <3> QED BY <3>1, LeastNat
  <2>2. m # n /\ m - 1 \in n..N /\ m - 1 \in Nat /\ m \in 0..N /\ m # 0
    BY <1>1, <2>1
  <2>3. f[n] \subseteq f[m - 1]
    BY <2>1, <2>2
  <2>4. f[m] = StepUp(f[m - 1])
    BY <1>2, <2>2, Zenon
  <2> QED BY <2>1, <2>3, <2>4 DEF StepUp
<1>4. ASSUME NEW n \in 0..N PROVE Found(n)
  <2> DEFINE Lacking == {m \in Nat : m \in 0..N /\ ~Found(m)}
  <2> SUFFICES ASSUME Lacking # {} PROVE FALSE
    BY <1>1
  <2>1. PICK m \in Lacking : \A x \in Lacking : m <= x
    <3>1. Lacking \in SUBSET Nat
      OBVIOUS
    <3> HIDE DEF Lacking
    <3> QED BY <3>1, LeastNat
  <2>2. m \in 0..N /\ ~Found(m)
    OBVIOUS
  <2>3. e \in 1..N /\ e \in 0..e
    BY <1>1
  <2>4. m # 0
    <3>1. f[0] = {e}
      BY <1>1, <1>2
    <3>2. e - e = 0
      BY <2>3
    <3> QED BY <2>2, <2>3, <3>1, <3>2
  <2>5. m - 1 \in 0..N /\ m - 1 \in Nat
    BY <1>1, <2>2, <2>4
  <2>6. Found(m - 1)
    BY <2>1, <2>5
  <2>7. f[m] = f[m - 1] \cup {experiments[x].parent : x \in f[m - 1] \ {NoParent}}
    BY <1>2, <2>2, <2>4 DEF StepUp
  <2>8. ASSUME NEW y \in f[m - 1] \ {NoParent}
        PROVE  experiments[y].parent \in 0..e /\ experiments[y].parent \in f[e - experiments[y].parent]
    <3>1. y \in 0..e /\ y # 0 /\ y \in f[e - y]
      BY <2>6 DEF NoParent
    <3>2. y \in DOMAIN experiments
      BY <1>1, <2>3, <3>1
    <3>3. PICK p : p = experiments[y].parent
      OBVIOUS
    <3>4. p \in 0..(y - 1)
      BY <3>2, <3>3 DEF ParentsOlder
    <3>5. /\ e - y + 1 \in 0..N /\ e - y + 1 # 0 /\ (e - y + 1) - 1 = e - y
          /\ e - p \in (e - y + 1)..N /\ p \in 0..e
      BY SMTT(20), <1>1, <2>3, <3>1, <3>4
    <3>6. f[e - y + 1] = StepUp(f[e - y])
      BY <1>2, <3>5
    <3>7. p \in f[e - y + 1]
      BY <3>1, <3>3, <3>6 DEF StepUp, NoParent
    <3>8. f[e - y + 1] \subseteq f[e - p]
      BY <1>3, <3>5
    <3> QED BY <3>3, <3>5, <3>7, <3>8
  <2>9. Found(m)
    BY <2>6, <2>7, <2>8
  <2> QED BY <2>2, <2>9
<1>5. Found(k)
  BY <1>4
<1>6. \A j \in k..N : f[k] \subseteq f[j]
  BY <1>3
<1> QED BY <1>5, <1>6

(* The end of a walk is the least set that is closed under the parents the *)
(* log has.                                                                *)
LEMMA WalkEndsAtAncestors ==
  ASSUME IsLog(experiments), ParentsOlder, Registrations,
         NEW e \in DOMAIN experiments, NEW f, IsWalk(f, e, Len(experiments))
  PROVE  f[Len(experiments)] = AncestorsOf(e)
<1> DEFINE N == Len(experiments)
           ClosedIn(S) == \A i \in DOMAIN log :
                            log[i].kind = "registered" /\ log[i].experiment \in S => log[i].value \in S
<1>1. N \in Nat /\ DOMAIN experiments = 1..N /\ e \in 1..N
  BY LogPlaces
<1>2. \A n \in 0..N : f[n] = IF n = 0 THEN {e} ELSE StepUp(f[n - 1])
  BY DEF IsWalk
<1>3. ASSUME NEW S, ClosedIn(S), e \in S PROVE f[N] \subseteq S
  <2> DEFINE Lacking == {m \in Nat : m \in 0..N /\ ~(f[m] \subseteq S)}
  <2> SUFFICES ASSUME Lacking # {} PROVE FALSE
    BY <1>1
  <2>1. PICK m \in Lacking : \A x \in Lacking : m <= x
    <3>1. Lacking \in SUBSET Nat
      OBVIOUS
    <3> HIDE DEF Lacking
    <3> QED BY <3>1, LeastNat
  <2>2. m \in 0..N /\ ~(f[m] \subseteq S)
    OBVIOUS
  <2>3. m # 0
    BY <1>1, <1>2, <1>3, <2>2
  <2>4. m - 1 \in 0..N /\ m - 1 \in Nat
    BY <1>1, <2>2, <2>3
  <2>5. f[m - 1] \subseteq S
    BY <2>1, <2>4
  <2>6. f[m] = f[m - 1] \cup {experiments[x].parent : x \in f[m - 1] \ {NoParent}}
    BY <1>2, <2>2, <2>3 DEF StepUp
  <2>7. ASSUME NEW x \in f[m - 1] \ {NoParent} PROVE experiments[x].parent \in S
    <3>1. f[m - 1] \subseteq 0..e
      BY <2>4, WalkFinds
    <3>2. x \in DOMAIN experiments
      BY <1>1, <3>1 DEF NoParent
    <3>3. PICK i \in DOMAIN log : log[i].kind = "registered" /\ log[i].experiment = x
      BY <3>2 DEF Registrations
    <3>4. log[i].value = experiments[x].parent
      BY <3>3 DEF Registrations
    <3> QED BY <1>3, <2>5, <3>3, <3>4
  <2> QED BY <2>2, <2>5, <2>6, <2>7
<1>4. f[N] \subseteq 0..N /\ e \in f[N] /\ ClosedIn(f[N])
  <2>1. /\ f[N] \subseteq 0..e
        /\ \A x \in f[N] : x \in f[e - x]
    BY <1>1, WalkFinds
  <2>2. f[0] = {e} /\ f[0] \subseteq f[N]
    BY <1>1, <1>2, WalkFinds
  <2>3. ASSUME NEW i \in DOMAIN log, log[i].kind = "registered", log[i].experiment \in f[N]
        PROVE  log[i].value \in f[N]
    <3>1. PICK x : x = log[i].experiment
      OBVIOUS
    <3>2. x \in 1..N /\ x \in 0..e /\ x \in f[e - x] /\ log[i].value = experiments[x].parent
      BY <1>1, <2>1, <2>3, <3>1 DEF Registrations
    <3>3. e - x + 1 \in 0..N /\ e - x + 1 # 0 /\ (e - x + 1) - 1 = e - x
      BY <1>1, <3>2
    <3>4. f[e - x + 1] = StepUp(f[e - x])
      BY <1>2, <3>3
    <3>5. experiments[x].parent \in f[e - x + 1]
      BY <3>2, <3>4 DEF StepUp, NoParent
    <3>6. f[e - x + 1] \subseteq f[N]
      BY <1>1, <3>3, WalkFinds
    <3> QED BY <3>2, <3>5, <3>6
  <2>4. 0..e \subseteq 0..N
    BY <1>1
  <2> QED BY <2>1, <2>2, <2>3, <2>4
<1>5. AncestorsOf(e) = {x \in 0..N : \A S \in {T \in SUBSET (0..N) : ClosedIn(T)} : e \in S => x \in S}
  BY DEF AncestorsOf
<1>6. f[N] \subseteq AncestorsOf(e)
  <2> HIDE DEF ClosedIn
  <2> QED BY <1>3, <1>4, <1>5
<1>7. AncestorsOf(e) \subseteq f[N]
  <2> HIDE DEF ClosedIn
  <2> QED BY <1>4, <1>5
<1> QED BY <1>6, <1>7

-----------------------------------------------------------------------------
(* The registry.                                                           *)

(* The trial ledger and the log agree: the trials are, one to one, the     *)
(* places of the log that speak of a trial.                                *)
TrialPlaces == {i \in DOMAIN log : log[i].kind = "trial_recorded"}

Pairs(f) ==
  /\ f \in [DOMAIN trials -> TrialPlaces]
  /\ \A i, j \in DOMAIN trials : f[i] = f[j] => i = j
  /\ \A k \in TrialPlaces : \E i \in DOMAIN trials : f[i] = k
  /\ \A i \in DOMAIN trials :
       log[f[i]].experiment = trials[i].experiment /\ log[f[i]].value = trials[i].labels

TrialsLogged == \E f : Pairs(f)

(* The count of the trials is the count of their entries.                  *)
LEMMA CountsAgree ==
  ASSUME IsLog(trials), IsLog(log), TrialsLogged, NEW A
  PROVE  Cardinality(UNION {TrialsOf(x) : x \in A})
           = Cardinality(UNION {LoggedBefore(Len(log) + 1, "trial_recorded", x) : x \in A})
<1> DEFINE Mine == {i \in DOMAIN trials : trials[i].experiment \in A}
           Theirs == {k \in TrialPlaces : log[k].experiment \in A}
<1>1. Len(trials) \in Nat /\ DOMAIN trials = 1..Len(trials) /\ Len(log) \in Nat /\ DOMAIN log = 1..Len(log)
  BY LogPlaces
<1>2. UNION {TrialsOf(x) : x \in A} = Mine
  BY DEF TrialsOf
<1>3. UNION {LoggedBefore(Len(log) + 1, "trial_recorded", x) : x \in A} = Theirs
  <2>1. 1..((Len(log) + 1) - 1) = DOMAIN log
    BY <1>1
  <2> QED BY <2>1 DEF LoggedBefore, TrialPlaces
<1>4. PICK f : Pairs(f)
  BY DEF TrialsLogged
<1>5. PICK g : g = [i \in Mine |-> f[i]]
  OBVIOUS
<1>6. g \in [Mine -> Theirs]
  BY <1>4, <1>5 DEF Pairs
<1>7. \A i, j \in Mine : g[i] = g[j] => i = j
  BY <1>4, <1>5 DEF Pairs
<1>8. \A k \in Theirs : \E i \in Mine : g[i] = k
  <2> SUFFICES ASSUME NEW k \in Theirs PROVE \E i \in Mine : g[i] = k
    OBVIOUS
  <2>1. PICK i \in DOMAIN trials : f[i] = k
    BY <1>4 DEF Pairs
  <2>2. i \in Mine
    BY <1>4, <2>1 DEF Pairs
  <2> QED BY <1>5, <2>1, <2>2
<1>9. ExistsBijection(Mine, Theirs)
  <2> HIDE DEF Mine, Theirs
  <2> QED BY <1>6, <1>7, <1>8, Zenon DEF ExistsBijection, Bijection, Injection, Surjection, IsInjective
<1>10. IsFiniteSet(Mine)
  <2>1. IsFiniteSet(1..Len(trials))
    BY <1>1, FS_Interval
  <2>2. Mine \subseteq 1..Len(trials)
    BY <1>1
  <2> QED BY <2>1, <2>2, FS_Subset
<1>11. Cardinality(Mine) = Cardinality(Theirs)
  <2> HIDE DEF Mine, Theirs
  <2> QED BY <1>9, <1>10, FS_Bijection
<1> QED BY <1>2, <1>3, <1>11

Experiment ==
  [def : Definitions, parent : Nat, labels : SUBSET {"OPTIMISTIC_DELAY"}, allowed : BOOLEAN,
   viewed : BOOLEAN, opened : BOOLEAN, cited : BOOLEAN]

RegistryTyped == experiments \in Seq(Experiment) /\ IsLog(trials) /\ IsLog(log)

(* Every entry so far of a kind, about an experiment.                      *)
Logged(kind, e) == LoggedBefore(Len(log) + 1, kind, e)

ViewsLogged ==
  \A e \in DOMAIN experiments : experiments[e].viewed => Logged("results_viewed", e) # {}

OpeningsLogged ==
  \A e \in DOMAIN experiments : experiments[e].opened =>
    \E i \in Logged("holdout_opened", e) : LoggedBefore(i, "results_viewed", e) # {}

DelaysLabelled ==
  \A e \in DOMAIN experiments :
    experiments[e].def.processingDelay = 0 => "OPTIMISTIC_DELAY" \in experiments[e].labels

(* What the property says of one entry.                                    *)
Earned(k, e) ==
  /\ e \in DOMAIN experiments
  /\ \E i \in LoggedBefore(k, "holdout_opened", e) : LoggedBefore(i, "results_viewed", e) # {}
  /\ \A i \in LoggedBefore(k, "trial_recorded", e) : log[i].value \cap BarringCodes = {}
  /\ experiments[e].def.processingDelay > 0

CitationsEarned ==
  \A k \in DOMAIN log : \A e \in {log[k].experiment} :
    log[k].kind = "promotion_evidence_set" /\ log[k].value => Earned(k, e)

RegistryInv ==
  /\ RegistryTyped /\ ParentsOlder /\ Registrations /\ TrialsLogged
  /\ ViewsLogged /\ OpeningsLogged /\ DelaysLabelled /\ CitationsEarned

(* What is logged stays where it is.                                       *)
LEMMA LogGrows ==
  ASSUME IsLog(log), NEW entry, log' = Append(log, entry)
  PROVE  /\ IsLog(log')
         /\ Len(log) \in Nat /\ DOMAIN log = 1..Len(log)
         /\ Len(log') = Len(log) + 1
         /\ DOMAIN log' = DOMAIN log \cup {Len(log) + 1}
         /\ Len(log) + 1 \notin DOMAIN log
         /\ \A i \in DOMAIN log : log'[i] = log[i]
         /\ log'[Len(log) + 1] = entry
         /\ \A k \in DOMAIN log \cup {Len(log) + 1} : \A kind, e :
              LoggedBefore(k, kind, e)' = LoggedBefore(k, kind, e)
         /\ \A kind, e : Logged(kind, e) \subseteq Logged(kind, e)'
         /\ \A kind, e : Logged(kind, e) \subseteq DOMAIN log
         /\ Len(log) + 1 \in Logged(entry.kind, entry.experiment)'
<1>1. Len(log) \in Nat /\ DOMAIN log = 1..Len(log)
  BY LogPlaces
<1>2. /\ IsLog(log') /\ Len(log') = Len(log) + 1
      /\ DOMAIN log' = DOMAIN log \cup {Len(log) + 1}
      /\ Len(log) + 1 \notin DOMAIN log
      /\ \A i \in DOMAIN log : log'[i] = log[i]
      /\ log'[Len(log) + 1] = entry
  BY AppendedLog
<1>3. ASSUME NEW k \in DOMAIN log \cup {Len(log) + 1}, NEW kind, NEW e
      PROVE  LoggedBefore(k, kind, e)' = LoggedBefore(k, kind, e)
  <2>1. 1..(k - 1) \subseteq DOMAIN log
    BY <1>1
  <2>2. \A i \in 1..(k - 1) : log'[i] = log[i]
    BY <1>2, <2>1
  <2> QED BY <2>2 DEF LoggedBefore
<1>4. ASSUME NEW kind, NEW e PROVE Logged(kind, e) = {i \in DOMAIN log : log[i].kind = kind /\ log[i].experiment = e}
  <2>1. 1..((Len(log) + 1) - 1) = DOMAIN log
    BY <1>1
  <2> QED BY <2>1 DEF Logged, LoggedBefore
<1>5. ASSUME NEW kind, NEW e
      PROVE  Logged(kind, e)' = {i \in DOMAIN log' : log'[i].kind = kind /\ log'[i].experiment = e}
  <2>1. 1..((Len(log') + 1) - 1) = DOMAIN log'
    BY <1>1, <1>2
  <2> QED BY <2>1 DEF Logged, LoggedBefore
<1>6. \A kind, e : Logged(kind, e) \subseteq Logged(kind, e)' /\ Logged(kind, e) \subseteq DOMAIN log
  BY <1>2, <1>4, <1>5
<1>7. Len(log) + 1 \in Logged(entry.kind, entry.experiment)'
  BY <1>2, <1>5
<1> QED BY <1>1, <1>2, <1>3, <1>6, <1>7

(* An entry that is no trial leaves the pairing as it is.                  *)
LEMMA PairingKept ==
  ASSUME IsLog(log), TrialsLogged, UNCHANGED trials,
         NEW entry, log' = Append(log, entry), entry.kind # "trial_recorded"
  PROVE  TrialsLogged'
<1>1. PICK f : Pairs(f)
  BY DEF TrialsLogged
<1>2. /\ DOMAIN log' = DOMAIN log \cup {Len(log) + 1}
      /\ Len(log) + 1 \notin DOMAIN log
      /\ \A i \in DOMAIN log : log'[i] = log[i]
      /\ log'[Len(log) + 1] = entry
  BY LogGrows
<1>3. TrialPlaces' = TrialPlaces
  BY <1>2 DEF TrialPlaces
<1>4. \A i \in TrialPlaces : log'[i] = log[i]
  BY <1>2 DEF TrialPlaces
<1>5. /\ f \in [DOMAIN trials' -> TrialPlaces']
      /\ \A i, j \in DOMAIN trials' : f[i] = f[j] => i = j
      /\ \A k \in TrialPlaces' : \E i \in DOMAIN trials' : f[i] = k
  BY <1>1, <1>3, Zenon DEF Pairs
<1>6. ASSUME NEW i \in DOMAIN trials
      PROVE  log'[f[i]].experiment = trials[i].experiment /\ log'[f[i]].value = trials[i].labels
  <2>1. f[i] \in TrialPlaces
    BY <1>1 DEF Pairs
  <2>2. log'[f[i]] = log[f[i]]
    BY <1>4, <2>1
  <2>3. log[f[i]].experiment = trials[i].experiment /\ log[f[i]].value = trials[i].labels
    BY <1>1, Zenon DEF Pairs
  <2> QED BY <2>2, <2>3
<1>7. Pairs(f)'
  BY <1>5, <1>6 DEF Pairs
<1> QED BY <1>7 DEF TrialsLogged

(* The citations there are stay earned while registrations are kept.       *)
LEMMA CitationsKept ==
  ASSUME IsLog(log), CitationsEarned, NEW entry, log' = Append(log, entry),
         DOMAIN experiments \subseteq DOMAIN experiments',
         \A e \in DOMAIN experiments : experiments'[e].def = experiments[e].def,
         entry.kind = "promotion_evidence_set" /\ entry.value => Earned(Len(log) + 1, entry.experiment)
  PROVE  CitationsEarned'
<1>1. /\ DOMAIN log' = DOMAIN log \cup {Len(log) + 1}
      /\ \A i \in DOMAIN log : log'[i] = log[i]
      /\ log'[Len(log) + 1] = entry
      /\ Len(log) \in Nat /\ DOMAIN log = 1..Len(log)
  BY LogGrows
<1>2. \A k \in DOMAIN log \cup {Len(log) + 1} : \A kind, e :
        LoggedBefore(k, kind, e)' = LoggedBefore(k, kind, e)
  BY LogGrows
<1>3. ASSUME NEW k \in DOMAIN log \cup {Len(log) + 1}, NEW e, Earned(k, e) PROVE Earned(k, e)'
  <2>1. e \in DOMAIN experiments' /\ experiments'[e].def.processingDelay > 0
    BY <1>3 DEF Earned
  <2>2. PICK i \in LoggedBefore(k, "holdout_opened", e) : LoggedBefore(i, "results_viewed", e) # {}
    BY <1>3 DEF Earned
  <2>3. i \in DOMAIN log
    BY <1>1, <2>2 DEF LoggedBefore
  <2>4. /\ LoggedBefore(k, "holdout_opened", e)' = LoggedBefore(k, "holdout_opened", e)
        /\ LoggedBefore(i, "results_viewed", e)' = LoggedBefore(i, "results_viewed", e)
        /\ LoggedBefore(k, "trial_recorded", e)' = LoggedBefore(k, "trial_recorded", e)
    BY <1>2, <2>3
  <2>5. \A j \in LoggedBefore(k, "trial_recorded", e) : j \in DOMAIN log
    BY <1>1 DEF LoggedBefore
  <2>6. \A j \in LoggedBefore(k, "trial_recorded", e)' : log'[j].value \cap BarringCodes = {}
    BY <1>1, <1>3, <2>4, <2>5 DEF Earned
  <2>7. \E j \in LoggedBefore(k, "holdout_opened", e)' : LoggedBefore(j, "results_viewed", e)' # {}
    BY <2>2, <2>4
  <2> QED BY <2>1, <2>6, <2>7 DEF Earned
<1>4. ASSUME NEW k \in DOMAIN log', NEW e \in {log'[k].experiment},
             log'[k].kind = "promotion_evidence_set", log'[k].value
      PROVE  Earned(k, e)'
  <2>1. CASE k \in DOMAIN log
    <3>1. Earned(k, e)
      BY <1>1, <1>4, <2>1 DEF CitationsEarned
    <3> QED BY <1>3, <2>1, <3>1
  <2>2. CASE k = Len(log) + 1
    <3>1. entry.kind = "promotion_evidence_set" /\ entry.value /\ e = entry.experiment
      BY <1>1, <1>4, <2>2
    <3>2. Earned(k, e)
      BY <2>2, <3>1
    <3> QED BY <1>3, <2>2, <3>2
  <2> QED BY <1>1, <1>4, <2>1, <2>2
<1> QED BY <1>4 DEF CitationsEarned

(* Marking an experiment: what it was registered with stays, and what is   *)
(* marked was in order and is logged.                                      *)
LEMMA MarksKeep ==
  ASSUME RegistryInv, NEW e \in DOMAIN experiments, UNCHANGED trials,
         experiments' \in Seq(Experiment), Len(experiments') = Len(experiments),
         \A x \in DOMAIN experiments :
           /\ experiments'[x].def = experiments[x].def /\ experiments'[x].parent = experiments[x].parent
           /\ experiments'[x].labels = experiments[x].labels,
         NEW kind \in {"results_viewed", "holdout_opened", "promotion_evidence_set"}, NEW value,
         log' = Append(log, Entry(kind, e, value)),
         \A x \in DOMAIN experiments :
           /\ experiments'[x].viewed => experiments[x].viewed \/ (x = e /\ kind = "results_viewed")
           /\ experiments'[x].opened =>
                experiments[x].opened \/ (x = e /\ kind = "holdout_opened" /\ experiments[e].viewed),
         kind = "promotion_evidence_set" /\ value => MayCite(e)
  PROVE  RegistryInv'
<1> DEFINE entry == Entry(kind, e, value)
<1>1. entry.kind = kind /\ entry.experiment = e /\ entry.value = value /\ log' = Append(log, entry)
  BY DEF Entry
<1>2. IsLog(log) /\ IsLog(trials) /\ experiments \in Seq(Experiment)
  BY DEF RegistryInv, RegistryTyped
<1>3. DOMAIN experiments' = DOMAIN experiments
  BY <1>2
<1>4. /\ IsLog(log')
      /\ DOMAIN log' = DOMAIN log \cup {Len(log) + 1}
      /\ \A i \in DOMAIN log : log'[i] = log[i]
      /\ log'[Len(log) + 1] = entry
      /\ Len(log) \in Nat /\ DOMAIN log = 1..Len(log)
  <2> HIDE DEF entry
  <2> QED BY <1>1, <1>2, LogGrows
<1>5. /\ \A k \in DOMAIN log \cup {Len(log) + 1} : \A kd, x : LoggedBefore(k, kd, x)' = LoggedBefore(k, kd, x)
      /\ \A kd, x : Logged(kd, x) \subseteq Logged(kd, x)'
      /\ \A kd, x : Logged(kd, x) \subseteq DOMAIN log
      /\ Len(log) + 1 \in Logged(kind, e)'
  <2> HIDE DEF entry
  <2> QED BY <1>1, <1>2, LogGrows
<1>6. RegistryTyped'
  BY <1>2, <1>4 DEF RegistryTyped
<1>7. ParentsOlder'
  BY <1>3 DEF RegistryInv, ParentsOlder
<1>8. Registrations'
  <2>1. ASSUME NEW i \in DOMAIN log', log'[i].kind = "registered"
        PROVE  /\ log'[i].experiment \in DOMAIN experiments'
               /\ log'[i].value = experiments'[log'[i].experiment].parent
    <3>1. i \in DOMAIN log /\ log'[i] = log[i]
      BY <1>1, <1>4, <2>1
    <3>2. log[i].experiment \in DOMAIN experiments /\ log[i].value = experiments[log[i].experiment].parent
      BY <2>1, <3>1 DEF RegistryInv, Registrations
    <3> QED BY <1>3, <3>1, <3>2
  <2>2. ASSUME NEW x \in DOMAIN experiments'
        PROVE  \E i \in DOMAIN log' : log'[i].kind = "registered" /\ log'[i].experiment = x
    <3>1. PICK i \in DOMAIN log : log[i].kind = "registered" /\ log[i].experiment = x
      BY <1>3 DEF RegistryInv, Registrations
    <3> QED BY <1>4, <3>1
  <2> QED BY <2>1, <2>2 DEF Registrations
<1>9. TrialsLogged'
  <2> HIDE DEF entry
  <2>1. TrialsLogged /\ entry.kind # "trial_recorded"
    BY <1>1 DEF RegistryInv
  <2> QED BY <1>1, <1>2, <2>1, PairingKept
<1>10. ViewsLogged'
  <2>1. ASSUME NEW x \in DOMAIN experiments, experiments'[x].viewed PROVE Logged("results_viewed", x)' # {}
    <3>1. CASE experiments[x].viewed
      <4>1. Logged("results_viewed", x) # {}
        BY <3>1 DEF RegistryInv, ViewsLogged
      <4> QED BY <4>1, <1>5
    <3>2. CASE x = e /\ kind = "results_viewed"
      BY <1>5, <3>2
    <3> QED BY <2>1, <3>1, <3>2
  <2> QED BY <1>3, <2>1 DEF ViewsLogged
<1>11. OpeningsLogged'
  <2>1. ASSUME NEW x \in DOMAIN experiments, experiments'[x].opened
        PROVE  \E i \in Logged("holdout_opened", x)' : LoggedBefore(i, "results_viewed", x)' # {}
    <3>1. CASE experiments[x].opened
      <4>1. PICK i \in Logged("holdout_opened", x) : LoggedBefore(i, "results_viewed", x) # {}
        BY <3>1 DEF RegistryInv, OpeningsLogged
      <4>2. i \in DOMAIN log /\ i \in Logged("holdout_opened", x)'
        BY <1>5
      <4>3. LoggedBefore(i, "results_viewed", x)' = LoggedBefore(i, "results_viewed", x)
        BY <1>5, <4>2
      <4> QED BY <4>1, <4>2, <4>3
    <3>2. CASE x = e /\ kind = "holdout_opened" /\ experiments[e].viewed
      <4>1. PICK k : k = Len(log) + 1
        OBVIOUS
      <4>2. LoggedBefore(k, "results_viewed", x) # {}
        BY <3>2, <4>1 DEF RegistryInv, ViewsLogged, Logged
      <4>3. LoggedBefore(k, "results_viewed", x)' = LoggedBefore(k, "results_viewed", x)
        BY <1>5, <4>1
      <4>4. k \in Logged("holdout_opened", x)'
        BY <1>5, <3>2, <4>1
      <4> QED BY <4>2, <4>3, <4>4
    <3> QED BY <2>1, <3>1, <3>2
  <2> QED BY <1>3, <2>1 DEF OpeningsLogged
<1>12. DelaysLabelled'
  BY <1>3 DEF RegistryInv, DelaysLabelled
<1>13. CitationsEarned'
  <2>1. ASSUME kind = "promotion_evidence_set", value PROVE Earned(Len(log) + 1, e)
    <3>1. MayCite(e)
      BY <2>1
    <3>2. /\ experiments[e].opened
          /\ experiments[e].labels \cap BarringCodes = {}
          /\ \A i \in DOMAIN trials : trials[i].experiment = e => trials[i].labels \cap BarringCodes = {}
      BY <3>1 DEF MayCite, BlocksPromotionEvidence, TrialsOf
    <3>3. \E i \in LoggedBefore(Len(log) + 1, "holdout_opened", e) : LoggedBefore(i, "results_viewed", e) # {}
      BY <3>2 DEF RegistryInv, OpeningsLogged, Logged
    <3>4. PICK f : Pairs(f)
      BY DEF RegistryInv, TrialsLogged
    <3>5. ASSUME NEW k \in LoggedBefore(Len(log) + 1, "trial_recorded", e)
          PROVE  log[k].value \cap BarringCodes = {}
      <4>1. k \in TrialPlaces /\ log[k].experiment = e
        BY <1>4 DEF LoggedBefore, TrialPlaces
      <4>2. PICK i \in DOMAIN trials : f[i] = k
        BY <3>4, <4>1 DEF Pairs
      <4>3. trials[i].experiment = e /\ log[k].value = trials[i].labels
        BY <3>4, <4>1, <4>2 DEF Pairs
      <4> QED BY <3>2, <4>3
    <3>6. experiments[e].def.processingDelay > 0
      <4>1. experiments[e].def.processingDelay # 0
        BY <3>2 DEF RegistryInv, DelaysLabelled, BarringCodes
      <4>2. experiments[e].def \in Definitions
        <5>1. experiments[e] \in Experiment
          BY <1>2
        <5> QED BY <5>1 DEF Experiment
      <4>3. experiments[e].def.processingDelay \in Nat
        BY <4>2, DefinitionAssumption
      <4> QED BY <4>1, <4>3
    <3> QED BY <3>3, <3>5, <3>6 DEF Earned
  <2> HIDE DEF entry
  <2>2. entry.kind = "promotion_evidence_set" /\ entry.value => Earned(Len(log) + 1, entry.experiment)
    BY <1>1, <2>1
  <2>3. CitationsEarned
    BY DEF RegistryInv
  <2>4. /\ DOMAIN experiments \subseteq DOMAIN experiments'
        /\ \A x \in DOMAIN experiments : experiments'[x].def = experiments[x].def
    BY <1>3
  <2> QED BY <1>1, <1>2, <2>2, <2>3, <2>4, CitationsKept
<1> QED BY <1>6, <1>7, <1>8, <1>9, <1>10, <1>11, <1>12, <1>13 DEF RegistryInv

LEMMA ViewKeeps ==
  ASSUME RegistryInv, NEW e \in DOMAIN experiments, MarkResultsViewed(e)
  PROVE  RegistryInv'
<1>1. experiments \in Seq(Experiment) /\ experiments[e] \in Experiment
  BY DEF RegistryInv, RegistryTyped
<1>2. PICK r : r = [experiments[e] EXCEPT !.viewed = TRUE]
  OBVIOUS
<1>3. /\ r \in Experiment /\ r.def = experiments[e].def /\ r.parent = experiments[e].parent
      /\ r.labels = experiments[e].labels /\ r.opened = experiments[e].opened
  BY <1>1, <1>2 DEF Experiment
<1>4. experiments' = [experiments EXCEPT ![e] = r]
  BY <1>2 DEF MarkResultsViewed
<1>5. experiments' \in Seq(Experiment) /\ Len(experiments') = Len(experiments)
  BY <1>1, <1>3, <1>4
<1>6. \A x \in DOMAIN experiments : experiments'[x] = IF x = e THEN r ELSE experiments[x]
  BY <1>1, <1>4
<1>7. log' = Append(log, Entry("results_viewed", e, TRUE)) /\ UNCHANGED trials
  BY DEF MarkResultsViewed, Log
<1>8. \A x \in DOMAIN experiments :
        /\ experiments'[x].def = experiments[x].def /\ experiments'[x].parent = experiments[x].parent
        /\ experiments'[x].labels = experiments[x].labels
  BY <1>3, <1>6
<1>9. \A x \in DOMAIN experiments :
        /\ experiments'[x].viewed => experiments[x].viewed \/ (x = e /\ "results_viewed" = "results_viewed")
        /\ experiments'[x].opened =>
             experiments[x].opened \/ (x = e /\ "results_viewed" = "holdout_opened" /\ experiments[e].viewed)
  BY <1>3, <1>6
<1> QED BY <1>5, <1>7, <1>8, <1>9, MarksKeep

LEMMA OpeningKeeps ==
  ASSUME RegistryInv, NEW e \in DOMAIN experiments, OpenHoldout(e)
  PROVE  RegistryInv'
<1>1. experiments \in Seq(Experiment) /\ experiments[e] \in Experiment
  BY DEF RegistryInv, RegistryTyped
<1>2. PICK r : r = [experiments[e] EXCEPT !.opened = TRUE]
  OBVIOUS
<1>3. /\ r \in Experiment /\ r.def = experiments[e].def /\ r.parent = experiments[e].parent
      /\ r.labels = experiments[e].labels /\ r.viewed = experiments[e].viewed
  BY <1>1, <1>2 DEF Experiment
<1>4. experiments' = [experiments EXCEPT ![e] = r] /\ experiments[e].viewed
  BY <1>2 DEF OpenHoldout
<1>5. experiments' \in Seq(Experiment) /\ Len(experiments') = Len(experiments)
  BY <1>1, <1>3, <1>4
<1>6. \A x \in DOMAIN experiments : experiments'[x] = IF x = e THEN r ELSE experiments[x]
  BY <1>1, <1>4
<1>7. log' = Append(log, Entry("holdout_opened", e, TRUE)) /\ UNCHANGED trials
  BY DEF OpenHoldout, Log
<1>8. \A x \in DOMAIN experiments :
        /\ experiments'[x].def = experiments[x].def /\ experiments'[x].parent = experiments[x].parent
        /\ experiments'[x].labels = experiments[x].labels
  BY <1>3, <1>6
<1>9. \A x \in DOMAIN experiments :
        /\ experiments'[x].viewed => experiments[x].viewed \/ (x = e /\ "holdout_opened" = "results_viewed")
        /\ experiments'[x].opened =>
             experiments[x].opened \/ (x = e /\ "holdout_opened" = "holdout_opened" /\ experiments[e].viewed)
  BY <1>3, <1>4, <1>6
<1> QED BY <1>5, <1>7, <1>8, <1>9, MarksKeep

LEMMA CitationKeeps ==
  ASSUME RegistryInv, NEW e \in DOMAIN experiments, NEW value \in BOOLEAN, SetPromotionEvidence(e, value)
  PROVE  RegistryInv'
<1>1. experiments \in Seq(Experiment) /\ experiments[e] \in Experiment
  BY DEF RegistryInv, RegistryTyped
<1>2. PICK r : r = [experiments[e] EXCEPT !.cited = value]
  OBVIOUS
<1>3. /\ r \in Experiment /\ r.def = experiments[e].def /\ r.parent = experiments[e].parent
      /\ r.labels = experiments[e].labels /\ r.viewed = experiments[e].viewed /\ r.opened = experiments[e].opened
  BY <1>1, <1>2 DEF Experiment
<1>4. experiments' = [experiments EXCEPT ![e] = r] /\ (value => MayCite(e))
  BY <1>2 DEF SetPromotionEvidence
<1>5. experiments' \in Seq(Experiment) /\ Len(experiments') = Len(experiments)
  BY <1>1, <1>3, <1>4
<1>6. \A x \in DOMAIN experiments : experiments'[x] = IF x = e THEN r ELSE experiments[x]
  BY <1>1, <1>4
<1>7. log' = Append(log, Entry("promotion_evidence_set", e, value)) /\ UNCHANGED trials
  BY DEF SetPromotionEvidence, Log
<1>8. \A x \in DOMAIN experiments :
        /\ experiments'[x].def = experiments[x].def /\ experiments'[x].parent = experiments[x].parent
        /\ experiments'[x].labels = experiments[x].labels
  BY <1>3, <1>6
<1>9. \A x \in DOMAIN experiments :
        /\ experiments'[x].viewed => experiments[x].viewed \/ (x = e /\ "promotion_evidence_set" = "results_viewed")
        /\ experiments'[x].opened =>
             experiments[x].opened \/ (x = e /\ "promotion_evidence_set" = "holdout_opened" /\ experiments[e].viewed)
  BY <1>3, <1>6
<1> QED BY <1>4, <1>5, <1>7, <1>8, <1>9, MarksKeep

(* A registration is a new experiment, with an older parent or none.       *)
LEMMA RegistrationKeeps ==
  ASSUME RegistryInv, NEW d \in Definitions, NEW parent \in 0..Len(experiments), Register(d, parent, {})
  PROVE  RegistryInv'
<1> DEFINE all == {} \cup (IF d.processingDelay = 0 THEN {"OPTIMISTIC_DELAY"} ELSE {})
           rec == [def |-> d, parent |-> parent, labels |-> all, allowed |-> BlocksPromotionEvidence(all) = {},
                   viewed |-> FALSE, opened |-> FALSE, cited |-> FALSE]
<1>1. experiments \in Seq(Experiment) /\ IsLog(log) /\ IsLog(trials)
  BY DEF RegistryInv, RegistryTyped
<1>2. PICK new : new = Len(experiments) + 1
  OBVIOUS
<1>3. PICK r : r = rec
  OBVIOUS
<1>4. PICK entry : entry = Entry("registered", Len(experiments) + 1, parent)
  OBVIOUS
<1>5. experiments' = Append(experiments, r) /\ log' = Append(log, entry) /\ UNCHANGED trials
  BY <1>3, <1>4, Zenon DEF Register, Log
<1>6. /\ r \in Experiment /\ r.def = d /\ r.parent = parent /\ ~r.viewed /\ ~r.opened
      /\ d.processingDelay = 0 => "OPTIMISTIC_DELAY" \in r.labels
  <2>1. all \in SUBSET {"OPTIMISTIC_DELAY"} /\ parent \in Nat
    <3>1. parent \in Nat
      BY <1>1
    <3>2. \A x \in all : x = "OPTIMISTIC_DELAY"
      OBVIOUS
    <3>3. all \in SUBSET {"OPTIMISTIC_DELAY"}
      <4> HIDE DEF all
      <4> QED BY <3>2
    <3> QED BY <3>1, <3>3
  <2>2. PICK a : a = (BlocksPromotionEvidence(all) = {})
    OBVIOUS
  <2>3. a \in BOOLEAN
    BY <2>2, Zenon
  <2>4. d.processingDelay = 0 => "OPTIMISTIC_DELAY" \in all
    OBVIOUS
  <2> HIDE DEF all
  <2>5. r = [def |-> d, parent |-> parent, labels |-> all, allowed |-> a,
             viewed |-> FALSE, opened |-> FALSE, cited |-> FALSE]
    BY <1>3, <2>2, Zenon
  <2> QED BY <2>1, <2>3, <2>4, <2>5 DEF Experiment
<1>7. entry.kind = "registered" /\ entry.experiment = new /\ entry.value = parent
  BY <1>2, <1>4 DEF Entry
<1>8. /\ experiments' \in Seq(Experiment)
      /\ DOMAIN experiments' = DOMAIN experiments \cup {new}
      /\ new \notin DOMAIN experiments /\ new \in Nat /\ new - 1 = Len(experiments)
      /\ \A x \in DOMAIN experiments : experiments'[x] = experiments[x]
      /\ experiments'[new] = r
  BY <1>1, <1>2, <1>5, <1>6
<1>9. /\ IsLog(log')
      /\ DOMAIN log' = DOMAIN log \cup {Len(log) + 1}
      /\ \A i \in DOMAIN log : log'[i] = log[i]
      /\ log'[Len(log) + 1] = entry
  BY <1>1, <1>5, LogGrows
<1>10. /\ \A k \in DOMAIN log \cup {Len(log) + 1} : \A kd, x : LoggedBefore(k, kd, x)' = LoggedBefore(k, kd, x)
       /\ \A kd, x : Logged(kd, x) \subseteq Logged(kd, x)'
       /\ \A kd, x : Logged(kd, x) \subseteq DOMAIN log
  BY <1>1, <1>5, LogGrows
<1>11. RegistryTyped'
  BY <1>1, <1>5, <1>8, <1>9 DEF RegistryTyped
<1>12. ParentsOlder'
  <2>1. parent \in 0..(new - 1)
    BY <1>8
  <2> QED BY <1>6, <1>8, <2>1 DEF RegistryInv, ParentsOlder
<1>13. Registrations'
  <2>1. ASSUME NEW i \in DOMAIN log', log'[i].kind = "registered"
        PROVE  /\ log'[i].experiment \in DOMAIN experiments'
               /\ log'[i].value = experiments'[log'[i].experiment].parent
    <3>1. CASE i \in DOMAIN log
      <4>1. log[i].experiment \in DOMAIN experiments /\ log[i].value = experiments[log[i].experiment].parent
        BY <1>9, <2>1, <3>1 DEF RegistryInv, Registrations
      <4> QED BY <1>8, <1>9, <3>1, <4>1
    <3>2. CASE i = Len(log) + 1
      BY <1>6, <1>7, <1>8, <1>9, <3>2
    <3> QED BY <1>9, <3>1, <3>2
  <2>2. ASSUME NEW x \in DOMAIN experiments'
        PROVE  \E i \in DOMAIN log' : log'[i].kind = "registered" /\ log'[i].experiment = x
    <3>1. CASE x \in DOMAIN experiments
      <4>1. PICK i \in DOMAIN log : log[i].kind = "registered" /\ log[i].experiment = x
        BY <3>1 DEF RegistryInv, Registrations
      <4> QED BY <1>9, <4>1
    <3>2. CASE x = new
      BY <1>7, <1>9, <3>2
    <3> QED BY <1>8, <3>1, <3>2
  <2> QED BY <2>1, <2>2 DEF Registrations
<1>14. TrialsLogged'
  BY <1>1, <1>5, <1>7, PairingKept DEF RegistryInv
<1>15. ViewsLogged'
  BY <1>6, <1>8, <1>10 DEF RegistryInv, ViewsLogged
<1>16. OpeningsLogged'
  <2>1. ASSUME NEW x \in DOMAIN experiments', experiments'[x].opened
        PROVE  \E i \in Logged("holdout_opened", x)' : LoggedBefore(i, "results_viewed", x)' # {}
    <3>1. x \in DOMAIN experiments /\ experiments[x].opened
      BY <1>6, <1>8, <2>1
    <3>2. PICK i \in Logged("holdout_opened", x) : LoggedBefore(i, "results_viewed", x) # {}
      BY <3>1 DEF RegistryInv, OpeningsLogged
    <3>3. i \in DOMAIN log /\ i \in Logged("holdout_opened", x)'
      BY <1>10
    <3>4. LoggedBefore(i, "results_viewed", x)' = LoggedBefore(i, "results_viewed", x)
      BY <1>10, <3>3
    <3> QED BY <3>2, <3>3, <3>4
  <2> QED BY <2>1 DEF OpeningsLogged
<1>17. DelaysLabelled'
  BY <1>6, <1>8 DEF RegistryInv, DelaysLabelled
<1>18. CitationsEarned'
  <2>1. CitationsEarned /\ entry.kind # "promotion_evidence_set"
    BY <1>7 DEF RegistryInv
  <2>2. /\ DOMAIN experiments \subseteq DOMAIN experiments'
        /\ \A x \in DOMAIN experiments : experiments'[x].def = experiments[x].def
    BY <1>8
  <2> QED BY <1>1, <1>5, <2>1, <2>2, CitationsKept
<1> QED BY <1>11, <1>12, <1>13, <1>14, <1>15, <1>16, <1>17, <1>18 DEF RegistryInv

(* A trial is logged under the labels it is kept with.                     *)
LEMMA TrialKeeps ==
  ASSUME RegistryInv, NEW e \in DOMAIN experiments, NEW kind, NEW labels,
         RecordTrial(Trial(e, kind, labels))
  PROVE  RegistryInv'
<1>1. experiments \in Seq(Experiment) /\ IsLog(log) /\ IsLog(trials)
  BY DEF RegistryInv, RegistryTyped
<1>2. PICK row : row = [Trial(e, kind, labels) EXCEPT !.labels = @ \cup experiments[e].labels]
  OBVIOUS
<1>3. row.experiment = e /\ row.kind = kind
  BY <1>2 DEF Trial
<1>4. PICK entry : entry = Entry("trial_recorded", e, row.labels)
  OBVIOUS
<1>5. trials' = Append(trials, row) /\ log' = Append(log, entry) /\ UNCHANGED experiments
  <2>1. Trial(e, kind, labels).experiment = e
    BY DEF Trial
  <2>2. /\ trials' = Append(trials, row)
        /\ Log(Entry("trial_recorded", Trial(e, kind, labels).experiment, row.labels))
        /\ UNCHANGED experiments
    BY <1>2, <2>1, Zenon DEF RecordTrial
  <2> QED BY <1>4, <2>1, <2>2, Zenon DEF Log
<1>6. entry.kind = "trial_recorded" /\ entry.experiment = e /\ entry.value = row.labels
  BY <1>4 DEF Entry
<1>7. /\ IsLog(log')
      /\ DOMAIN log' = DOMAIN log \cup {Len(log) + 1}
      /\ Len(log) + 1 \notin DOMAIN log
      /\ \A i \in DOMAIN log : log'[i] = log[i]
      /\ log'[Len(log) + 1] = entry
  BY <1>1, <1>5, LogGrows
<1>8. /\ \A k \in DOMAIN log \cup {Len(log) + 1} : \A kd, x : LoggedBefore(k, kd, x)' = LoggedBefore(k, kd, x)
      /\ \A kd, x : Logged(kd, x) \subseteq Logged(kd, x)'
      /\ \A kd, x : Logged(kd, x) \subseteq DOMAIN log
  BY <1>1, <1>5, LogGrows
<1>9. /\ IsLog(trials')
      /\ DOMAIN trials' = DOMAIN trials \cup {Len(trials) + 1}
      /\ Len(trials) + 1 \notin DOMAIN trials
      /\ \A i \in DOMAIN trials : trials'[i] = trials[i]
      /\ trials'[Len(trials) + 1] = row
  BY <1>1, <1>5, AppendedLog
<1>10. RegistryTyped'
  BY <1>1, <1>5, <1>7, <1>9 DEF RegistryTyped
<1>11. ParentsOlder' /\ DelaysLabelled'
  BY <1>5 DEF RegistryInv, ParentsOlder, DelaysLabelled
<1>12. Registrations'
  <2>1. ASSUME NEW i \in DOMAIN log', log'[i].kind = "registered"
        PROVE  /\ log'[i].experiment \in DOMAIN experiments'
               /\ log'[i].value = experiments'[log'[i].experiment].parent
    <3>1. i \in DOMAIN log /\ log'[i] = log[i]
      BY <1>6, <1>7, <2>1
    <3>2. log[i].experiment \in DOMAIN experiments /\ log[i].value = experiments[log[i].experiment].parent
      BY <2>1, <3>1 DEF RegistryInv, Registrations
    <3> QED BY <1>5, <3>1, <3>2
  <2>2. ASSUME NEW x \in DOMAIN experiments'
        PROVE  \E i \in DOMAIN log' : log'[i].kind = "registered" /\ log'[i].experiment = x
    <3>1. PICK i \in DOMAIN log : log[i].kind = "registered" /\ log[i].experiment = x
      BY <1>5 DEF RegistryInv, Registrations
    <3> QED BY <1>7, <3>1
  <2> QED BY <2>1, <2>2 DEF Registrations
<1>13. TrialsLogged'
  <2>1. PICK f : Pairs(f)
    BY DEF RegistryInv, TrialsLogged
  <2>2. PICK n, k : n = Len(trials) + 1 /\ k = Len(log) + 1
    OBVIOUS
  <2>3. PICK g : g = [i \in DOMAIN trials \cup {n} |-> IF i = n THEN k ELSE f[i]]
    OBVIOUS
  <2>4. TrialPlaces' = TrialPlaces \cup {k} /\ k \notin TrialPlaces
    BY <1>6, <1>7, <2>2 DEF TrialPlaces
  <2>5. \A i \in DOMAIN trials : f[i] \in TrialPlaces
    BY <2>1 DEF Pairs
  <2>6. DOMAIN trials' = DOMAIN trials \cup {n} /\ n \notin DOMAIN trials
    BY <1>9, <2>2
  <2>7. g[n] = k /\ \A i \in DOMAIN trials : g[i] = f[i]
    BY <2>3, <2>6
  <2>8. g \in [DOMAIN trials' -> TrialPlaces']
    BY <2>3, <2>4, <2>5, <2>6
  <2>9. ASSUME NEW i \in DOMAIN trials', NEW j \in DOMAIN trials', g[i] = g[j] PROVE i = j
    <3>1. \A x, y \in DOMAIN trials : f[x] = f[y] => x = y
      BY <2>1 DEF Pairs
    <3> QED BY <2>4, <2>5, <2>6, <2>7, <2>9, <3>1
  <2>10. ASSUME NEW p \in TrialPlaces' PROVE \E i \in DOMAIN trials' : g[i] = p
    <3>1. CASE p \in TrialPlaces
      <4>1. PICK i \in DOMAIN trials : f[i] = p
        BY <2>1, <3>1 DEF Pairs
      <4> QED BY <2>6, <2>7, <4>1
    <3>2. CASE p = k
      BY <2>6, <2>7, <3>2
    <3> QED BY <2>4, <3>1, <3>2
  <2>11. ASSUME NEW i \in DOMAIN trials'
         PROVE  log'[g[i]].experiment = trials'[i].experiment /\ log'[g[i]].value = trials'[i].labels
    <3>1. CASE i = n
      <4>1. log'[g[i]] = entry /\ trials'[i] = row
        BY <1>7, <1>9, <2>2, <2>7, <3>1
      <4> QED BY <1>3, <1>6, <4>1
    <3>2. CASE i \in DOMAIN trials
      <4>1. f[i] \in DOMAIN log
        BY <2>5, <3>2 DEF TrialPlaces
      <4>2. log'[g[i]] = log[f[i]] /\ trials'[i] = trials[i]
        BY <1>7, <1>9, <2>7, <3>2, <4>1
      <4>3. log[f[i]].experiment = trials[i].experiment /\ log[f[i]].value = trials[i].labels
        BY <2>1, <3>2, Zenon DEF Pairs
      <4> QED BY <4>2, <4>3
    <3> QED BY <2>6, <3>1, <3>2
  <2>12. Pairs(g)'
    BY <2>8, <2>9, <2>10, <2>11 DEF Pairs
  <2> QED BY <2>12 DEF TrialsLogged
<1>14. ViewsLogged'
  BY <1>5, <1>8 DEF RegistryInv, ViewsLogged
<1>15. OpeningsLogged'
  <2>1. ASSUME NEW x \in DOMAIN experiments, experiments[x].opened
        PROVE  \E i \in Logged("holdout_opened", x)' : LoggedBefore(i, "results_viewed", x)' # {}
    <3>1. PICK i \in Logged("holdout_opened", x) : LoggedBefore(i, "results_viewed", x) # {}
      BY <2>1 DEF RegistryInv, OpeningsLogged
    <3>2. i \in DOMAIN log /\ i \in Logged("holdout_opened", x)'
      BY <1>8
    <3>3. LoggedBefore(i, "results_viewed", x)' = LoggedBefore(i, "results_viewed", x)
      BY <1>8, <3>2
    <3> QED BY <3>1, <3>2, <3>3
  <2> QED BY <1>5, <2>1 DEF OpeningsLogged
<1>16. CitationsEarned'
  <2>1. CitationsEarned /\ entry.kind # "promotion_evidence_set"
    BY <1>6 DEF RegistryInv
  <2> QED BY <1>1, <1>5, <2>1, CitationsKept
<1> QED BY <1>10, <1>11, <1>12, <1>13, <1>14, <1>15, <1>16 DEF RegistryInv

LEMMA RegistryStart == RegistryInit => RegistryInv
<1> SUFFICES ASSUME RegistryInit PROVE RegistryInv
  OBVIOUS
<1>1. experiments = <<>> /\ trials = <<>> /\ log = <<>>
  BY DEF RegistryInit
<1>2. RegistryTyped
  <2>1. experiments \in Seq(Experiment) /\ trials \in Seq({}) /\ log \in Seq({})
    BY <1>1
  <2> QED BY <2>1 DEF RegistryTyped, IsLog
<1>3. DOMAIN experiments = {} /\ DOMAIN trials = {} /\ DOMAIN log = {}
  BY <1>1
<1>4. TrialsLogged
  <2>1. PICK f : f = [i \in {} |-> 0]
    OBVIOUS
  <2>2. TrialPlaces = {}
    BY <1>3 DEF TrialPlaces
  <2>3. f \in [{} -> {}]
    BY <2>1
  <2>4. Pairs(f)
    BY <1>3, <2>2, <2>3 DEF Pairs
  <2> QED BY <2>4 DEF TrialsLogged
<1> QED
  BY <1>2, <1>3, <1>4
  DEF RegistryInv, ParentsOlder, Registrations, ViewsLogged, OpeningsLogged, DelaysLabelled, CitationsEarned

LEMMA RegistryStep == RegistryInv /\ [ResearchNext]_registryVars => RegistryInv'
<1> SUFFICES ASSUME RegistryInv, [ResearchNext]_registryVars PROVE RegistryInv'
  OBVIOUS
<1>1. ASSUME NEW d \in Definitions, NEW parent \in 0..Len(experiments), Register(d, parent, {})
      PROVE  RegistryInv'
  BY <1>1, RegistrationKeeps
<1>2. ASSUME NEW e \in DOMAIN experiments, MarkResultsViewed(e) PROVE RegistryInv'
  BY <1>2, ViewKeeps
<1>3. ASSUME NEW e \in DOMAIN experiments, OpenHoldout(e) PROVE RegistryInv'
  BY <1>3, OpeningKeeps
<1>4. ASSUME NEW e \in DOMAIN experiments, RecordSplit(e) PROVE RegistryInv'
  <2>1. PICK kind, labels : RecordTrial(Trial(e, kind, labels))
    BY <1>4, Zenon DEF RecordSplit
  <2> QED BY <2>1, TrialKeeps
<1>5. ASSUME NEW e \in DOMAIN experiments, RecordHoldout(e) PROVE RegistryInv'
  <2>1. PICK labels : RecordTrial(Trial(e, "HOLDOUT", labels))
    BY <1>5, Zenon DEF RecordHoldout
  <2> QED BY <2>1, TrialKeeps
<1>6. ASSUME NEW e \in DOMAIN experiments, NEW value \in BOOLEAN, SetPromotionEvidence(e, value)
      PROVE  RegistryInv'
  BY <1>6, CitationKeeps
<1>7. CASE UNCHANGED registryVars
  <2>1. experiments' = experiments /\ trials' = trials /\ log' = log
    BY <1>7 DEF registryVars
  <2>2. RegistryTyped' /\ ParentsOlder' /\ Registrations' /\ DelaysLabelled'
    BY <2>1 DEF RegistryInv, RegistryTyped, ParentsOlder, Registrations, DelaysLabelled
  <2>3. TrialsLogged'
    BY <2>1 DEF RegistryInv, TrialsLogged, Pairs, TrialPlaces
  <2>4. ViewsLogged' /\ OpeningsLogged'
    BY <2>1 DEF RegistryInv, ViewsLogged, OpeningsLogged, Logged, LoggedBefore
  <2>5. CitationsEarned'
    BY <2>1 DEF RegistryInv, CitationsEarned, Earned, LoggedBefore
  <2> QED BY <2>2, <2>3, <2>4, <2>5 DEF RegistryInv
<1> QED
  BY <1>1, <1>2, <1>3, <1>4, <1>5, <1>6, <1>7, Zenon DEF ResearchNext

LEMMA RegistryInvAlways == ResearchSpec => []RegistryInv
<1>. QED BY RegistryStart, RegistryStep, PTL DEF ResearchSpec

LEMMA RegistryInvCites == RegistryInv => CitationWasEarned
<1> SUFFICES ASSUME RegistryInv PROVE CitationWasEarned
  OBVIOUS
<1>1. experiments \in Seq(Experiment) /\ IsLog(log) /\ IsLog(trials)
  BY DEF RegistryInv, RegistryTyped
<1>2. IsLog(experiments) /\ Len(experiments) \in Nat
  BY <1>1 DEF IsLog
<1>3. ASSUME NEW e \in DOMAIN experiments
      PROVE  CumulativeTrialCount(e) =
               Cardinality(UNION {LoggedBefore(Len(log) + 1, "trial_recorded", x) : x \in AncestorsOf(e)})
  <2>1. PICK f : /\ IsWalk(f, e, Len(experiments))
                 /\ CumulativeTrialCount(e) = Cardinality(UNION {TrialsOf(x) : x \in f[Len(experiments)]})
    BY <1>2, CountWalks
  <2>2. f[Len(experiments)] = AncestorsOf(e)
    BY <1>2, <2>1, WalkEndsAtAncestors DEF RegistryInv
  <2>3. PICK A : A = AncestorsOf(e)
    OBVIOUS
  <2>4. Cardinality(UNION {TrialsOf(x) : x \in A})
          = Cardinality(UNION {LoggedBefore(Len(log) + 1, "trial_recorded", x) : x \in A})
    BY <1>1, CountsAgree DEF RegistryInv
  <2> QED BY <2>1, <2>2, <2>3, <2>4
<1>4. ASSUME NEW k \in DOMAIN log, log[k].kind = "promotion_evidence_set", log[k].value
      PROVE  Earned(k, log[k].experiment)
  BY <1>4 DEF RegistryInv, CitationsEarned
<1> QED
  BY <1>3, <1>4 DEF CitationWasEarned, Earned

(* A citation was earned, in whatever order a researcher views, opens,     *)
(* records and cites, for any definitions and any depth of descent; and    *)
(* the count of trials leaves out none that the log has (registry.ts       *)
(* 386-507).                                                               *)
THEOREM CitationsAreEarned == ResearchSpec => []CitationWasEarned
<1>. QED BY RegistryInvAlways, RegistryInvCites, PTL

-----------------------------------------------------------------------------
(* Sorted and filtered rows.                                               *)

(* A part of a finite set that leaves a member out is smaller.             *)
LEMMA PartIsSmaller ==
  ASSUME NEW S, IsFiniteSet(S), NEW T \in SUBSET S, NEW x \in S, x \notin T
  PROVE  /\ IsFiniteSet(T) /\ Cardinality(T) \in Nat /\ Cardinality(S) \in Nat
         /\ Cardinality(T) < Cardinality(S)
<1>1. IsFiniteSet(T) /\ Cardinality(T) <= Cardinality(S) /\ (Cardinality(S) = Cardinality(T) => S = T)
  BY FS_Subset
<1>2. Cardinality(T) \in Nat /\ Cardinality(S) \in Nat
  BY <1>1, FS_CardinalityType
<1>3. S # T
  OBVIOUS
<1> QED BY <1>1, <1>2, <1>3

(* R orders S strictly and leaves no two members uncompared.               *)
StrictOrder(S, R) ==
  /\ \A x \in S : <<x, x>> \notin R
  /\ \A x, y, z \in S : <<x, y>> \in R /\ <<y, z>> \in R => <<x, z>> \in R
  /\ \A x, y \in S : x # y => <<x, y>> \in R \/ <<y, x>> \in R

(* Ranked lists every member once, after as many as come before it.        *)
LEMMA RankedLists ==
  ASSUME NEW S, IsFiniteSet(S), NEW R, StrictOrder(S, R)
  PROVE  /\ Cardinality(S) \in Nat
         /\ Ranked(S, R) \in [1..Cardinality(S) -> S]
         /\ \A n \in 1..Cardinality(S) : Cardinality({x \in S : <<x, Ranked(S, R)[n]>> \in R}) = n - 1
         /\ \A m, n \in 1..Cardinality(S) : Ranked(S, R)[m] = Ranked(S, R)[n] => m = n
         /\ \A m, n \in 1..Cardinality(S) : m < n => <<Ranked(S, R)[m], Ranked(S, R)[n]>> \in R
         /\ \A e \in S : \E n \in 1..Cardinality(S) : Ranked(S, R)[n] = e
<1> DEFINE Below(e) == {x \in S : <<x, e>> \in R}
           f == [e \in S |-> Cardinality(Below(e)) + 1]
           N == Cardinality(S)
<1>1. N \in Nat
  BY FS_CardinalityType
<1>2. ASSUME NEW e \in S PROVE Cardinality(Below(e)) \in Nat /\ Cardinality(Below(e)) < N /\ IsFiniteSet(Below(e))
  <2>1. Below(e) \in SUBSET S /\ e \notin Below(e)
    BY DEF StrictOrder
  <2> HIDE DEF Below
  <2> QED BY <2>1, PartIsSmaller
<1>3. ASSUME NEW x \in S, NEW y \in S, <<x, y>> \in R PROVE Cardinality(Below(x)) < Cardinality(Below(y))
  <2>1. Below(x) \in SUBSET Below(y) /\ x \in Below(y) /\ x \notin Below(x)
    BY <1>3 DEF StrictOrder
  <2>2. IsFiniteSet(Below(y))
    BY <1>2
  <2> HIDE DEF Below
  <2> QED BY <2>1, <2>2, PartIsSmaller
<1>4. \A x, y \in S : Cardinality(Below(x)) = Cardinality(Below(y)) => x = y
  <2> SUFFICES ASSUME NEW x \in S, NEW y \in S, Cardinality(Below(x)) = Cardinality(Below(y)), x # y PROVE FALSE
    OBVIOUS
  <2>1. <<x, y>> \in R \/ <<y, x>> \in R
    BY DEF StrictOrder
  <2>2. Cardinality(Below(x)) \in Nat /\ Cardinality(Below(y)) \in Nat
    BY <1>2
  <2>3. Cardinality(Below(x)) < Cardinality(Below(y)) \/ Cardinality(Below(y)) < Cardinality(Below(x))
    BY <2>1, <1>3
  <2> HIDE DEF Below
  <2> QED BY <2>2, <2>3
<1> HIDE DEF Below
<1>5. f \in [S -> 1..N]
  BY <1>1, <1>2
<1>6. \A x, y \in S : f[x] = f[y] => x = y
  BY <1>2, <1>4
<1>7. f \in Injection(S, 1..N)
  BY <1>5, <1>6, Fun_IsInj
<1>8. IsFiniteSet(1..N) /\ Cardinality(1..N) = N
  <2>1. 1 \in Int /\ N \in Int
    BY <1>1
  <2>2. IsFiniteSet(1..N) /\ Cardinality(1..N) = IF 1 > N THEN 0 ELSE N - 1 + 1
    BY <2>1, FS_Interval
  <2> QED BY <2>2, <1>1
<1>9. f \in Surjection(S, 1..N)
  BY <1>7, <1>8, FS_Injection
<1>10. ASSUME NEW n \in 1..N PROVE \E e \in S : Cardinality(Below(e)) = n - 1
  <2>1. PICK e \in S : f[e] = n
    <3> HIDE DEF f
    <3> QED BY <1>9 DEF Surjection
  <2> QED BY <2>1, <1>1, <1>2
<1>11. Ranked(S, R) = [n \in 1..N |-> CHOOSE e \in S : Cardinality(Below(e)) = n - 1]
  BY DEF Ranked, Below
<1>12. ASSUME NEW n \in 1..N PROVE Ranked(S, R)[n] \in S /\ Cardinality(Below(Ranked(S, R)[n])) = n - 1
  BY <1>10, <1>11
<1>13. Ranked(S, R) \in [1..N -> S]
  BY <1>11, <1>12
<1>14. \A m, n \in 1..N : Ranked(S, R)[m] = Ranked(S, R)[n] => m = n
  BY <1>1, <1>12
<1>15. ASSUME NEW e \in S PROVE \E n \in 1..N : Ranked(S, R)[n] = e
  <2>1. f[e] \in 1..N /\ f[e] - 1 = Cardinality(Below(e))
    BY <1>5, <1>2, <1>1
  <2>2. Ranked(S, R)[f[e]] \in S /\ Cardinality(Below(Ranked(S, R)[f[e]])) = Cardinality(Below(e))
    BY <2>1, <1>12
  <2>3. Ranked(S, R)[f[e]] = e
    BY <2>2, <1>4
  <2> QED BY <2>1, <2>3
<1>16. ASSUME NEW m \in 1..N, NEW n \in 1..N, m < n PROVE <<Ranked(S, R)[m], Ranked(S, R)[n]>> \in R
  <2>1. PICK a \in S, b \in S : a = Ranked(S, R)[m] /\ b = Ranked(S, R)[n]
    BY <1>13
  <2>2. Cardinality(Below(a)) = m - 1 /\ Cardinality(Below(b)) = n - 1
    BY <1>12, <2>1
  <2>3. a # b
    BY <1>1, <1>16, <2>2
  <2>4. <<b, a>> \notin R
    BY <1>1, <1>3, <1>16, <2>2
  <2> QED BY <2>1, <2>3, <2>4 DEF StrictOrder
<1> QED BY <1>1, <1>12, <1>13, <1>14, <1>15, <1>16 DEF Below

(* Computed once or each time, it is the same function.                    *)
LEMMA TabulatedIs ==
  ASSUME NEW f
  PROVE  Tabulated(f) = f
<1> QED BY DEF Tabulated

(* r lists the members of S, by their keys.                                *)
ListedBy(S, key, r) ==
  /\ Cardinality(S) \in Nat /\ r \in [1..Cardinality(S) -> S]
  /\ \A m, n \in 1..Cardinality(S) : m < n => key[r[m]] < key[r[n]]
  /\ \A e \in S : \E n \in 1..Cardinality(S) : r[n] = e

(* RankedBy lists every member once.                                       *)
LEMMA RankedByLists ==
  ASSUME NEW S, IsFiniteSet(S), NEW key, \A x \in S : key[x] \in Int,
         \A x, y \in S : key[x] = key[y] => x = y
  PROVE  ListedBy(S, key, RankedBy(S, key))
<1> DEFINE R == {p \in S \X S : key[p[1]] < key[p[2]]}
           N == Cardinality(S)
           place == [e \in S |-> Cardinality({x \in S : key[x] < key[e]}) + 1]
<1>1. StrictOrder(S, R)
  BY DEF StrictOrder
<1>2. /\ N \in Nat
      /\ Ranked(S, R) \in [1..N -> S]
      /\ \A n \in 1..N : Cardinality({x \in S : <<x, Ranked(S, R)[n]>> \in R}) = n - 1
      /\ \A m, n \in 1..N : m < n => <<Ranked(S, R)[m], Ranked(S, R)[n]>> \in R
      /\ \A e \in S : \E n \in 1..N : Ranked(S, R)[n] = e
  <2> HIDE DEF R
  <2> QED BY <1>1, RankedLists
<1>3. ASSUME NEW n \in 1..N PROVE place[Ranked(S, R)[n]] = n
  <2>1. PICK e \in S : e = Ranked(S, R)[n]
    BY <1>2
  <2>2. {x \in S : <<x, e>> \in R} = {x \in S : key[x] < key[e]}
    OBVIOUS
  <2>3. Cardinality({x \in S : <<x, Ranked(S, R)[n]>> \in R}) = n - 1
    BY <1>2
  <2>4. Cardinality({x \in S : <<x, e>> \in R}) = n - 1
    <3> HIDE DEF R, place
    <3> QED BY <2>1, <2>3, Zenon
  <2>5. Cardinality({x \in S : key[x] < key[e]}) = n - 1
    BY <2>2, <2>4
  <2>6. place[e] = (n - 1) + 1
    BY <2>5
  <2>7. (n - 1) + 1 = n
    OBVIOUS
  <2> HIDE DEF place, R
  <2> QED BY <2>1, <2>6, <2>7
<1>4. PICK r \in [1..N -> S] : r = Ranked(S, R)
  BY <1>2
<1>5. /\ \A n \in 1..N : place[r[n]] = n
      /\ \A e \in S : \E n \in 1..N : r[n] = e
  <2> HIDE DEF place, R
  <2> QED BY <1>2, <1>3, <1>4
<1> DEFINE at == Tabulated(place)
           g == [n \in 1..N |-> CHOOSE e \in S : at[e] = n]
<1>6. at = place
  BY TabulatedIs, Zenon
<1>7. RankedBy(S, key) = Tabulated(g)
  BY DEF RankedBy
<1>8. Tabulated(g) = g
  <2> HIDE DEF g
  <2> QED BY TabulatedIs, Zenon
<1>9. ASSUME NEW e \in S PROVE at[e] \in 1..N /\ r[at[e]] = e
  <2> HIDE DEF at, place, R
  <2> QED BY <1>5, <1>6
<1>10. \A n \in 1..N : \E e \in S : at[e] = n
  <2> HIDE DEF at, place, R
  <2> QED BY <1>4, <1>5, <1>6
<1>11. ASSUME NEW n \in 1..N PROVE g[n] \in S /\ at[g[n]] = n
  <2> HIDE DEF at
  <2> QED BY <1>10
<1>12. g \in [1..N -> S]
  <2>1. \A n \in 1..N : (CHOOSE e \in S : at[e] = n) \in S
    <3> HIDE DEF at
    <3> QED BY <1>10
  <2> HIDE DEF at
  <2> QED BY <2>1
<1>13. ASSUME NEW e \in S PROVE \E n \in 1..N : g[n] = e
  <2> HIDE DEF g, at, place, R
  <2>1. g[at[e]] \in S /\ at[g[at[e]]] = at[e] /\ r[at[e]] = e /\ at[e] \in 1..N
    BY <1>9, <1>11
  <2>2. r[at[g[at[e]]]] = g[at[e]]
    BY <2>1, <1>9
  <2> QED BY <2>1, <2>2
<1>14. ASSUME NEW m \in 1..N, NEW n \in 1..N, m < n PROVE key[g[m]] < key[g[n]]
  <2>1. g[m] \in S /\ r[m] = g[m] /\ g[n] \in S /\ r[n] = g[n]
    <3> HIDE DEF g, at, place, R
    <3> QED BY <1>9, <1>11
  <2>2. <<r[m], r[n]>> \in R
    <3> HIDE DEF g, at, place, R
    <3> QED BY <1>2, <1>4, <1>14
  <2> HIDE DEF g, at, place
  <2> QED BY <2>1, <2>2
<1>15. PICK h : h = RankedBy(S, key)
  OBVIOUS
<1>16. h = g
  BY <1>7, <1>8, <1>15
<1> HIDE DEF g, at, place, R
<1>17. ListedBy(S, key, h)
  BY <1>2, <1>12, <1>13, <1>14, <1>16 DEF ListedBy
<1> QED BY <1>15, <1>17

(* Keeping gives what is at the places, and misses none of them.           *)
KeptIn(s, I, order) ==
  /\ order \in [1..Cardinality(I) -> I]
  /\ Keeping(s, I) = [k \in 1..Cardinality(I) |-> s[order[k]]]
  /\ \A i \in I : \E k \in 1..Cardinality(I) : order[k] = i
  /\ \A k, l \in 1..Cardinality(I) : k < l => order[k] < order[l]

LEMMA KeepingLists ==
  ASSUME NEW s, NEW n \in Nat, NEW I \in SUBSET (1..n)
  PROVE  Cardinality(I) \in Nat /\ \E order : KeptIn(s, I, order)
<1> DEFINE R == {p \in I \X I : p[1] < p[2]}
<1>1. IsFiniteSet(I)
  <2>1. IsFiniteSet(1..n)
    BY FS_Interval
  <2> QED BY <2>1, FS_Subset
<1>2. StrictOrder(I, R)
  <2>1. \A i \in I : i \in Int
    OBVIOUS
  <2> QED BY <2>1 DEF StrictOrder
<1>3. /\ Cardinality(I) \in Nat
      /\ Ranked(I, R) \in [1..Cardinality(I) -> I]
      /\ \A e \in I : \E k \in 1..Cardinality(I) : Ranked(I, R)[k] = e
      /\ \A k, l \in 1..Cardinality(I) : k < l => <<Ranked(I, R)[k], Ranked(I, R)[l]>> \in R
  <2> HIDE DEF R
  <2> QED BY <1>1, <1>2, RankedLists
<1>4. PICK order : order = Ranked(I, R)
  OBVIOUS
<1>5. Keeping(s, I) = Tabulated([k \in DOMAIN order |-> s[order[k]]])
  BY <1>4 DEF Keeping
<1>6. Tabulated([k \in DOMAIN order |-> s[order[k]]]) = [k \in DOMAIN order |-> s[order[k]]]
  BY TabulatedIs
<1>7. DOMAIN order = 1..Cardinality(I)
  BY <1>3, <1>4
<1>8. Keeping(s, I) = [k \in 1..Cardinality(I) |-> s[order[k]]]
  BY <1>5, <1>6, <1>7
<1>9. \A k, l \in 1..Cardinality(I) : k < l => order[k] < order[l]
  <2>1. \A p \in R : p[1] < p[2]
    OBVIOUS
  <2> HIDE DEF R
  <2> QED BY <1>3, <1>4, <2>1
<1>10. KeptIn(s, I, order)
  <2> HIDE DEF R
  <2> QED BY <1>3, <1>4, <1>8, <1>9 DEF KeptIn
<1> HIDE DEF R
<1> QED BY <1>3, <1>10

-----------------------------------------------------------------------------
(* Series: the bars a run reads, and the levels over them.                 *)

(* What a function makes of finitely many points is finitely many.         *)
LEMMA ImageIsFinite ==
  ASSUME NEW S, IsFiniteSet(S), NEW f
  PROVE  IsFiniteSet({f[x] : x \in S})
<1>1. PICK g : g = [x \in S |-> f[x]]
  OBVIOUS
<1>2. g \in Surjection(S, {f[x] : x \in S})
  BY <1>1 DEF Surjection
<1> QED BY <1>2, FS_Surjection

(* The store's rows of an entity: finitely many, one of a session and id.  *)
RowsTyped(rows) ==
  /\ IsFiniteSet(rows)
  /\ \A r, o \in rows :
       /\ r.session \in Int /\ r.id \in Int
       /\ r.session = o.session /\ r.id = o.id => r = o

(* A list of n entries, each dated by a session.                           *)
DatedList(s, n) == DOMAIN s = 1..n /\ s = [i \in 1..n |-> s[i]] /\ \A i \in 1..n : s[i].session \in Int

(* Such a list, one entry of a day after that of the day before.           *)
InOrderOfDays(s, n) == DatedList(s, n) /\ \A i, j \in 1..n : i < j => s[i].session < s[j].session

(* The bars are in the order of their days, and a tradable bar is of a row *)
(* of its session that was not stale.                                      *)
LEMMA BarsAreRows ==
  ASSUME NEW rows, RowsTyped(rows), NEW actions, NEW from, NEW to, NEW at
  PROVE  /\ \E n \in Nat : DatedList(RawSeries(rows, actions, from, to, at), n)
         /\ \E n \in Nat : InOrderOfDays(RawSeries(rows, actions, from, to, at), n)
         /\ \A i \in DOMAIN RawSeries(rows, actions, from, to, at) :
              LET bar == RawSeries(rows, actions, from, to, at)[i]
              IN bar.tradable => \E r \in rows : r.session = bar.session /\ ~r.stale
<1> DEFINE seen == {r \in RowsRead(rows, at) : r.session \in from..to}
           youngest == {r \in seen : \A o \in seen : o.session = r.session => o.id <= r.id}
           stale(r) == r.stale \/ \E a \in actions : a.kind = "STALE_BAR" /\ a.ex = r.session
           rec == [r \in rows |-> [session |-> r.session, open |-> r.open, close |-> r.close,
                                   volume |-> r.volume, tradable |-> ~stale(r)]]
           bars == {rec[r] : r \in youngest}
           key == [b \in bars |-> b.session]
<1>1. youngest \in SUBSET rows
  BY DEF RowsRead
<1>2. IsFiniteSet(youngest)
  <2> HIDE DEF youngest
  <2> QED BY <1>1, FS_Subset DEF RowsTyped
<1>3. IsFiniteSet(bars)
  <2> HIDE DEF youngest, rec
  <2> QED BY <1>2, ImageIsFinite
<1>4. RawSeries(rows, actions, from, to, at) = RankedBy(bars, key)
  <2>1. {[session |-> r.session, open |-> r.open, close |-> r.close, volume |-> r.volume,
          tradable |-> ~stale(r)] : r \in youngest} = bars
    <3> HIDE DEF youngest, stale
    <3> QED BY <1>1
  <2>2. RawSeries(rows, actions, from, to, at)
          = BySession({[session |-> r.session, open |-> r.open, close |-> r.close, volume |-> r.volume,
                        tradable |-> ~stale(r)] : r \in youngest})
    BY DEF RawSeries
  <2> HIDE DEF bars, youngest, stale
  <2> QED BY <2>1, <2>2 DEF BySession
<1>5. ASSUME NEW r \in youngest
      PROVE  rec[r].session = r.session /\ (rec[r].tradable => ~r.stale)
  BY <1>1
<1>6. ASSUME NEW b \in bars
      PROVE  \E r \in rows : r \in youngest /\ b = rec[r] /\ b.session = r.session /\ b.session \in Int
                             /\ (b.tradable => ~r.stale)
  <2>1. PICK r \in youngest : b = rec[r]
    OBVIOUS
  <2> HIDE DEF youngest, rec, bars
  <2> QED BY <2>1, <1>1, <1>5 DEF RowsTyped
<1>7. \A r, o \in youngest : r.session = o.session => r = o
  <2> SUFFICES ASSUME NEW r \in youngest, NEW o \in youngest, r.session = o.session PROVE r = o
    OBVIOUS
  <2>1. r.id <= o.id /\ o.id <= r.id
    OBVIOUS
  <2>2. r \in rows /\ o \in rows
    BY <1>1
  <2> HIDE DEF youngest
  <2> QED BY <2>1, <2>2 DEF RowsTyped
<1>8. (\A b \in bars : key[b] \in Int) /\ (\A a, b \in bars : key[a] = key[b] => a = b)
  <2> HIDE DEF youngest, rec, bars
  <2> QED BY <1>6, <1>7
<1>9. PICK s : s = RawSeries(rows, actions, from, to, at)
  OBVIOUS
<1>10. ListedBy(bars, key, s)
  <2> HIDE DEF bars, key
  <2> QED BY <1>3, <1>4, <1>8, <1>9, RankedByLists
<1>11. PICK n : n = Cardinality(bars)
  OBVIOUS
<1>12. n \in Nat /\ s \in [1..n -> bars]
  <2> HIDE DEF bars, key
  <2> QED BY <1>10, <1>11 DEF ListedBy
<1>13. DatedList(s, n)
  <2> HIDE DEF bars
  <2> QED BY <1>6, <1>12 DEF DatedList
<1>14. \A i, j \in 1..n : i < j => s[i].session < s[j].session
  <2>1. \A i \in 1..n : key[s[i]] = s[i].session
    <3>1. \A b \in bars : key[b] = b.session
      OBVIOUS
    <3> HIDE DEF bars, key
    <3> QED BY <1>12, <3>1
  <2>2. \A i, j \in 1..n : i < j => key[s[i]] < key[s[j]]
    <3> HIDE DEF bars, key
    <3> QED BY <1>10, <1>11 DEF ListedBy
  <2> HIDE DEF key
  <2> QED BY <2>1, <2>2
<1>15. \A i \in DOMAIN s : s[i].tradable => \E r \in rows : r.session = s[i].session /\ ~r.stale
  <2> HIDE DEF bars
  <2> QED BY <1>6, <1>12
<1>16. InOrderOfDays(s, n)
  BY <1>13, <1>14 DEF InOrderOfDays
<1> HIDE DEF bars
<1> QED BY <1>9, <1>12, <1>13, <1>15, <1>16

(* Such a list is a sequence of its entries.                               *)
LEMMA ListIsSeq ==
  ASSUME NEW s, NEW n \in Nat, DatedList(s, n), NEW S, \A i \in 1..n : s[i] \in S
  PROVE  s \in Seq(S) /\ Len(s) = n
<1>1. s \in [1..n -> S]
  BY DEF DatedList
<1>2. s \in Seq(S)
  BY <1>1, SeqDef
<1>3. DOMAIN s = 1..Len(s) /\ Len(s) \in Nat
  BY <1>2
<1>4. DOMAIN s = 1..n
  BY <1>1
<1>5. PICK k : k = Len(s)
  OBVIOUS
<1>6. 1..n = 1..k
  BY <1>3, <1>4, <1>5, Zenon
<1>7. k \in Nat
  BY <1>3, <1>5, Zenon
<1>8. ~(n < k) /\ ~(k < n)
  <2>1. n < k => k \in 1..k /\ k \notin 1..n
    BY <1>7
  <2>2. k < n => n \in 1..n /\ n \notin 1..k
    BY <1>7
  <2> QED BY <2>1, <2>2, <1>6
<1> QED BY <1>2, <1>5, <1>7, <1>8

(* A list of dated entries runs over finitely many sessions, and so do two *)
(* of them, one after the other.                                           *)
LEMMA ListsAreDated ==
  ASSUME NEW s, NEW m \in Nat, DatedList(s, m), NEW t, NEW n \in Nat, DatedList(t, n)
  PROVE  IsFiniteSet(SessionsOf(s \o t)) /\ SessionsOf(s \o t) \subseteq Int
<1>1. PICK S : S = {s[i] : i \in 1..m} \cup {t[i] : i \in 1..n}
  OBVIOUS
<1>2. s \in Seq(S) /\ t \in Seq(S) /\ Len(s) = m /\ Len(t) = n
  <2>1. (\A i \in 1..m : s[i] \in S) /\ (\A i \in 1..n : t[i] \in S)
    BY <1>1
  <2> QED BY <2>1, ListIsSeq
<1>3. PICK u : u = s \o t
  OBVIOUS
<1>4. /\ DOMAIN u = 1..(m + n)
      /\ \A i \in 1..(m + n) : u[i] = IF i <= m THEN s[i] ELSE t[i - m]
  <2>1. /\ Len(u) = m + n /\ u \in Seq(S)
        /\ \A i \in 1..(m + n) : u[i] = IF i <= m THEN s[i] ELSE t[i - m]
    BY ZenonT(30), <1>2, <1>3, ConcatProperties
  <2> QED BY <2>1
<1>5. \A i \in 1..(m + n) : u[i].session \in Int
  <2> SUFFICES ASSUME NEW i \in 1..(m + n) PROVE u[i].session \in Int
    OBVIOUS
  <2>1. CASE i <= m
    <3>1. i \in 1..m
      BY <2>1
    <3> QED BY <2>1, <3>1, <1>4 DEF DatedList
  <2>2. CASE ~(i <= m)
    <3>1. i - m \in 1..n
      BY <2>2
    <3> QED BY <2>2, <3>1, <1>4 DEF DatedList
  <2> QED BY <2>1, <2>2
<1>6. PICK places : places = 1..(m + n)
  OBVIOUS
<1>7. IsFiniteSet(places)
  <2>1. 1 \in Int /\ m + n \in Int
    OBVIOUS
  <2> QED BY <2>1, <1>6, FS_Interval
<1>8. PICK f : f = [i \in places |-> u[i].session]
  OBVIOUS
<1>9. IsFiniteSet(SessionsOf(u))
  <2>1. IsFiniteSet({f[i] : i \in places})
    BY <1>7, ImageIsFinite
  <2>2. SessionsOf(u) = {f[i] : i \in places}
    BY <1>4, <1>6, <1>8 DEF SessionsOf
  <2> QED BY <2>1, <2>2
<1>10. SessionsOf(u) \subseteq Int
  BY <1>4, <1>5 DEF SessionsOf
<1> QED BY <1>3, <1>9, <1>10

(* The points of an ending, after a last bar of session last and a last    *)
(* point z.                                                                *)
LEMMA EndingIsDated ==
  ASSUME NEW ends, IsFiniteSet(ends), NEW last \in Int, NEW z, \A e \in ends : e.ex \in Int
  PROVE  \E n \in Nat :
           DatedList(SetToSeq({[session |-> IF e.kind = "DELISTING" THEN last + 1 ELSE e.ex,
                                tr |-> (z.tr * e.value * Level) \div z.adj,
                                adj |-> e.value * Level, dist |-> 0] : e \in ends}), n)
<1> DEFINE f == [e \in ends |-> [session |-> IF e.kind = "DELISTING" THEN last + 1 ELSE e.ex,
                                 tr |-> (z.tr * e.value * Level) \div z.adj,
                                 adj |-> e.value * Level, dist |-> 0]]
           E == {f[e] : e \in ends}
<1>1. IsFiniteSet(E)
  <2> HIDE DEF f
  <2> QED BY ImageIsFinite
<1>2. \A x \in E : x.session \in Int
  OBVIOUS
<1>3. E = {[session |-> IF e.kind = "DELISTING" THEN last + 1 ELSE e.ex,
            tr |-> (z.tr * e.value * Level) \div z.adj,
            adj |-> e.value * Level, dist |-> 0] : e \in ends}
  OBVIOUS
<1> HIDE DEF E
<1>4. Cardinality(E) \in Nat /\ ExistsBijection(1..Cardinality(E), E)
  BY <1>1, FS_CardinalityType
<1>5. \E g \in [1..Cardinality(E) -> E] : IsInjective(g)
  BY <1>4 DEF ExistsBijection, Bijection, Injection
<1>6. SetToSeq(E) \in [1..Cardinality(E) -> E]
  BY <1>5 DEF SetToSeq
<1>7. DatedList(SetToSeq(E), Cardinality(E))
  BY <1>2, <1>6 DEF DatedList
<1> QED BY <1>3, <1>4, <1>7

(* A total-return series runs over finitely many sessions.                 *)
LEMMA SeriesIsDated ==
  ASSUME NEW raw, NEW n \in Nat, DatedList(raw, n),
         NEW actions, IsFiniteSet(actions), \A a \in actions : a.ex \in Int
  PROVE  /\ IsFiniteSet(SessionsOf(TotalReturnSeries(raw, actions)))
         /\ SessionsOf(TotalReturnSeries(raw, actions)) \subseteq Int
<1> DEFINE ends == Ending(actions)
           I == {i \in DOMAIN raw : raw[i].tradable /\ \A e \in ends : raw[i].session <= e.ex}
           bars == Keeping(raw, I)
           splits == {a \in actions : a.kind = "SPLIT" /\ a.ex > bars[1].session /\ a.ex <= Last(bars).session}
           end == Factor(splits, Last(bars).session)
           scaled(x, session) == (x * Factor(splits, session) * Level) \div end
           paid == Tabulated([i \in DOMAIN bars |->
                     [adj |-> scaled(bars[i].close, bars[i].session),
                      dist |-> scaled(DistributionAt(bars, actions, bars[i].session), bars[i].session)]])
           Grown[i \in DOMAIN bars] ==
             IF i = 1 THEN Level ELSE (Grown[i - 1] * (paid[i].adj + paid[i].dist)) \div paid[i - 1].adj
           points == [i \in DOMAIN bars |->
                       [session |-> bars[i].session, tr |-> Grown[i], adj |-> paid[i].adj, dist |-> paid[i].dist]]
           head == Tabulated(points)
           tail == SetToSeq({[session |-> IF e.kind = "DELISTING" THEN Last(bars).session + 1 ELSE e.ex,
                              tr |-> (Last(head).tr * e.value * Level) \div Last(head).adj,
                              adj |-> e.value * Level, dist |-> 0] : e \in ends})
<1>1. TotalReturnSeries(raw, actions) = IF bars = <<>> THEN <<>> ELSE head \o tail
  BY DEF TotalReturnSeries
<1>2. IsFiniteSet(ends) /\ \A e \in ends : e.ex \in Int
  <2>1. ends \in SUBSET actions
    BY DEF Ending
  <2> HIDE DEF ends
  <2> QED BY <2>1, FS_Subset
<1>3. PICK m \in Nat : DatedList(bars, m)
  <2>1. I \in SUBSET (1..n)
    BY DEF DatedList
  <2> HIDE DEF I
  <2>2. Cardinality(I) \in Nat /\ \E order : KeptIn(raw, I, order)
    BY <2>1, KeepingLists
  <2>3. PICK order \in [1..Cardinality(I) -> I] : bars = [k \in 1..Cardinality(I) |-> raw[order[k]]]
    BY <2>2 DEF KeptIn
  <2>4. \A k \in 1..Cardinality(I) : raw[order[k]].session \in Int
    <3> HIDE DEF bars
    <3> QED BY <2>1 DEF DatedList
  <2> HIDE DEF bars
  <2> QED BY <2>2, <2>3, <2>4 DEF DatedList
<1>4. DatedList(head, m)
  <2>1. head = points
    <3> HIDE DEF points
    <3> QED BY TabulatedIs
  <2>2. DatedList(points, m)
    <3> HIDE DEF bars, paid, Grown
    <3>1. DOMAIN points = 1..m /\ \A i \in 1..m : points[i].session = bars[i].session
      BY <1>3 DEF DatedList
    <3>2. points = [i \in 1..m |-> points[i]]
      BY <1>3 DEF DatedList
    <3> HIDE DEF points
    <3> QED BY <3>1, <3>2, <1>3 DEF DatedList
  <2> HIDE DEF head, points
  <2> QED BY <2>1, <2>2
<1>5. ASSUME bars # <<>> PROVE Last(bars).session \in Int
  <2> HIDE DEF bars
  <2>1. Len(bars) = m
    <3>1. \A i \in 1..m : bars[i] \in {bars[j] : j \in 1..m}
      OBVIOUS
    <3> QED BY <3>1, <1>3, ListIsSeq
  <2>2. m # 0
    BY <1>3, <1>5 DEF DatedList
  <2>3. m \in 1..m
    BY <2>2
  <2> QED BY <2>1, <2>3, <1>3 DEF Last, DatedList
<1>6. ASSUME bars # <<>>
       PROVE  IsFiniteSet(SessionsOf(head \o tail)) /\ SessionsOf(head \o tail) \subseteq Int
  <2>1. Last(bars).session \in Int
    BY <1>5, <1>6
  <2>2. \E k \in Nat : DatedList(tail, k)
    <3> HIDE DEF ends, bars, head
    <3> QED BY ZenonT(30), <2>1, <1>2, EndingIsDated
  <2> HIDE DEF bars, head, tail
  <2> QED BY <2>2, <1>4, ListsAreDated
<1>7. IsFiniteSet(SessionsOf(<<>>)) /\ SessionsOf(<<>>) \subseteq Int
  <2>1. SessionsOf(<<>>) = {}
    BY DEF SessionsOf
  <2> QED BY <2>1, FS_EmptySet
<1> HIDE DEF bars, head, tail
<1> QED BY SMTT(20), <1>1, <1>6, <1>7

-----------------------------------------------------------------------------
(* What a run of the backtest shows.                                       *)

(* The sessions of a finite set of days are listed, each once.             *)
LEMMA AscendingLists ==
  ASSUME NEW S, IsFiniteSet(S), S \subseteq Int
  PROVE  /\ Cardinality(S) \in Nat
         /\ Ascending(S) \in [1..Cardinality(S) -> S]
         /\ \A m, n \in 1..Cardinality(S) : m < n => Ascending(S)[m] < Ascending(S)[n]
         /\ \A e \in S : \E n \in 1..Cardinality(S) : Ascending(S)[n] = e
<1>1. PICK key : key = [s \in S |-> s]
  OBVIOUS
<1>2. \A s \in S : key[s] = s /\ key[s] \in Int
  BY <1>1
<1>3. \A s, t \in S : key[s] = key[t] => s = t
  BY <1>2
<1>4. PICK r, N : r = RankedBy(S, key) /\ N = Cardinality(S)
  OBVIOUS
<1>5. /\ N \in Nat /\ r \in [1..N -> S]
      /\ \A m, n \in 1..N : m < n => key[r[m]] < key[r[n]]
      /\ \A e \in S : \E n \in 1..N : r[n] = e
  <2>1. ListedBy(S, key, RankedBy(S, key))
    BY <1>2, <1>3, RankedByLists
  <2>2. ListedBy(S, key, r)
    BY <1>4, <2>1
  <2> QED BY <1>4, <2>2 DEF ListedBy
<1>6. \A m, n \in 1..N : m < n => r[m] < r[n]
  BY <1>2, <1>5
<1>7. Ascending(S) = r
  BY <1>1, <1>4 DEF Ascending
<1> QED BY <1>4, <1>5, <1>6, <1>7

(* An index that has a price at all has points.                            *)
LEMMA PricedIndexHasPoints ==
  ASSUME NEW equity, NEW cash, NEW placed, NEW expected,
         IsFiniteSet(SessionsOf(cash.tr)), SessionsOf(cash.tr) \subseteq Int,
         VolatilityTargetedSeries(equity, cash, placed, expected).exact
  PROVE  VolatilityTargetedSeries(equity, cash, placed, expected).points # <<>>
<1> DEFINE common == CommonSessions(equity.tr, cash.tr)
           seen == SessionsOf(equity.tr) \cup SessionsOf(cash.tr) \cup expected
           acts == SortedActivations(placed)
<1>1. common # {}
  BY DEF VolatilityTargetedSeries
<1>2. IsFiniteSet(common) /\ common \subseteq Int
  BY FS_Intersection DEF CommonSessions
<1>3. Cardinality(common) \in Nat /\ Cardinality(common) # 0
  <2> HIDE DEF common
  <2> QED BY <1>1, <1>2, FS_CardinalityType, FS_EmptySet
<1>4. PICK s : s = Ascending(common)
  OBVIOUS
<1>5. DOMAIN s = 1..Cardinality(common)
  <2> HIDE DEF common
  <2> QED BY <1>2, <1>4, AscendingLists
<1>6. VolatilityTargetedSeries(equity, cash, placed, expected) = IndexOver(equity, cash, acts, s, seen)
  BY <1>1, <1>4 DEF VolatilityTargetedSeries
<1>7. \E f : IndexOver(equity, cash, acts, s, seen).points = [k \in DOMAIN s |-> [session |-> s[k], tr |-> f[k].index]]
  <2> HIDE DEF acts, seen
  <2> QED BY DEF IndexOver
<1>8. DOMAIN IndexOver(equity, cash, acts, s, seen).points = DOMAIN s
  <2> HIDE DEF acts, seen
  <2> QED BY <1>7
<1>9. 1 \in DOMAIN s
  <2> HIDE DEF common
  <2> QED BY <1>3, <1>5
<1> HIDE DEF acts, seen, common
<1> QED BY <1>6, <1>8, <1>9

(* A comparator that is exact runs from the first session to the last.     *)
LEMMA ExactSpans ==
  ASSUME NEW run, NEW series, NEW sessions, NEW delay,
         IsFiniteSet(SessionsOf(series[CashEtf].tr)), SessionsOf(series[CashEtf].tr) \subseteq Int,
         Secondary2Of(run, series, sessions, delay).exact
  PROVE  LET points == Secondary2Of(run, series, sessions, delay).points
         IN points[1].session = sessions[1] /\ Last(points).session = Last(sessions)
<1> DEFINE s2 == Secondary2Activations(run.weights, series[Primary].bars, delay)
           index == VolatilityTargetedSeries(series[Primary], series[CashEtf], s2.placed, ToSet(sessions))
<1>1. Secondary2Of(run, series, sessions, delay) = Comparator(run, s2, index, sessions)
  BY DEF Secondary2Of
<1> HIDE DEF s2
<1>2. index.exact => index.points # <<>>
  BY PricedIndexHasPoints
<1> HIDE DEF index
<1>3. Comparator(run, s2, index, sessions).exact
  BY <1>1
<1>4. /\ index.exact
      /\ index.points = <<>> \/ (index.points[1].session = sessions[1] /\ Last(index.points).session = Last(sessions))
      /\ Comparator(run, s2, index, sessions).points = index.points
  BY <1>3 DEF Comparator
<1> QED BY <1>1, <1>2, <1>4

(* The parts of a run's result that the verdicts rest on.                  *)
ComesOf(in, bt, run, series) ==
  /\ series = [e \in Universe |-> LoadExecutionSeries(in, e, in.from, in.to, in.to)]
  /\ run = RunThrough(in, series, WeeklyDecisionSessions(in.from, in.to))
  /\ bt.decisions = run.decisions /\ bt.primaryBars = series[Primary].bars
  /\ bt.sessions = SessionDates(in.from, in.to)
  /\ bt.secondary2 = Secondary2Of(run, series, SessionDates(in.from, in.to), in.delay)
  /\ bt.navGaps = NavDistortingSessions(bt.points, series)

LEMMA BacktestShows == ASSUME NEW in PROVE \E run, series : ComesOf(in, RunBacktest(in), run, series)
<1>1. PICK series : series = [e \in Universe |-> LoadExecutionSeries(in, e, in.from, in.to, in.to)]
  OBVIOUS
<1>2. RunBacktest(in) = RunOver(in, series)
  <2>1. RunBacktest(in) = RunOver(in, Tabulated([e \in Universe |-> LoadExecutionSeries(in, e, in.from, in.to, in.to)]))
    BY DEF RunBacktest
  <2> QED BY <1>1, <2>1, TabulatedIs
<1> DEFINE sessions == SessionDates(in.from, in.to)
           done == RunThrough(in, series, WeeklyDecisionSessions(in.from, in.to))
<1>3. RunOver(in, series) = Valued(in, sessions, series, done)
  BY DEF RunOver
<1>4. PICK run : run = done
  <2> HIDE DEF sessions, done
  <2> QED OBVIOUS
<1>5. RunOver(in, series) = Valued(in, sessions, series, run)
  <2> HIDE DEF sessions, done
  <2> QED BY <1>3, <1>4
<1>6. \E points, passive : Valued(in, sessions, series, run) = BacktestResult(in, sessions, series, run, points, passive)
  <2> HIDE DEF sessions
  <2> QED BY DEF Valued
<1>7. PICK points, passive : RunBacktest(in) = BacktestResult(in, sessions, series, run, points, passive)
  <2> HIDE DEF sessions
  <2> QED BY <1>2, <1>5, <1>6
<1>8. /\ BacktestResult(in, sessions, series, run, points, passive).sessions = sessions
      /\ BacktestResult(in, sessions, series, run, points, passive).decisions = run.decisions
      /\ BacktestResult(in, sessions, series, run, points, passive).primaryBars = series[Primary].bars
      /\ BacktestResult(in, sessions, series, run, points, passive).secondary2 = Secondary2Of(run, series, sessions, in.delay)
      /\ BacktestResult(in, sessions, series, run, points, passive).points = points
      /\ BacktestResult(in, sessions, series, run, points, passive).navGaps = NavDistortingSessions(points, series)
  <2> HIDE DEF sessions
  <2> QED BY DEF BacktestResult
<1>9. /\ RunBacktest(in).sessions = sessions
      /\ RunBacktest(in).decisions = run.decisions
      /\ RunBacktest(in).primaryBars = series[Primary].bars
      /\ RunBacktest(in).secondary2 = Secondary2Of(run, series, sessions, in.delay)
      /\ RunBacktest(in).navGaps = NavDistortingSessions(RunBacktest(in).points, series)
  <2> HIDE DEF sessions
  <2> QED BY <1>7, <1>8
<1>10. run = RunThrough(in, series, WeeklyDecisionSessions(in.from, in.to))
  BY <1>4
<1>11. ComesOf(in, RunBacktest(in), run, series)
  <2> HIDE DEF done
  <2> QED BY <1>1, <1>9, <1>10 DEF ComesOf
<1> QED BY <1>11

(* What the market gives a run of an instrument.                           *)
LEMMA LegIsDated ==
  ASSUME NEW d \in Definitions, NEW w, NEW e \in Universe
  PROVE  LET leg == LoadExecutionSeries(InputOf(d, w), e, InputOf(d, w).from, InputOf(d, w).to, InputOf(d, w).to)
         IN /\ IsFiniteSet(SessionsOf(leg.tr)) /\ SessionsOf(leg.tr) \subseteq Int
            /\ \A i \in DOMAIN leg.bars :
                 leg.bars[i].tradable => \E r \in Market(d).rows[e] : r.session = leg.bars[i].session /\ ~r.stale
<1>1. PICK rows : rows = Market(d).rows[e]
  OBVIOUS
<1>2. PICK actions : actions = {a \in Market(d).actions[e] : a.known <= w[2]}
  OBVIOUS
<1>3. RowsTyped(rows)
  BY <1>1, MarketAssumption DEF RowsTyped
<1>4. IsFiniteSet(actions) /\ \A a \in actions : a.ex \in Int
  <2>1. actions \in SUBSET Market(d).actions[e]
    BY <1>2
  <2>2. IsFiniteSet(Market(d).actions[e]) /\ \A a \in Market(d).actions[e] : a.ex \in Int
    BY MarketAssumption
  <2> QED BY <2>1, <2>2, FS_Subset
<1>5. PICK bars : bars = RawSeries(rows, actions, w[1], w[2], w[2])
  OBVIOUS
<1>6. LoadExecutionSeries(InputOf(d, w), e, InputOf(d, w).from, InputOf(d, w).to, InputOf(d, w).to)
        = [bars |-> bars, actions |-> actions, tr |-> TotalReturnSeries(bars, actions)]
  <2>1. /\ InputOf(d, w).rows = Market(d).rows /\ InputOf(d, w).actions = Market(d).actions
        /\ InputOf(d, w).from = w[1] /\ InputOf(d, w).to = w[2]
    BY DEF InputOf
  <2> QED BY <2>1, <1>1, <1>2, <1>5 DEF LoadExecutionSeries
<1>7. /\ \E n \in Nat : DatedList(bars, n)
      /\ \A i \in DOMAIN bars : bars[i].tradable => \E r \in rows : r.session = bars[i].session /\ ~r.stale
  BY <1>3, <1>5, BarsAreRows
<1>8. IsFiniteSet(SessionsOf(TotalReturnSeries(bars, actions))) /\ SessionsOf(TotalReturnSeries(bars, actions)) \subseteq Int
  BY <1>4, <1>7, SeriesIsDated
<1> QED BY <1>1, <1>6, <1>7, <1>8

(* A run without a gap and with an exact comparator is measured.           *)
LEMMA RunMeasures ==
  ASSUME NEW d \in Definitions, NEW w, NEW run, run.backtest = BacktestOf(d, w),
         run.backtest.secondary2.exact, run.backtest.navGaps = {}
  PROVE  Measured(d, run)
<1>1. PICK in : in = InputOf(d, w)
  OBVIOUS
<1>2. run.backtest = RunBacktest(in)
  BY <1>1 DEF BacktestOf
<1>3. PICK done, series :
           /\ series = [e \in Universe |-> LoadExecutionSeries(in, e, in.from, in.to, in.to)]
           /\ run.backtest.sessions = SessionDates(in.from, in.to)
           /\ run.backtest.secondary2 = Secondary2Of(done, series, SessionDates(in.from, in.to), in.delay)
           /\ run.backtest.navGaps = NavDistortingSessions(run.backtest.points, series)
  <2>1. \E done, series : ComesOf(in, RunBacktest(in), done, series)
    BY BacktestShows
  <2>2. PICK done, series : ComesOf(in, run.backtest, done, series)
    BY <1>2, <2>1
  <2> QED BY <2>2 DEF ComesOf
<1>4. \A e \in Universe :
        /\ IsFiniteSet(SessionsOf(series[e].tr)) /\ SessionsOf(series[e].tr) \subseteq Int
        /\ \A i \in DOMAIN series[e].bars :
             series[e].bars[i].tradable =>
               \E r \in Market(d).rows[e] : r.session = series[e].bars[i].session /\ ~r.stale
  BY <1>1, <1>3, LegIsDated
<1>5. DOMAIN series = Universe /\ CashEtf \in Universe
  BY <1>3 DEF Universe
<1>6. PICK points : points = run.backtest.secondary2.points
  OBVIOUS
<1>7. points[1].session = run.backtest.sessions[1] /\ Last(points).session = Last(run.backtest.sessions)
  <2>1. PICK sessions : sessions = SessionDates(in.from, in.to)
    OBVIOUS
  <2>2. Secondary2Of(done, series, sessions, in.delay).exact
    BY <1>3, <2>1
  <2>3. IsFiniteSet(SessionsOf(series[CashEtf].tr)) /\ SessionsOf(series[CashEtf].tr) \subseteq Int
    BY <1>4, <1>5
  <2>4. points = Secondary2Of(done, series, sessions, in.delay).points
    BY <1>3, <1>6, <2>1
  <2>5. points[1].session = sessions[1] /\ Last(points).session = Last(sessions)
    BY <2>2, <2>3, <2>4, ExactSpans
  <2> QED BY <1>3, <2>1, <2>5
<1>8. ASSUME NEW i \in DOMAIN run.backtest.points, NEW x \in run.backtest.points[i].held
      PROVE  \E r \in Market(d).rows[x] : r.session = run.backtest.points[i].session /\ ~r.stale
  <2>1. PICK p : p = run.backtest.points[i]
    OBVIOUS
  <2>2. p \in ToSet(run.backtest.points)
    BY <2>1 DEF ToSet
  <2>3. p.session \notin NavDistortingSessions(run.backtest.points, series)
    BY <1>3
  <2>4. x \in DOMAIN series /\ ~BarDistortsLevel(series[x].bars, p.session)
    BY <2>1, <2>2, <2>3 DEF NavDistortingSessions
  <2>5. PICK k \in DOMAIN series[x].bars : series[x].bars[k].session = p.session /\ series[x].bars[k].tradable
    BY <2>4 DEF BarDistortsLevel
  <2> QED BY <1>4, <1>5, <2>1, <2>4, <2>5
<1> QED BY <1>6, <1>7, <1>8 DEF Measured

-----------------------------------------------------------------------------
(* The schedule of a charter.                                              *)

(* A window of the walk-forward starts after its design window and the gap.*)
LEMMA GapIsLeft ==
  ASSUME NEW range, NEW w, NEW start
  PROVE  LET split == WalkForwardSplit(range, w, start)
         IN /\ split.kind = "WALK_FORWARD"
            /\ split.evaluation[1] = split.design[2] + w.purge + w.embargo + 1
BY DEF WalkForwardSplit, Split

(* The windows roll on in a list.                                          *)
LEMMA WindowsRoll ==
  ASSUME NEW range, NEW w
  PROVE  /\ \E n \in Nat : WalkForwardSplits(range, w) \in [1..n -> ToSet(WalkForwardSplits(range, w))]
         /\ \A s \in ToSet(WalkForwardSplits(range, w)) : \E start : s = WalkForwardSplit(range, w, start)
<1> DEFINE Start[i \in 0..MaxSplits] == IF i = 0 THEN range[1] ELSE AddMonths(Start[i - 1], w.step)
           all == [i \in 0..MaxSplits |-> WalkForwardSplit(range, w, Start[i])]
           fits == {i \in DOMAIN all : all[i].evaluation[1] <= range[2]
                                       /\ \A j \in 0..(i - 1) : all[j].evaluation[2] < range[2]}
           n == Cardinality(fits)
<1>1. MaxSplits \in Nat
  BY CalendarAssumption
<1>2. n \in Nat /\ n <= MaxSplits + 1
  <2>1. 0 \in Int /\ MaxSplits \in Int
    BY <1>1
  <2>2. IsFiniteSet(0..MaxSplits) /\ Cardinality(0..MaxSplits) = MaxSplits + 1
    BY <2>1, <1>1, FS_Interval
  <2>3. fits \in SUBSET (0..MaxSplits)
    <3> HIDE DEF Start
    <3> QED OBVIOUS
  <2> HIDE DEF fits
  <2>4. IsFiniteSet(fits) /\ Cardinality(fits) <= Cardinality(0..MaxSplits)
    BY <2>2, <2>3, FS_Subset
  <2> QED BY <2>2, <2>4, FS_CardinalityType
<1>3. WalkForwardSplits(range, w) = [k \in 1..n |-> all[k - 1]]
  BY DEF WalkForwardSplits
<1>4. \A k \in 1..n : all[k - 1] = WalkForwardSplit(range, w, Start[k - 1])
  <2>1. \A k \in 1..n : k - 1 \in 0..MaxSplits
    <3> HIDE DEF n
    <3> QED BY <1>1, <1>2
  <2> HIDE DEF n, Start
  <2> QED BY <2>1
<1> HIDE DEF n, all, Start
<1>5. PICK s : s = WalkForwardSplits(range, w)
  OBVIOUS
<1>6. DOMAIN s = 1..n /\ \A k \in 1..n : s[k] = WalkForwardSplit(range, w, Start[k - 1])
  BY <1>3, <1>4, <1>5
<1>7. s \in [1..n -> ToSet(s)]
  BY <1>3, <1>5 DEF ToSet
<1>8. \A x \in ToSet(s) : \E start : x = WalkForwardSplit(range, w, start)
  BY <1>6 DEF ToSet
<1> QED BY <1>2, <1>5, <1>7, <1>8

(* The plan is a list, and its walk-forward windows are those of the       *)
(* schedule.                                                               *)
LEMMA PlanIsListed ==
  ASSUME NEW c
  PROVE  LET splits == SplitPlan(c).splits
         IN /\ \E n \in Nat : DOMAIN splits = 1..n
            /\ \A s \in ToSet(splits) :
                 s.kind = "WALK_FORWARD" => s \in ToSet(WalkForwardSplits(c.design, c.walkForward))
<1>1. PICK rolled : rolled = WalkForwardSplits(c.design, c.walkForward)
  OBVIOUS
<1>2. PICK n \in Nat : rolled \in [1..n -> ToSet(rolled)]
  BY <1>1, WindowsRoll
<1>3. PICK S : S = {DesignSplit(c), RecentSplit(c)} \cup ToSet(rolled)
  OBVIOUS
<1>4. rolled \in Seq(S)
  <2>1. rolled \in [1..n -> S]
    BY <1>2, <1>3
  <2> QED BY <2>1, SeqDef
<1>5. PICK first : first = <<DesignSplit(c)>>
  OBVIOUS
<1>6. PICK last : last = <<RecentSplit(c)>>
  OBVIOUS
<1>7. first \in Seq(S) /\ last \in Seq(S)
  BY <1>3, <1>5, <1>6
<1>8. PICK splits : splits = (first \o rolled) \o last
  OBVIOUS
<1>9. splits \in Seq(S)
  BY <1>4, <1>7, <1>8
<1>10. SplitPlan(c).splits = splits
  BY <1>1, <1>5, <1>6, <1>8 DEF SplitPlan
<1>11. DOMAIN splits = 1..Len(splits) /\ Len(splits) \in Nat /\ \A s \in ToSet(splits) : s \in S
  BY <1>9 DEF ToSet
<1>12. \A s \in S : s.kind = "WALK_FORWARD" => s \in ToSet(rolled)
  BY <1>3 DEF DesignSplit, RecentSplit, Split
<1>13. \E m \in Nat : DOMAIN splits = 1..m
  BY <1>11, Zenon
<1>14. \A s \in ToSet(splits) : s.kind = "WALK_FORWARD" => s \in ToSet(rolled)
  BY <1>11, <1>12
<1> QED BY <1>1, <1>10, <1>13, <1>14

(* A planned walk-forward window leaves the gap, and is dated.             *)
LEMMA PlanLeavesTheGap ==
  ASSUME NEW d \in Definitions, NEW w \in ToSet(SplitPlan(Charter(d)).splits), w.kind = "WALK_FORWARD"
  PROVE  /\ w.design[2] + Charter(d).walkForward.purge + Charter(d).walkForward.embargo < w.evaluation[1]
         /\ w.evaluation[1] \in Int
<1>1. PICK c : c = Charter(d)
  OBVIOUS
<1>2. w \in ToSet(WalkForwardSplits(c.design, c.walkForward))
  BY <1>1, PlanIsListed
<1>3. PICK start : w = WalkForwardSplit(c.design, c.walkForward, start)
  BY <1>2, WindowsRoll
<1>4. w.evaluation[1] = w.design[2] + c.walkForward.purge + c.walkForward.embargo + 1
  BY <1>3, GapIsLeft
<1>5. w.design[2] \in Int /\ c.walkForward.purge \in Nat /\ c.walkForward.embargo \in Nat
  BY <1>1, <1>2, ScheduleAssumption
<1> QED BY <1>1, <1>4, <1>5

-----------------------------------------------------------------------------
(* The evaluation of a definition.                                         *)

EvaluatedKinds == {"DESIGN", "WALK_FORWARD", "RECENT"}

(* sel is the part of the plan that is run, and splits what came of it.    *)
EvaluatedBy(d, sel, n, splits) ==
  /\ n \in Nat /\ DOMAIN sel = 1..n /\ DOMAIN splits = 1..n
  /\ \A i \in 1..n :
       /\ sel[i] \in ToSet(SplitPlan(Charter(d)).splits) /\ sel[i].kind \in EvaluatedKinds
       /\ splits[i] = RunSplit(Charter(d), sel[i], BacktestOf(d, sel[i].evaluation))
  /\ Evaluations[d] = EvaluationReport(SplitPlan(Charter(d)), splits,
                        Pool(Charter(d), ForwardOf(splits), ForwardOf(SplitPlan(Charter(d)).splits)))

LEMMA EvaluationShape == ASSUME NEW d \in Definitions PROVE \E sel, n, splits : EvaluatedBy(d, sel, n, splits)
<1>1. PICK c : c = Charter(d)
  OBVIOUS
<1>2. PICK plan : plan = SplitPlan(c)
  OBVIOUS
<1>3. PICK m \in Nat : DOMAIN plan.splits = 1..m
  BY <1>2, PlanIsListed
<1> DEFINE I == {i \in DOMAIN plan.splits : plan.splits[i].kind # "HOLDOUT" /\ plan.splits[i].kind \in EvaluatedKinds}
<1>4. PICK sel : sel = Keeping(plan.splits, I)
  OBVIOUS
<1>5. Selected(c, EvaluatedKinds) = sel
  BY <1>2, <1>4 DEF Selected
<1>6. I \in SUBSET (1..m)
  BY <1>3
<1>7. Cardinality(I) \in Nat /\ \E order : KeptIn(plan.splits, I, order)
  <2> HIDE DEF I
  <2> QED BY <1>6, KeepingLists
<1>8. PICK order \in [1..Cardinality(I) -> I] : sel = [k \in 1..Cardinality(I) |-> plan.splits[order[k]]]
  <2> HIDE DEF I
  <2> QED BY <1>4, <1>7 DEF KeptIn
<1>9. PICK n \in Nat : n = Cardinality(I)
  BY <1>7
<1>10. DOMAIN sel = 1..n /\ \A i \in 1..n : sel[i] \in ToSet(plan.splits) /\ sel[i].kind \in EvaluatedKinds
  <2>1. DOMAIN sel = 1..n /\ \A i \in 1..n : order[i] \in I /\ sel[i] = plan.splits[order[i]]
    <3> HIDE DEF I
    <3> QED BY <1>8, <1>9
  <2> QED BY <2>1 DEF ToSet
<1>11. PICK backtests : backtests = [w \in {s.evaluation : s \in ToSet(sel)} |-> BacktestOf(d, w)]
  OBVIOUS
<1>12. \A i \in 1..n : backtests[sel[i].evaluation] = BacktestOf(d, sel[i].evaluation)
  BY <1>10, <1>11 DEF ToSet
<1>13. EvaluationOf(d) = RunEvaluation(c, EvaluatedKinds, backtests)
  BY <1>1, <1>5, <1>11 DEF EvaluationOf, EvaluatedKinds
<1>14. PICK splits : splits = [i \in DOMAIN sel |-> RunSplit(c, sel[i], backtests[sel[i].evaluation])]
  OBVIOUS
<1>15. Tabulated([i \in DOMAIN sel |-> RunSplit(c, sel[i], backtests[sel[i].evaluation])]) = splits
  BY <1>14, TabulatedIs
<1>16. RunEvaluation(c, EvaluatedKinds, backtests)
         = EvaluationReport(plan, splits, Pool(c, ForwardOf(splits), ForwardOf(plan.splits)))
  BY <1>2, <1>5, <1>15 DEF RunEvaluation
<1>17. DOMAIN splits = 1..n /\ \A i \in 1..n : splits[i] = RunSplit(c, sel[i], BacktestOf(d, sel[i].evaluation))
  BY <1>10, <1>12, <1>14
<1>18. Evaluations[d] = EvaluationOf(d)
  BY DEF Evaluations
<1>19. EvaluatedBy(d, sel, n, splits)
  BY SMTT(20), <1>1, <1>2, <1>10, <1>13, <1>16, <1>17, <1>18 DEF EvaluatedBy
<1> QED BY <1>19

(* The fields of a split that was run.                                     *)
LEMMA SplitShows ==
  ASSUME NEW c, NEW split, NEW bt
  PROVE  LET run == RunSplit(c, split, bt)
         IN /\ run.kind = split.kind /\ run.evaluation = split.evaluation /\ run.backtest = bt
            /\ run.input.id = split.evaluation /\ run.input.kind = split.kind
            /\ run.input.sessions = bt.sessions /\ run.input.navGaps = bt.navGaps
            /\ run.input.secondary2 # Withheld => bt.secondary2.exact
BY DEF RunSplit, Reported, AggregateInput

(* The walk-forward splits of a list, in a list.                           *)
ForwardIn(splits, n, fwd, m) ==
  /\ m \in Nat /\ DOMAIN fwd = 1..m
  /\ \A k \in 1..m : \E i \in 1..n : splits[i].kind = "WALK_FORWARD" /\ fwd[k] = splits[i]
  /\ \A i \in 1..n : splits[i].kind = "WALK_FORWARD" => \E k \in 1..m : fwd[k] = splits[i]
  /\ \A i, j \in 1..n :
       splits[i].kind = "WALK_FORWARD" /\ splits[j].kind = "WALK_FORWARD" /\ i # j =>
         \E k, l \in 1..m : k # l /\ fwd[k] = splits[i] /\ fwd[l] = splits[j]

LEMMA ForwardLists ==
  ASSUME NEW splits, NEW n \in Nat, DOMAIN splits = 1..n
  PROVE  \E m : ForwardIn(splits, n, ForwardOf(splits), m)
<1> DEFINE I == {i \in DOMAIN splits : splits[i].kind = "WALK_FORWARD"}
<1>1. I \in SUBSET (1..n)
  OBVIOUS
<1>2. Cardinality(I) \in Nat /\ \E order : KeptIn(splits, I, order)
  <2> HIDE DEF I
  <2> QED BY <1>1, KeepingLists
<1>3. PICK order : KeptIn(splits, I, order)
  <2> HIDE DEF I
  <2> QED BY <1>2
<1>4. PICK m \in Nat : m = Cardinality(I)
  BY <1>2
<1>5. PICK fwd : fwd = ForwardOf(splits)
  OBVIOUS
<1>6. /\ order \in [1..m -> I] /\ fwd = [k \in 1..m |-> splits[order[k]]]
      /\ \A i \in I : \E k \in 1..m : order[k] = i
  <2>1. fwd = Keeping(splits, I)
    BY <1>5 DEF ForwardOf
  <2> HIDE DEF I
  <2> QED BY <1>3, <1>4, <2>1 DEF KeptIn
<1>7. DOMAIN fwd = 1..m /\ \A k \in 1..m : order[k] \in I /\ fwd[k] = splits[order[k]]
  <2> HIDE DEF I
  <2> QED BY <1>6
<1>8. \A k \in 1..m : \E i \in 1..n : splits[i].kind = "WALK_FORWARD" /\ fwd[k] = splits[i]
  BY <1>7
<1>9. \A i \in 1..n : splits[i].kind = "WALK_FORWARD" => \E k \in 1..m : fwd[k] = splits[i] /\ order[k] = i
  BY <1>6, <1>7
<1>10. \A i, j \in 1..n :
         splits[i].kind = "WALK_FORWARD" /\ splits[j].kind = "WALK_FORWARD" /\ i # j =>
           \E k, l \in 1..m : k # l /\ fwd[k] = splits[i] /\ fwd[l] = splits[j]
  BY <1>9
<1>11. ForwardIn(splits, n, fwd, m)
  BY <1>7, <1>8, <1>9, <1>10 DEF ForwardIn
<1> HIDE DEF I
<1> QED BY <1>5, <1>11

-----------------------------------------------------------------------------
(* The pool of the walk-forward splits.                                    *)

(* A split's sessions, and its window, can be compared.                    *)
Comparable(s) == s.id[1] \in Int /\ (s.sessions # <<>> => s.sessions[1] \in Int)

(* The order of triples of numbers, and of places where they are equal.    *)
LexBefore(p, q) == p[1] < q[1] \/ (p[1] = q[1] /\ (p[2] < q[2] \/ (p[2] = q[2] /\ p[3] < q[3])))

Triples == Int \X Int \X Int

LEMMA LexTransitive ==
  ASSUME NEW p \in Triples, NEW q \in Triples, NEW r \in Triples, NEW i \in Int, NEW j \in Int, NEW k \in Int,
         LexBefore(p, q) \/ (~LexBefore(q, p) /\ i < j),
         LexBefore(q, r) \/ (~LexBefore(r, q) /\ j < k)
  PROVE  LexBefore(p, r) \/ (~LexBefore(r, p) /\ i < k)
<1>1. PICK a1 \in Int, b1 \in Int, c1 \in Int : p = <<a1, b1, c1>>
  BY DEF Triples
<1>2. PICK a2 \in Int, b2 \in Int, c2 \in Int : q = <<a2, b2, c2>>
  BY DEF Triples
<1>3. PICK a3 \in Int, b3 \in Int, c3 \in Int : r = <<a3, b3, c3>>
  BY DEF Triples
<1> QED BY <1>1, <1>2, <1>3, SMTT(60) DEF LexBefore

(* Ordered lists the splits, and nothing else.                             *)
LEMMA OrderedLists ==
  ASSUME NEW splits, NEW n \in Nat, DOMAIN splits = 1..n, \A i \in 1..n : Comparable(splits[i])
  PROVE  /\ DOMAIN Ordered(splits) = 1..n
         /\ \A k \in 1..n : \E i \in 1..n : Ordered(splits)[k] = splits[i]
<1> DEFINE places == (DOMAIN splits) \X (DOMAIN splits)
           R == {p \in places : \/ Precedes(splits[p[1]], splits[p[2]])
                                \/ ~Precedes(splits[p[2]], splits[p[1]]) /\ p[1] < p[2]}
           KeyOf(s) == IF s.sessions = <<>> THEN <<1, 0, s.id[1]>> ELSE <<0, s.sessions[1], s.id[1]>>
<1>1. \A i, j \in 1..n :
        <<i, j>> \in R <=> \/ Precedes(splits[i], splits[j])
                           \/ ~Precedes(splits[j], splits[i]) /\ i < j
  OBVIOUS
<1>2. PICK key : key = [i \in 1..n |-> KeyOf(splits[i])]
  OBVIOUS
<1>3. \A i \in 1..n : key[i] \in Triples
  BY <1>2 DEF Comparable, Triples
<1>4. ASSUME NEW i \in 1..n, NEW j \in 1..n
      PROVE  Precedes(splits[i], splits[j]) <=> LexBefore(key[i], key[j])
  <2>1. key[i] = KeyOf(splits[i]) /\ key[j] = KeyOf(splits[j])
    BY <1>2
  <2>2. CASE splits[i].sessions = <<>> /\ splits[j].sessions = <<>>
    BY <2>1, <2>2 DEF Precedes, LexBefore
  <2>3. CASE splits[i].sessions # <<>> /\ splits[j].sessions = <<>>
    BY <2>1, <2>3 DEF Precedes, LexBefore
  <2>4. CASE splits[i].sessions = <<>> /\ splits[j].sessions # <<>>
    BY <2>1, <2>4 DEF Precedes, LexBefore
  <2>5. CASE splits[i].sessions # <<>> /\ splits[j].sessions # <<>>
    BY <2>1, <2>5 DEF Precedes, LexBefore
  <2> QED BY <2>2, <2>3, <2>4, <2>5
<1>5. ASSUME NEW i \in 1..n, NEW j \in 1..n
      PROVE  <<i, j>> \in R <=> LexBefore(key[i], key[j]) \/ (~LexBefore(key[j], key[i]) /\ i < j)
  <2> HIDE DEF R
  <2> QED BY <1>4, <1>1
<1>6. StrictOrder(1..n, R)
  <2> HIDE DEF R
  <2>1. ASSUME NEW i \in 1..n PROVE <<i, i>> \notin R
    <3>1. ~LexBefore(key[i], key[i])
      BY <1>3 DEF LexBefore, Triples
    <3>2. ~(i < i)
      OBVIOUS
    <3> QED BY <3>1, <3>2, <1>5
  <2>2. ASSUME NEW i \in 1..n, NEW j \in 1..n, NEW k \in 1..n, <<i, j>> \in R, <<j, k>> \in R
        PROVE  <<i, k>> \in R
    <3>1. LexBefore(key[i], key[j]) \/ (~LexBefore(key[j], key[i]) /\ i < j)
      BY <1>5, <2>2
    <3>2. LexBefore(key[j], key[k]) \/ (~LexBefore(key[k], key[j]) /\ j < k)
      BY <1>5, <2>2
    <3>3. key[i] \in Triples /\ key[j] \in Triples /\ key[k] \in Triples /\ i \in Int /\ j \in Int /\ k \in Int
      BY <1>3
    <3>4. LexBefore(key[i], key[k]) \/ (~LexBefore(key[k], key[i]) /\ i < k)
      BY <3>1, <3>2, <3>3, LexTransitive
    <3> QED BY <3>4, <1>5
  <2>3. ASSUME NEW i \in 1..n, NEW j \in 1..n, i # j PROVE <<i, j>> \in R \/ <<j, i>> \in R
    <3>1. i < j \/ j < i
      BY <2>3
    <3> QED BY <3>1, <1>5
  <2> QED BY <2>1, <2>2, <2>3 DEF StrictOrder
<1>7. IsFiniteSet(1..n) /\ Cardinality(1..n) = n
  <2>1. 1 \in Int /\ n \in Int
    OBVIOUS
  <2>2. IsFiniteSet(1..n) /\ Cardinality(1..n) = IF 1 > n THEN 0 ELSE n - 1 + 1
    BY <2>1, FS_Interval
  <2> QED BY <2>2
<1>8. Ranked(1..n, R) \in [1..n -> 1..n]
  <2> HIDE DEF R
  <2> QED BY <1>6, <1>7, RankedLists
<1>9. PICK order \in [1..n -> 1..n] : order = Ranked(1..n, R)
  BY <1>8
<1>20. Ordered(splits) = [k \in 1..n |-> splits[order[k]]]
  BY <1>9 DEF Ordered
<1> HIDE DEF R
<1> QED BY <1>20

(* A rejection is of the whole schedule, over splits without a gap and     *)
(* with the comparator.                                                    *)
LEMMA RejectsWhole ==
  ASSUME NEW c, NEW inputs, NEW planned, AggregateWalkForward(c, inputs, planned).verdict = "REJECT"
  PROVE  /\ ToSet(planned) \subseteq {Ordered(inputs)[i].id : i \in DOMAIN Ordered(inputs)}
         /\ \A i \in DOMAIN Ordered(inputs) :
              Ordered(inputs)[i].secondary2 # Withheld /\ Ordered(inputs)[i].navGaps = {}
<1>1. PICK ordered : ordered = Ordered(inputs)
  OBVIOUS
<1>2. AggregateWalkForward(c, inputs, planned).verdict
        = Verdict(c, Complete(ordered, planned), PrimaryMetric(c, ordered), Secondary2(ordered))
  BY <1>1 DEF AggregateWalkForward
<1>3. Complete(ordered, planned) /\ Secondary2(ordered) = "no"
  BY <1>2 DEF Verdict
<1>4. ToSet(planned) \subseteq {ordered[i].id : i \in DOMAIN ordered}
  BY <1>3 DEF Complete
<1>5. ~(\E i \in DOMAIN ordered : ordered[i].secondary2 = Withheld \/ ordered[i].navGaps # {})
  BY <1>3 DEF Secondary2, Unknown
<1> QED BY <1>1, <1>4, <1>5

(* What the pool refuses is an error.                                      *)
LEMMA PoolErrs ==
  ASSUME NEW c, NEW inputs, NEW planned
  PROVE  AggregateWalkForward(c, inputs, planned).err = ScopeError(inputs, planned)
BY DEF AggregateWalkForward

(* A window's sessions are days of the calendar.                           *)
LEMMA SessionsAreDates ==
  ASSUME NEW from, NEW to
  PROVE  SessionDates(from, to) # <<>> => SessionDates(from, to)[1] \in Int
<1>1. PICK S : S = {s \in Calendar : from <= s /\ s <= to}
  OBVIOUS
<1>2. IsFiniteSet(S) /\ S \subseteq Int
  <2>1. S \in SUBSET Calendar
    BY <1>1
  <2> QED BY <2>1, SessionsAssumption, FS_Subset
<1>3. PICK dates : dates = Ascending(S)
  OBVIOUS
<1>4. Cardinality(S) \in Nat /\ dates \in [1..Cardinality(S) -> S]
  BY <1>2, <1>3, AscendingLists
<1>5. dates # <<>> => 1 \in 1..Cardinality(S)
  <2>1. Cardinality(S) = 0 => dates = <<>>
    BY <1>4
  <2> QED BY <2>1, <1>4
<1>6. dates # <<>> => dates[1] \in Int
  BY <1>2, <1>4, <1>5
<1>7. SessionDates(from, to) = dates
  BY <1>1, <1>3 DEF SessionDates
<1> QED BY <1>6, <1>7

-----------------------------------------------------------------------------
(* Every definition is judged apart from its holdout, and rejected only on *)
(* what was measured.                                                      *)

(* A split that was run, beside what the plan says of its window.          *)
LEMMA SplitOfPlan ==
  ASSUME NEW d \in Definitions, NEW sel, NEW n, NEW splits, EvaluatedBy(d, sel, n, splits), NEW i \in 1..n
  PROVE  /\ splits[i].kind = sel[i].kind /\ splits[i].evaluation = sel[i].evaluation
         /\ splits[i].backtest = BacktestOf(d, sel[i].evaluation)
         /\ splits[i].input.id = sel[i].evaluation /\ splits[i].input.kind = sel[i].kind
         /\ splits[i].input.sessions = splits[i].backtest.sessions
         /\ splits[i].input.navGaps = splits[i].backtest.navGaps
         /\ splits[i].input.secondary2 # Withheld => splits[i].backtest.secondary2.exact
         /\ sel[i] \in ToSet(SplitPlan(Charter(d)).splits) /\ sel[i].kind \in EvaluatedKinds
<1>1. PICK bt : bt = BacktestOf(d, sel[i].evaluation)
  OBVIOUS
<1>2. PICK split : split = sel[i]
  OBVIOUS
<1>3. splits[i] = RunSplit(Charter(d), split, bt)
  BY <1>1, <1>2 DEF EvaluatedBy
<1>4. sel[i] \in ToSet(SplitPlan(Charter(d)).splits) /\ sel[i].kind \in EvaluatedKinds
  BY DEF EvaluatedBy
<1> QED BY <1>1, <1>2, <1>3, <1>4, SplitShows

(* What a report says of an evaluation.                                    *)
LEMMA ReportSays ==
  ASSUME NEW plan, NEW splits, NEW aggregate, NEW report, report = EvaluationReport(plan, splits, aggregate)
  PROVE  /\ report.splits = splits /\ report.aggregate = aggregate
         /\ ~report.err => ~plan.err /\ \A a \in aggregate : ~a.err
BY DEF EvaluationReport

(* The pooled inputs of an evaluation, and the windows they are held to.   *)
PooledOf(d, splits, inputs, planned) ==
  /\ inputs = [k \in DOMAIN ForwardOf(splits) |-> ForwardOf(splits)[k].input]
  /\ planned = [k \in DOMAIN ForwardOf(SplitPlan(Charter(d)).splits) |->
                  ForwardOf(SplitPlan(Charter(d)).splits)[k].evaluation]
  /\ Evaluations[d].aggregate = IF ForwardOf(splits) = <<>> THEN {}
                                ELSE {AggregateWalkForward(Charter(d), inputs, planned)}
  /\ Evaluations[d].splits = splits
  /\ ~Evaluations[d].err => /\ ~SplitPlan(Charter(d)).err
                            /\ \A a \in Evaluations[d].aggregate : ~a.err

LEMMA EvaluationPools ==
  ASSUME NEW d \in Definitions, NEW sel, NEW n, NEW splits, EvaluatedBy(d, sel, n, splits)
  PROVE  \E inputs, planned : PooledOf(d, splits, inputs, planned)
<1>1. PICK inputs : inputs = [k \in DOMAIN ForwardOf(splits) |-> ForwardOf(splits)[k].input]
  OBVIOUS
<1>2. PICK planned : planned = [k \in DOMAIN ForwardOf(SplitPlan(Charter(d)).splits) |->
                                  ForwardOf(SplitPlan(Charter(d)).splits)[k].evaluation]
  OBVIOUS
<1>3. PICK pool : pool = Pool(Charter(d), ForwardOf(splits), ForwardOf(SplitPlan(Charter(d)).splits))
  OBVIOUS
<1>4. pool = IF ForwardOf(splits) = <<>> THEN {} ELSE {AggregateWalkForward(Charter(d), inputs, planned)}
  BY <1>1, <1>2, <1>3 DEF Pool
<1>5. Evaluations[d] = EvaluationReport(SplitPlan(Charter(d)), splits, pool)
  BY <1>3 DEF EvaluatedBy
<1>6. /\ Evaluations[d].splits = splits /\ Evaluations[d].aggregate = pool
      /\ ~Evaluations[d].err => ~SplitPlan(Charter(d)).err /\ \A a \in pool : ~a.err
  BY <1>5, ReportSays
<1>7. PooledOf(d, splits, inputs, planned)
  BY <1>1, <1>2, <1>4, <1>6 DEF PooledOf
<1> QED BY <1>7

LEMMA EveryDefinitionKeepsApart == \A d \in Definitions : d \in KeepsApart
<1> SUFFICES ASSUME NEW d \in Definitions PROVE d \in KeepsApart
  OBVIOUS
<1>1. PICK sel, n, splits : EvaluatedBy(d, sel, n, splits)
  BY EvaluationShape
<1>2. PICK inputs, planned : PooledOf(d, splits, inputs, planned)
  BY <1>1, EvaluationPools
<1>3. n \in Nat /\ DOMAIN splits = 1..n /\ Evaluations[d].splits = splits
  BY <1>1, <1>2 DEF EvaluatedBy, PooledOf
<1>4. ASSUME NEW run \in RunsIn(Evaluations[d]) PROVE ~Overlaps(run.evaluation, Charter(d).holdout)
  <2>1. ~Evaluations[d].err /\ run \in ToSet(splits)
    BY <1>3 DEF RunsIn
  <2>2. PICK i \in 1..n : run = splits[i]
    BY <1>3, <2>1 DEF ToSet
  <2>3. run.evaluation = sel[i].evaluation /\ sel[i] \in ToSet(SplitPlan(Charter(d)).splits)
    BY <1>1, <2>2, SplitOfPlan
  <2>4. ~SplitPlan(Charter(d)).err
    BY <1>2, <2>1 DEF PooledOf
  <2>5. \A s \in ToSet(SplitPlan(Charter(d)).splits) : ~Overlaps(s.evaluation, Charter(d).holdout)
    BY <2>4 DEF SplitPlan
  <2> QED BY <2>3, <2>5
<1>5. ASSUME NEW w \in ToSet(SplitPlan(Charter(d)).splits), w.kind = "WALK_FORWARD"
      PROVE  w.design[2] + Charter(d).walkForward.purge + Charter(d).walkForward.embargo < w.evaluation[1]
  BY <1>5, PlanLeavesTheGap
<1>6. ASSUME ~Evaluations[d].err, NEW i \in 1..n, NEW j \in 1..n, i # j,
             splits[i].kind = "WALK_FORWARD", splits[j].kind = "WALK_FORWARD"
      PROVE  ToSet(splits[i].backtest.sessions) \cap ToSet(splits[j].backtest.sessions) = {}
  <2>1. PICK fwd : fwd = ForwardOf(splits)
    OBVIOUS
  <2>2. PICK m : ForwardIn(splits, n, fwd, m)
    BY <1>3, <2>1, ForwardLists
  <2>3. PICK k \in 1..m, l \in 1..m : k # l /\ fwd[k] = splits[i] /\ fwd[l] = splits[j]
    BY <1>6, <2>2 DEF ForwardIn
  <2>4. DOMAIN fwd = 1..m
    BY <2>2 DEF ForwardIn
  <2>5. DOMAIN inputs = 1..m /\ inputs[k] = splits[i].input /\ inputs[l] = splits[j].input
    BY <1>2, <2>1, <2>3, <2>4 DEF PooledOf
  <2>6. fwd # <<>>
    <3>1. k \in DOMAIN fwd
      BY <2>3, <2>4
    <3>2. DOMAIN <<>> = {}
      OBVIOUS
    <3> QED BY <3>1, <3>2
  <2>7. AggregateWalkForward(Charter(d), inputs, planned) \in Evaluations[d].aggregate
    BY <1>2, <2>1, <2>6 DEF PooledOf
  <2>8. ~ScopeError(inputs, planned)
    BY <1>2, <1>6, <2>7, PoolErrs DEF PooledOf
  <2>9. ToSet(inputs[k].sessions) \cap ToSet(inputs[l].sessions) = {}
    BY <2>3, <2>5, <2>8 DEF ScopeError
  <2>10. /\ splits[i].input.sessions = splits[i].backtest.sessions
         /\ splits[j].input.sessions = splits[j].backtest.sessions
    BY <1>1, SplitOfPlan
  <2> QED BY <2>5, <2>9, <2>10
<1> QED BY ZenonT(30), <1>3, <1>4, <1>5, <1>6 DEF KeepsApart

LEMMA EveryRejectionRests == \A d \in Definitions : d \in RejectsOnEvidence
<1> SUFFICES ASSUME NEW d \in Definitions, NEW a \in Evaluations[d].aggregate,
                    ~Evaluations[d].err, a.verdict = "REJECT",
                    NEW w \in ToSet(SplitPlan(Charter(d)).splits), w.kind = "WALK_FORWARD"
             PROVE  \E run \in RunsIn(Evaluations[d]) : run.evaluation = w.evaluation /\ Measured(d, run)
  BY DEF RejectsOnEvidence
<1>1. PICK sel, n, splits : EvaluatedBy(d, sel, n, splits)
  BY EvaluationShape
<1>2. PICK inputs, planned : PooledOf(d, splits, inputs, planned)
  BY <1>1, EvaluationPools
<1>3. n \in Nat /\ DOMAIN splits = 1..n /\ Evaluations[d].splits = splits
  BY <1>1, <1>2 DEF EvaluatedBy, PooledOf
<1>4. PICK fwd : fwd = ForwardOf(splits)
  OBVIOUS
<1>5. PICK m : ForwardIn(splits, n, fwd, m)
  BY <1>3, <1>4, ForwardLists
<1>6. m \in Nat /\ DOMAIN inputs = 1..m
      /\ \A k \in 1..m : \E i \in 1..n : splits[i].kind = "WALK_FORWARD" /\ inputs[k] = splits[i].input
  BY ZenonT(30), <1>2, <1>4, <1>5 DEF ForwardIn, PooledOf
<1>7. a = AggregateWalkForward(Charter(d), inputs, planned)
  BY <1>2 DEF PooledOf
<1>8. PICK ordered : ordered = Ordered(inputs)
  OBVIOUS
<1>9. /\ ToSet(planned) \subseteq {ordered[k].id : k \in DOMAIN ordered}
      /\ \A k \in DOMAIN ordered : ordered[k].secondary2 # Withheld /\ ordered[k].navGaps = {}
  BY <1>7, <1>8, RejectsWhole
<1>10. \A k \in 1..m : Comparable(inputs[k])
  <2> SUFFICES ASSUME NEW k \in 1..m PROVE Comparable(inputs[k])
    OBVIOUS
  <2>1. PICK i \in 1..n : splits[i].kind = "WALK_FORWARD" /\ inputs[k] = splits[i].input
    BY <1>6
  <2>2. /\ sel[i] \in ToSet(SplitPlan(Charter(d)).splits) /\ sel[i].kind = "WALK_FORWARD"
        /\ inputs[k].id = sel[i].evaluation
        /\ inputs[k].sessions = BacktestOf(d, sel[i].evaluation).sessions
    BY <1>1, <2>1, SplitOfPlan
  <2>3. inputs[k].id[1] \in Int
    BY <2>2, PlanLeavesTheGap
  <2>4. PICK in : in = InputOf(d, sel[i].evaluation)
    OBVIOUS
  <2>5. inputs[k].sessions = SessionDates(in.from, in.to)
    <3>1. \E run, series : ComesOf(in, RunBacktest(in), run, series)
      BY BacktestShows
    <3>2. RunBacktest(in).sessions = SessionDates(in.from, in.to)
      BY <3>1 DEF ComesOf
    <3> QED BY <2>2, <2>4, <3>2 DEF BacktestOf
  <2>6. inputs[k].sessions # <<>> => inputs[k].sessions[1] \in Int
    BY <2>5, SessionsAreDates
  <2> QED BY <2>3, <2>6 DEF Comparable
<1>11. DOMAIN ordered = 1..m /\ \A k \in 1..m : \E x \in 1..m : ordered[k] = inputs[x]
  BY <1>6, <1>8, <1>10, OrderedLists
<1>12. w.evaluation \in ToSet(planned)
  <2>1. PICK plan : plan = SplitPlan(Charter(d)).splits
    OBVIOUS
  <2>2. PICK p \in Nat : DOMAIN plan = 1..p
    BY <2>1, PlanIsListed
  <2>3. PICK pf : pf = ForwardOf(plan)
    OBVIOUS
  <2>4. PICK q : ForwardIn(plan, p, pf, q)
    BY <2>2, <2>3, ForwardLists
  <2>5. PICK i \in 1..p : plan[i] = w
    BY <2>1, <2>2 DEF ToSet
  <2>6. PICK k \in 1..q : pf[k] = w
    BY <2>4, <2>5 DEF ForwardIn
  <2>7. DOMAIN pf = 1..q
    BY <2>4 DEF ForwardIn
  <2>8. planned = [x \in DOMAIN pf |-> pf[x].evaluation]
    BY <1>2, <2>1, <2>3 DEF PooledOf
  <2> QED BY <2>6, <2>7, <2>8 DEF ToSet
<1>13. PICK k \in DOMAIN ordered : ordered[k].id = w.evaluation
  BY <1>9, <1>12
<1>14. PICK x \in 1..m : ordered[k] = inputs[x]
  BY <1>11
<1>15. PICK i \in 1..n : splits[i].kind = "WALK_FORWARD" /\ inputs[x] = splits[i].input
  BY <1>6
<1>16. PICK run : run = splits[i]
  OBVIOUS
<1>17. run \in RunsIn(Evaluations[d])
  BY <1>3, <1>16 DEF RunsIn, ToSet
<1>18. /\ run.evaluation = w.evaluation /\ run.backtest = BacktestOf(d, sel[i].evaluation)
       /\ run.backtest.secondary2.exact /\ run.backtest.navGaps = {}
  <2>1. run.input.id = w.evaluation /\ run.input.secondary2 # Withheld /\ run.input.navGaps = {}
    BY <1>9, <1>13, <1>14, <1>15, <1>16
  <2> QED BY <1>1, <1>16, <2>1, SplitOfPlan
<1>19. Measured(d, run)
  BY <1>18, RunMeasures
<1> QED BY <1>17, <1>18, <1>19

-----------------------------------------------------------------------------
(* The holdout's record.                                                   *)

(* A trial of the holdout is of an experiment whose holdout is open.       *)
TrialsKept ==
  \A i \in DOMAIN trials :
    /\ trials[i].experiment \in DOMAIN experiments
    /\ trials[i].kind = "HOLDOUT" => experiments[trials[i].experiment].opened

HoldoutInv == RegistryInv /\ TrialsKept

(* Experiments keep their place, and an open one stays open.               *)
LEMMA OpenStaysOpen ==
  ASSUME RegistryInv, TrialsKept, UNCHANGED trials,
         \A e \in DOMAIN experiments :
           e \in DOMAIN experiments' /\ (experiments[e].opened => experiments'[e].opened)
  PROVE  TrialsKept'
BY DEF TrialsKept

(* A trial that is recorded of an experiment keeps what was.               *)
LEMMA TrialIsKept ==
  ASSUME RegistryInv, TrialsKept, NEW e \in DOMAIN experiments, NEW kind, NEW labels,
         RecordTrial(Trial(e, kind, labels)), kind = "HOLDOUT" => experiments[e].opened
  PROVE  TrialsKept'
<1>1. IsLog(trials)
  BY DEF RegistryInv, RegistryTyped
<1>2. PICK row : row = [Trial(e, kind, labels) EXCEPT !.labels = @ \cup experiments[e].labels]
  OBVIOUS
<1>3. row.experiment = e /\ row.kind = kind
  BY <1>2 DEF Trial
<1>4. trials' = Append(trials, row) /\ UNCHANGED experiments
  <2>1. Trial(e, kind, labels).experiment = e
    BY DEF Trial
  <2> QED BY <1>2, <2>1, Zenon DEF RecordTrial
<1>5. /\ DOMAIN trials' = DOMAIN trials \cup {Len(trials) + 1}
      /\ \A i \in DOMAIN trials : trials'[i] = trials[i]
      /\ trials'[Len(trials) + 1] = row
  BY <1>1, <1>4, AppendedLog
<1> QED BY <1>3, <1>4, <1>5 DEF TrialsKept

LEMMA HoldoutStep == HoldoutInv /\ [ResearchNext]_registryVars => HoldoutInv'
<1> SUFFICES ASSUME RegistryInv, TrialsKept, [ResearchNext]_registryVars PROVE RegistryInv' /\ TrialsKept'
  BY DEF HoldoutInv
<1>1. RegistryInv'
  BY RegistryStep
<1>2. experiments \in Seq(Experiment)
  BY DEF RegistryInv, RegistryTyped
<1>3. ASSUME NEW d \in Definitions, NEW parent \in 0..Len(experiments), Register(d, parent, {})
      PROVE  TrialsKept'
  <2>1. PICK x : experiments' = Append(experiments, x)
    BY <1>3, Zenon DEF Register
  <2>2. UNCHANGED trials
    BY <1>3, Zenon DEF Register
  <2>3. \A e \in DOMAIN experiments : e \in DOMAIN experiments' /\ experiments'[e] = experiments[e]
    <3>1. IsLog(experiments)
      BY <1>2 DEF IsLog
    <3> QED BY <2>1, <3>1, AppendedLog
  <2> QED BY <2>2, <2>3, OpenStaysOpen
<1>4. ASSUME NEW e \in DOMAIN experiments, MarkResultsViewed(e) PROVE TrialsKept'
  <2>1. experiments' = [experiments EXCEPT ![e].viewed = TRUE] /\ UNCHANGED trials
    BY <1>4 DEF MarkResultsViewed
  <2>2. \A x \in DOMAIN experiments :
          x \in DOMAIN experiments' /\ (experiments[x].opened => experiments'[x].opened)
    BY <2>1, <1>2 DEF Experiment
  <2> QED BY <2>1, <2>2, OpenStaysOpen
<1>5. ASSUME NEW e \in DOMAIN experiments, OpenHoldout(e) PROVE TrialsKept'
  <2>1. experiments' = [experiments EXCEPT ![e].opened = TRUE] /\ UNCHANGED trials
    BY <1>5 DEF OpenHoldout
  <2>2. \A x \in DOMAIN experiments :
          x \in DOMAIN experiments' /\ (experiments[x].opened => experiments'[x].opened)
    BY <2>1, <1>2 DEF Experiment
  <2> QED BY <2>1, <2>2, OpenStaysOpen
<1>6. ASSUME NEW e \in DOMAIN experiments, RecordSplit(e) PROVE TrialsKept'
  <2>1. PICK split \in ToSet(Evaluations[experiments[e].def].splits) :
          RecordTrial(Trial(e, split.kind, split.labels))
    BY <1>6, Zenon DEF RecordSplit
  <2>2. split.kind # "HOLDOUT"
    <3>1. PICK d \in Definitions : d = experiments[e].def
      <4>1. experiments[e] \in Experiment
        BY <1>2
      <4>2. experiments[e].def \in Definitions
        BY <4>1 DEF Experiment
      <4> QED BY <4>2
    <3>2. PICK sel, n, splits : EvaluatedBy(d, sel, n, splits)
      BY EvaluationShape
    <3>3. PICK inputs, planned : PooledOf(d, splits, inputs, planned)
      BY <3>2, EvaluationPools
    <3>4. split \in ToSet(splits) /\ DOMAIN splits = 1..n
      BY <2>1, <3>1, <3>2, <3>3 DEF PooledOf, EvaluatedBy
    <3>5. PICK i \in 1..n : split = splits[i]
      BY <3>4 DEF ToSet
    <3>6. split.kind \in EvaluatedKinds
      BY <3>2, <3>5, SplitOfPlan
    <3> QED BY <3>6 DEF EvaluatedKinds
  <2> QED BY <2>1, <2>2, TrialIsKept
<1>7. ASSUME NEW e \in DOMAIN experiments, RecordHoldout(e) PROVE TrialsKept'
  <2>1. PICK labels : RecordTrial(Trial(e, "HOLDOUT", labels))
    BY <1>7, Zenon DEF RecordHoldout
  <2>2. experiments[e].opened
    BY <1>7 DEF RecordHoldout, HoldoutSplit
  <2> QED BY <2>1, <2>2, TrialIsKept
<1>8. ASSUME NEW e \in DOMAIN experiments, NEW value \in BOOLEAN, SetPromotionEvidence(e, value)
      PROVE  TrialsKept'
  <2>1. experiments' = [experiments EXCEPT ![e].cited = value] /\ UNCHANGED trials
    BY <1>8 DEF SetPromotionEvidence
  <2>2. \A x \in DOMAIN experiments :
          x \in DOMAIN experiments' /\ (experiments[x].opened => experiments'[x].opened)
    BY <2>1, <1>2 DEF Experiment
  <2> QED BY <2>1, <2>2, OpenStaysOpen
<1>9. ASSUME UNCHANGED registryVars PROVE TrialsKept'
  <2>1. UNCHANGED trials /\ experiments' = experiments
    BY <1>9 DEF registryVars
  <2>2. \A e \in DOMAIN experiments :
          e \in DOMAIN experiments' /\ (experiments[e].opened => experiments'[e].opened)
    BY <2>1
  <2> QED BY <2>1, <2>2, OpenStaysOpen
<1>10. TrialsKept'
  BY <1>3, <1>4, <1>5, <1>6, <1>7, <1>8, <1>9, Zenon DEF ResearchNext
<1> QED BY <1>1, <1>10

LEMMA HoldoutInvAlways == ResearchSpec => []HoldoutInv
<1>1. RegistryInit => HoldoutInv
  <2>1. RegistryInit => TrialsKept
    BY DEF RegistryInit, TrialsKept
  <2> QED BY <2>1, RegistryStart DEF HoldoutInv
<1>. QED BY <1>1, HoldoutStep, PTL DEF ResearchSpec

LEMMA HoldoutInvHolds == HoldoutInv => HoldoutStaysSealed /\ RejectionIsMeasured
<1> SUFFICES ASSUME HoldoutInv PROVE HoldoutStaysSealed /\ RejectionIsMeasured
  OBVIOUS
<1>1. ASSUME NEW e \in DOMAIN experiments PROVE experiments[e].def \in Definitions
  <2>1. experiments \in Seq(Experiment)
    BY DEF HoldoutInv, RegistryInv, RegistryTyped
  <2>2. experiments[e] \in Experiment
    BY <2>1
  <2> QED BY <2>2 DEF Experiment
<1>2. Registered(KeepsApart)
  BY <1>1, EveryDefinitionKeepsApart DEF Registered
<1>3. Registered(RejectsOnEvidence)
  BY <1>1, EveryRejectionRests DEF Registered
<1> QED BY <1>2, <1>3 DEF HoldoutInv, TrialsKept, HoldoutStaysSealed, RejectionIsMeasured

(* The holdout stays sealed, for any charter, market and order of steps:   *)
(* no run of an evaluation touches its days, no window is evaluated before *)
(* its design and gap are over, no session is pooled twice, and a trial of *)
(* the holdout is only recorded once it is open (walkforward.ts,           *)
(* evaluate.ts 254, registry.ts 334).                                      *)
THEOREM HoldoutIsSealed == ResearchSpec => []HoldoutStaysSealed
<1>. QED BY HoldoutInvAlways, HoldoutInvHolds, PTL

(* A rejection is measured, for any market: every planned window was run,  *)
(* what the book held had a bar of its own on each day, and the comparator *)
(* was exact from the first session to the last (aggregate.ts 404-560).    *)
THEOREM RejectionsAreMeasured == ResearchSpec => []RejectionIsMeasured
<1>. QED BY HoldoutInvAlways, HoldoutInvHolds, PTL

-----------------------------------------------------------------------------
(* Lists of distinct names.                                                *)

(* The places 1..n are those of a sequence of length n.                    *)
LEMMA PlacesCount ==
  ASSUME NEW s, NEW n \in Nat, s = [i \in 1..n |-> s[i]]
  PROVE  IsLog(s) /\ Len(s) = n
<1>1. PICK S : S = {s[i] : i \in 1..n}
  OBVIOUS
<1>2. s \in [1..n -> S]
  BY <1>1
<1>3. s \in Seq(S)
  BY <1>2, SeqDef
<1>4. DOMAIN s = 1..Len(s) /\ Len(s) \in Nat
  BY <1>3
<1>5. PICK k : k = Len(s)
  OBVIOUS
<1>6. 1..n = 1..k
  <2>1. DOMAIN s = 1..n
    BY <1>2
  <2> QED BY <1>4, <1>5, <2>1, Zenon
<1>7. k \in Nat
  BY <1>4, <1>5, Zenon
<1>8. ~(n < k) /\ ~(k < n)
  <2>1. n < k => k \in 1..k /\ k \notin 1..n
    BY <1>7
  <2>2. k < n => n \in 1..n /\ n \notin 1..k
    BY <1>7
  <2> QED BY <2>1, <2>2, <1>6
<1> QED BY <1>3, <1>5, <1>7, <1>8 DEF IsLog

(* s lists n things, each once.                                            *)
Listing(s, n) ==
  /\ n \in Nat /\ DOMAIN s = 1..n /\ s = [i \in 1..n |-> s[i]] /\ Len(s) = n
  /\ \A i, j \in 1..n : s[i] = s[j] => i = j

(* t lists what s has at the places I, in its order.                       *)
Thinned(t, m, s, n, I) ==
  /\ Listing(t, m)
  /\ \A k \in 1..m : \E i \in I : t[k] = s[i]
  /\ \A i \in I : \E k \in 1..m : t[k] = s[i]
  /\ \A k, l \in 1..m : \A i, j \in 1..n : t[k] = s[i] /\ t[l] = s[j] /\ k < l => i < j

LEMMA KeepingThins ==
  ASSUME NEW s, NEW n, Listing(s, n), NEW I \in SUBSET (1..n)
  PROVE  Thinned(Keeping(s, I), Cardinality(I), s, n, I)
<1>1. n \in Nat /\ \A i, j \in 1..n : s[i] = s[j] => i = j
  BY DEF Listing
<1>2. Cardinality(I) \in Nat /\ \E order : KeptIn(s, I, order)
  BY <1>1, KeepingLists
<1>3. PICK order : KeptIn(s, I, order)
  BY <1>2
<1>4. PICK m : m = Cardinality(I)
  OBVIOUS
<1>5. PICK t : t = Keeping(s, I)
  OBVIOUS
<1>6. m \in Nat /\ order \in [1..m -> I] /\ t = [k \in 1..m |-> s[order[k]]]
  BY <1>2, <1>3, <1>4, <1>5 DEF KeptIn
<1>7. /\ \A i \in I : \E k \in 1..m : order[k] = i
      /\ \A k, l \in 1..m : k < l => order[k] < order[l]
  BY <1>3, <1>4 DEF KeptIn
<1>8. DOMAIN t = 1..m /\ t = [k \in 1..m |-> t[k]] /\ \A k \in 1..m : t[k] = s[order[k]] /\ order[k] \in I
  BY <1>6
<1>9. Len(t) = m
  BY <1>6, <1>8, PlacesCount
<1>10. \A k, l \in 1..m : t[k] = t[l] => k = l
  <2> SUFFICES ASSUME NEW k \in 1..m, NEW l \in 1..m, t[k] = t[l] PROVE k = l
    OBVIOUS
  <2>1. order[k] = order[l]
    BY <1>1, <1>8
  <2>2. order[k] \in 1..n
    BY <1>6
  <2> QED BY <1>6, <1>7, <2>1, <2>2
<1>11. Listing(t, m)
  BY <1>6, <1>8, <1>9, <1>10 DEF Listing
<1>12. ASSUME NEW k \in 1..m, NEW l \in 1..m, NEW i \in 1..n, NEW j \in 1..n, t[k] = s[i], t[l] = s[j], k < l
       PROVE  i < j
  <2>1. order[k] = i /\ order[l] = j
    BY <1>1, <1>6, <1>8, <1>12
  <2> QED BY <1>7, <1>12, <2>1
<1>13. Thinned(t, m, s, n, I)
  BY <1>7, <1>8, <1>11, <1>12 DEF Thinned
<1> QED BY <1>4, <1>5, <1>13

LEMMA ThinnedTwice ==
  ASSUME NEW s, NEW n, Listing(s, n), NEW I \in SUBSET (1..n), NEW t, NEW m, Thinned(t, m, s, n, I),
         NEW J \in SUBSET (1..m), NEW u, NEW l, Thinned(u, l, t, m, J)
  PROVE  Thinned(u, l, s, n, {i \in I : \E k \in J : t[k] = s[i]})
<1>1. Listing(u, l) /\ \A k \in 1..l : \E i \in {i \in I : \E j \in J : t[j] = s[i]} : u[k] = s[i]
  <2>1. Listing(u, l)
    BY DEF Thinned
  <2>2. ASSUME NEW k \in 1..l PROVE \E i \in {i \in I : \E j \in J : t[j] = s[i]} : u[k] = s[i]
    <3>1. PICK j \in J : u[k] = t[j]
      BY DEF Thinned
    <3>2. PICK i \in I : t[j] = s[i]
      BY DEF Thinned
    <3> QED BY <3>1, <3>2
  <2> QED BY <2>1, <2>2
<1>2. ASSUME NEW i \in {i \in I : \E j \in J : t[j] = s[i]} PROVE \E k \in 1..l : u[k] = s[i]
  <2>1. PICK j \in J : t[j] = s[i]
    OBVIOUS
  <2> QED BY <2>1 DEF Thinned
<1>3. ASSUME NEW k \in 1..l, NEW h \in 1..l, NEW i \in 1..n, NEW j \in 1..n, u[k] = s[i], u[h] = s[j], k < h
      PROVE  i < j
  <2>1. PICK a \in J, b \in J : u[k] = t[a] /\ u[h] = t[b]
    BY DEF Thinned
  <2>2. a \in 1..m /\ b \in 1..m
    OBVIOUS
  <2>3. a < b
    BY <1>3, <2>1, <2>2 DEF Thinned
  <2>4. t[a] = s[i] /\ t[b] = s[j]
    BY <1>3, <2>1
  <2> QED BY <2>2, <2>3, <2>4 DEF Thinned
<1> QED BY <1>1, <1>2, <1>3 DEF Thinned

-----------------------------------------------------------------------------
(* The ranking lists the eligible entities, each once.                     *)

LEMMA InsertedLists ==
  ASSUME NEW s, NEW m, Listing(s, m), NEW x, \A i \in 1..m : s[i] # x, NEW later
  PROVE  /\ Listing(Inserted(s, x, later), m + 1)
         /\ \A i \in 1..(m + 1) : Inserted(s, x, later)[i] = x
                                  \/ \E j \in 1..m : Inserted(s, x, later)[i] = s[j]
<1> DEFINE before == {i \in DOMAIN s : s[i] \notin later}
<1>1. m \in Nat /\ DOMAIN s = 1..m /\ Len(s) = m /\ \A i, j \in 1..m : s[i] = s[j] => i = j
  BY DEF Listing
<1>2. before \in SUBSET (1..m)
  BY <1>1
<1>3. IsFiniteSet(1..m) /\ Cardinality(1..m) = m
  BY <1>1, FS_Interval
<1>4. Cardinality(before) \in Nat /\ Cardinality(before) <= m
  BY <1>2, <1>3, FS_Subset, FS_CardinalityType
<1>5. PICK n : n = Cardinality(before)
  OBVIOUS
<1>6. PICK t : t = [i \in 1..(m + 1) |-> IF i <= n THEN s[i] ELSE IF i = n + 1 THEN x ELSE s[i - 1]]
  OBVIOUS
<1>7. Inserted(s, x, later) = t
  <2>1. Inserted(s, x, later) = Tabulated(t)
    BY <1>1, <1>5, <1>6, Zenon DEF Inserted
  <2> QED BY <2>1, TabulatedIs
<1> HIDE DEF before
<1>8. n \in 0..m
  BY <1>1, <1>4, <1>5
<1>9. ASSUME NEW i \in 1..(m + 1)
      PROVE  /\ i <= n => t[i] = s[i] /\ i \in 1..m
             /\ i = n + 1 => t[i] = x
             /\ i > n + 1 => t[i] = s[i - 1] /\ i - 1 \in 1..m
  BY <1>1, <1>6, <1>8
<1>10. DOMAIN t = 1..(m + 1) /\ t = [i \in 1..(m + 1) |-> t[i]] /\ m + 1 \in Nat
  BY <1>1, <1>6
<1>11. Len(t) = m + 1
  BY <1>10, PlacesCount
<1>12. ASSUME NEW i \in 1..(m + 1), NEW j \in 1..(m + 1), t[i] = t[j] PROVE i = j
  <2>1. /\ i <= n \/ i = n + 1 \/ i > n + 1
        /\ j <= n \/ j = n + 1 \/ j > n + 1
    BY <1>8
  <2>2. (i = n + 1) <=> (j = n + 1)
    BY <1>9, <1>12, <2>1
  <2> QED BY <1>1, <1>8, <1>9, <1>12, <2>1, <2>2
<1>13. \A i \in 1..(m + 1) : t[i] = x \/ \E j \in 1..m : t[i] = s[j]
  BY <1>8, <1>9
<1>14. Listing(t, m + 1)
  BY <1>10, <1>11, <1>12 DEF Listing
<1> QED BY <1>7, <1>13, <1>14

(* The sort by momentum, as far as n names.                                *)
IsSorting(f, names, features, n) ==
  f = [k \in 0..n |-> IF k = 0 THEN <<>> ELSE Inserted(f[k - 1], names[k], {e \in ToSet(names) : features[e].mom < features[names[k]].mom})]

LEMMA SortingsExist ==
  ASSUME NEW names, NEW features, NEW n \in Nat
  PROVE  \E f : IsSorting(f, names, features, n)
<1> DEFINE Lacking == {m \in Nat : ~\E f : IsSorting(f, names, features, m)}
<1> SUFFICES ASSUME Lacking # {} PROVE FALSE
  OBVIOUS
<1>1. PICK m \in Lacking : \A x \in Lacking : m <= x
  <2>1. Lacking \in SUBSET Nat
    OBVIOUS
  <2> HIDE DEF Lacking
  <2> QED BY <2>1, LeastNat
<1>2. m \in Nat /\ ~\E f : IsSorting(f, names, features, m)
  OBVIOUS
<1>3. CASE m = 0
  <2>1. PICK f : f = [k \in 0..0 |-> <<>>]
    OBVIOUS
  <2>2. f = [k \in 0..0 |-> IF k = 0 THEN <<>> ELSE Inserted(f[k - 1], names[k], {e \in ToSet(names) : features[e].mom < features[names[k]].mom})]
    BY <2>1
  <2> QED BY <2>2, <1>2, <1>3 DEF IsSorting
<1>4. CASE m # 0
  <2>1. m - 1 \in Nat /\ m - 1 \notin Lacking
    BY <1>1, <1>2, <1>4
  <2>2. PICK f : IsSorting(f, names, features, m - 1)
    BY <2>1
  <2>3. PICK x : x = Inserted(f[m - 1], names[m], {e \in ToSet(names) : features[e].mom < features[names[m]].mom})
    OBVIOUS
  <2>4. PICK g : g = [k \in 0..m |-> IF k = m THEN x ELSE f[k]]
    OBVIOUS
  <2>5. ASSUME NEW k \in 0..m PROVE g[k] = IF k = 0 THEN <<>> ELSE Inserted(g[k - 1], names[k], {e \in ToSet(names) : features[e].mom < features[names[k]].mom})
    <3>1. f = [j \in 0..(m - 1) |-> IF j = 0 THEN <<>> ELSE Inserted(f[j - 1], names[j], {e \in ToSet(names) : features[e].mom < features[names[j]].mom})]
      BY <2>2 DEF IsSorting
    <3>2. k # m => k \in 0..(m - 1) /\ g[k] = f[k]
      BY <2>1, <2>4
    <3>3. k # 0 => k - 1 \in 0..(m - 1) /\ g[k - 1] = f[k - 1]
      BY <2>1, <2>4
    <3>4. g[m] = x
      BY <2>1, <2>4
    <3>5. k # m => g[k] = IF k = 0 THEN <<>> ELSE Inserted(f[k - 1], names[k], {e \in ToSet(names) : features[e].mom < features[names[k]].mom})
      BY <3>1, <3>2, Zenon
    <3> QED BY <1>4, <2>3, <3>3, <3>4, <3>5, Zenon
  <2>6. g = [k \in 0..m |-> IF k = 0 THEN <<>> ELSE Inserted(g[k - 1], names[k], {e \in ToSet(names) : features[e].mom < features[names[k]].mom})]
    BY <2>4, <2>5
  <2> QED BY <2>6, <1>2 DEF IsSorting
<1> QED BY <1>3, <1>4

LEMMA SortedLists ==
  ASSUME NEW names, NEW n, Listing(names, n), NEW features
  PROVE  Listing(SortedByMomentum(names, features), n)
<1> DEFINE P(f) == f = [k \in 0..n |->
                          IF k = 0 THEN <<>>
                          ELSE Inserted(f[k - 1], names[k],
                                        {e \in ToSet(names) : features[e].mom < features[names[k]].mom})]
<1>1. n \in Nat /\ Len(names) = n /\ DOMAIN names = 1..n /\ \A i, j \in 1..n : names[i] = names[j] => i = j
  BY DEF Listing
<1>2. \E f : P(f)
  <2>1. PICK f : IsSorting(f, names, features, n)
    BY <1>1, SortingsExist
  <2>2. P(f)
    BY <2>1 DEF IsSorting
  <2> HIDE DEF P
  <2> QED BY <2>2
<1>3. SortedByMomentum(names, features) = (CHOOSE f : P(f))[n]
  BY <1>1, Zenon DEF SortedByMomentum
<1>4. P(CHOOSE f : P(f))
  <2> HIDE DEF P
  <2> QED BY <1>2
<1>5. PICK f : P(f) /\ SortedByMomentum(names, features) = f[n]
  <2> HIDE DEF P
  <2> QED BY <1>3, <1>4
<1>6. \A k \in 0..n : f[k] = IF k = 0 THEN <<>>
                             ELSE Inserted(f[k - 1], names[k],
                                           {e \in ToSet(names) : features[e].mom < features[names[k]].mom})
  BY <1>5, Zenon
<1> HIDE DEF P
<1> DEFINE Listed(k) == Listing(f[k], k) /\ \A i \in 1..k : \E j \in 1..k : f[k][i] = names[j]
           Lacking == {m \in Nat : m \in 0..n /\ ~Listed(m)}
<1>7. \A k \in 0..n : Listed(k)
  <2> SUFFICES ASSUME Lacking # {} PROVE FALSE
    <3> HIDE DEF Listed
    <3>1. \A k \in 0..n : k \in Nat
      BY <1>1
    <3> QED BY <3>1
  <2>1. PICK m \in Lacking : \A x \in Lacking : m <= x
    <3>1. Lacking \in SUBSET Nat
      OBVIOUS
    <3> HIDE DEF Lacking
    <3> QED BY <3>1, LeastNat
  <2>2. m \in Nat /\ m \in 0..n /\ ~Listed(m)
    BY <2>1
  <2>3. m # 0
    <3> SUFFICES ASSUME m = 0 PROVE FALSE
      OBVIOUS
    <3>1. 0 \in 0..n
      BY <1>1
    <3>2. f[0] = <<>>
      BY <1>6, <3>1, Zenon
    <3>3. DOMAIN <<>> = 1..0 /\ <<>> = [i \in 1..0 |-> <<>>[i]] /\ Len(<<>>) = 0
      OBVIOUS
    <3>4. Listing(<<>>, 0)
      BY <3>3 DEF Listing
    <3>5. \A i \in 1..0 : FALSE
      OBVIOUS
    <3>6. Listed(0)
      BY <3>2, <3>4, <3>5
    <3> HIDE DEF Listed
    <3> QED BY <2>2, <3>6
  <2>4. m - 1 \in Nat /\ m - 1 \in 0..n /\ m \in 1..n /\ m - 1 \notin Lacking
    BY <1>1, <2>1, <2>2, <2>3
  <2>5. Listed(m - 1)
    <3> HIDE DEF Listed
    <3> QED BY <2>4
  <2>6. PICK later : later = {e \in ToSet(names) : features[e].mom < features[names[m]].mom}
    OBVIOUS
  <2>7. f[m] = Inserted(f[m - 1], names[m], later)
    BY <1>6, <2>2, <2>3, <2>6, Zenon
  <2>8. \A i \in 1..(m - 1) : f[m - 1][i] # names[m]
    <3> SUFFICES ASSUME NEW i \in 1..(m - 1), f[m - 1][i] = names[m] PROVE FALSE
      OBVIOUS
    <3>1. PICK j \in 1..(m - 1) : names[m] = names[j]
      BY <2>5
    <3>2. j \in 1..n /\ j # m
      <4> HIDE DEF Lacking
      <4> QED BY <1>1, <2>4
    <3> QED BY <1>1, <2>4, <3>1, <3>2
  <2>9. PICK s : s = f[m - 1]
    OBVIOUS
  <2>10. PICK t : t = Inserted(s, names[m], later)
    OBVIOUS
  <2>11. Listing(s, m - 1) /\ \A i \in 1..(m - 1) : s[i] # names[m]
    BY <2>5, <2>8, <2>9
  <2>12. PICK q : q = m - 1
    OBVIOUS
  <2>13. /\ Listing(t, q + 1)
         /\ \A i \in 1..(q + 1) : t[i] = names[m] \/ \E j \in 1..q : t[i] = s[j]
    <3>1. Listing(s, q) /\ \A i \in 1..q : s[i] # names[m]
      BY <2>11, <2>12
    <3> QED BY <2>10, <3>1, InsertedLists
  <2>14. q + 1 = m
    BY <2>4, <2>12
  <2>15. ASSUME NEW i \in 1..m PROVE \E j \in 1..m : t[i] = names[j]
    <3>1. CASE t[i] = names[m]
      BY <2>4, <3>1
    <3>2. CASE \E j \in 1..q : t[i] = s[j]
      <4>1. PICK j \in 1..q : t[i] = s[j]
        BY <3>2
      <4>2. PICK h \in 1..q : s[j] = names[h]
        BY <2>5, <2>9, <2>12
      <4>3. h \in 1..m
        BY <2>4, <2>12
      <4> QED BY <4>1, <4>2, <4>3
    <3> QED BY <2>13, <2>14, <3>1, <3>2
  <2>16. t = f[m]
    BY <2>7, <2>9, <2>10
  <2>17. Listed(m)
    BY <2>13, <2>14, <2>15, <2>16
  <2> HIDE DEF Listed
  <2> QED BY <2>2, <2>17
<1>8. Listed(n)
  <2> HIDE DEF Listed
  <2> QED BY <1>1, <1>7
<1> QED BY <1>5, <1>8

LEMMA NamesList == Listing(EntityOrder, Len(EntityOrder))
<1>1. EntityOrder \in Seq(ToSet(EntityOrder)) /\ IsInjective(EntityOrder)
  BY NamesAssumption
<1>2. PICK s, S : s = EntityOrder /\ S = ToSet(EntityOrder)
  OBVIOUS
<1>3. s \in Seq(S)
  BY <1>1, <1>2
<1>4. Len(s) \in Nat /\ DOMAIN s = 1..Len(s) /\ s = [i \in 1..Len(s) |-> s[i]]
  BY <1>3
<1>5. \A i, j \in DOMAIN s : s[i] = s[j] => i = j
  BY <1>1, <1>2 DEF IsInjective
<1>6. Listing(s, Len(s))
  BY <1>4, <1>5 DEF Listing
<1> QED BY <1>2, <1>6

LEMMA RankingLists ==
  ASSUME NEW features, NEW cashMom, NEW restricted
  PROVE  \E n : Listing(Ranking(features, cashMom, restricted), n)
<1> DEFINE eligible == {e \in DOMAIN features \ restricted : Ineligible(features[e], cashMom) = "none"}
<1>1. PICK s, N : s = EntityOrder /\ N = Len(EntityOrder)
  OBVIOUS
<1>2. Listing(s, N)
  BY <1>1, NamesList
<1>3. PICK I : I = {i \in DOMAIN s : s[i] \in eligible}
  OBVIOUS
<1>4. I \in SUBSET (1..N)
  BY <1>2, <1>3 DEF Listing
<1>5. PICK names, n : names = Keeping(s, I) /\ n = Cardinality(I)
  OBVIOUS
<1>6. Listing(names, n)
  BY <1>2, <1>4, <1>5, KeepingThins DEF Thinned
<1>7. Ranking(features, cashMom, restricted) = SortedByMomentum(names, features)
  BY <1>1, <1>3, <1>5, Zenon DEF Ranking
<1>8. Listing(SortedByMomentum(names, features), n)
  BY <1>6, SortedLists
<1> QED BY <1>7, <1>8

-----------------------------------------------------------------------------
(* The book: what is kept, what is added, and what a cluster has of both.  *)

(* A list of n has at most n members.                                      *)
LEMMA ListIsSmall ==
  ASSUME NEW s, NEW n \in Nat, DOMAIN s = 1..n
  PROVE  IsFiniteSet(ToSet(s)) /\ Cardinality(ToSet(s)) \in Nat /\ Cardinality(ToSet(s)) <= n
<1>1. PICK g : g = [i \in 1..n |-> s[i]]
  OBVIOUS
<1>2. g \in Surjection(1..n, ToSet(s))
  BY <1>1 DEF Surjection, ToSet
<1>3. IsFiniteSet(1..n) /\ Cardinality(1..n) = n
  BY FS_Interval
<1>4. IsFiniteSet(ToSet(s)) /\ Cardinality(ToSet(s)) <= Cardinality(1..n)
  BY <1>2, <1>3, FS_Surjection
<1> QED BY <1>3, <1>4, FS_CardinalityType

(* Distinct things picked by distinct indices are as many.                 *)
LEMMA FirstAreMany ==
  ASSUME NEW s, NEW n, Listing(s, n), NEW k \in 0..n
  PROVE  IsFiniteSet({s[i] : i \in 1..k}) /\ Cardinality({s[i] : i \in 1..k}) = k
<1> DEFINE W == {s[i] : i \in 1..k}
<1>1. n \in Nat /\ k \in Nat /\ \A i, j \in 1..n : s[i] = s[j] => i = j
  BY DEF Listing
<1>2. PICK g : g = [i \in 1..k |-> s[i]]
  OBVIOUS
<1>3. g \in Surjection(1..k, W)
  BY <1>2 DEF Surjection
<1>4. \A i \in 1..k : i \in 1..n
  BY <1>1
<1>5. g \in Injection(1..k, W)
  <2>1. g \in [1..k -> W]
    BY <1>2
  <2>2. \A i, j \in 1..k : g[i] = g[j] => i = j
    <3> SUFFICES ASSUME NEW i \in 1..k, NEW j \in 1..k, g[i] = g[j] PROVE i = j
      OBVIOUS
    <3>1. s[i] = s[j] /\ i \in 1..n /\ j \in 1..n
      BY <1>2, <1>4
    <3> QED BY <1>1, <3>1
  <2> HIDE DEF W
  <2> QED BY <2>1, <2>2 DEF Injection, IsInjective
<1>6. IsFiniteSet(1..k) /\ Cardinality(1..k) = k
  BY <1>1, FS_Interval
<1> HIDE DEF W
<1>7. IsFiniteSet(W) /\ (Cardinality(W) = Cardinality(1..k) <=> g \in Injection(1..k, W))
  BY <1>3, <1>6, FS_Surjection
<1>8. IsFiniteSet(W) /\ Cardinality(W) = k
  BY <1>5, <1>6, <1>7
<1> QED BY <1>8 DEF W

LEMMA ListingIsLog ==
  ASSUME NEW s, NEW n, Listing(s, n)
  PROVE  IsLog(s)
<1> QED BY PlacesCount DEF Listing

(* The first k of a list, or all of it.                                    *)
Shorter(k, n) == IF k < n THEN k ELSE n

Starts(t, l, s, n, k) ==
  l \in Nat /\ l \in 0..n /\ l <= k /\ Listing(t, l) /\ \A i \in 1..l : t[i] = s[i]

LEMMA PrefixLists ==
  ASSUME NEW s, NEW n, Listing(s, n), NEW k \in Nat
  PROVE  Starts(Prefix(s, k), Shorter(k, n), s, n, k)
<1>0. PICK l : l = Shorter(k, n)
  OBVIOUS
<1>1. n \in Nat /\ Len(s) = n /\ \A i, j \in 1..n : s[i] = s[j] => i = j
  BY DEF Listing
<1>2. PICK S : s \in Seq(S)
  BY ListingIsLog DEF IsLog
<1>3. l \in Nat /\ l \in 0..n /\ l <= k
  BY <1>0, <1>1 DEF Shorter
<1>4. PICK t : t = SubSeq(s, 1, l)
  OBVIOUS
<1>5. Prefix(s, k) = t
  BY <1>0, <1>1, <1>4, Zenon DEF Prefix, Shorter
<1>6. t \in Seq(S) /\ Len(t) = l /\ \A i \in 1..l : t[i] = s[i]
  BY <1>1, <1>2, <1>3, <1>4
<1>7. DOMAIN t = 1..l /\ t = [i \in 1..l |-> t[i]]
  BY <1>6
<1>8. \A i \in 1..l : i \in 1..n
  BY <1>1, <1>3
<1>9. \A i, j \in 1..l : t[i] = t[j] => i = j
  BY <1>1, <1>6, <1>8, Zenon
<1>10. Listing(t, l)
  BY <1>3, <1>6, <1>7, <1>9, Zenon DEF Listing
<1>11. Starts(t, l, s, n, k)
  BY <1>3, <1>6, <1>10, Zenon DEF Starts
<1> QED BY <1>0, <1>5, <1>11, Zenon

LEMMA ConcatLists ==
  ASSUME NEW U, NEW s \in Seq(U), NEW t \in Seq(U)
  PROVE  /\ s \o t \in Seq(U) /\ Len(s \o t) = Len(s) + Len(t)
         /\ \A i \in 1..(Len(s) + Len(t)) : (s \o t)[i] = IF i <= Len(s) THEN s[i] ELSE t[i - Len(s)]
<1> QED OBVIOUS

(* The book is of names that cleared, within its size and the newcomers'   *)
(* share; an incumbent that cleared and is left out has a book of others   *)
(* before it.                                                              *)
BookOf(book, cleared, m, held) ==
  /\ ToSet(book) \subseteq ToSet(cleared)
  /\ IsFiniteSet(ToSet(book)) /\ Cardinality(ToSet(book)) <= MaxPositions
  /\ Cardinality(ToSet(book) \ held) <= MaxNewPositions
  /\ \A p \in 1..m : cleared[p] \in held /\ cleared[p] \notin ToSet(book) =>
       \E W : /\ IsFiniteSet(W) /\ Cardinality(W) = MaxPositions
              /\ \A y \in W : y \in ToSet(book) /\ y \in held /\ \E q \in 1..m : q < p /\ cleared[q] = y

LEMMA BookFilled ==
  ASSUME NEW cleared, NEW m, Listing(cleared, m), NEW held
  PROVE  BookOf(FillBook(cleared, held), cleared, m, held)
<1>1. /\ m \in Nat /\ DOMAIN cleared = 1..m
      /\ MaxPositions \in Nat /\ MaxNewPositions \in Nat
  BY RanksAssumption DEF Listing
<1>2. PICK I, J : I = {k \in DOMAIN cleared : cleared[k] \in held} /\ J = {k \in DOMAIN cleared : cleared[k] \notin held}
  OBVIOUS
<1>3. /\ I \in SUBSET (1..m) /\ J \in SUBSET (1..m)
      /\ \A i \in 1..m : i \in I <=> cleared[i] \in held
      /\ \A i \in 1..m : i \in J <=> cleared[i] \notin held
  BY <1>1, <1>2
<1>4. PICK H, h, N, n : H = Keeping(cleared, I) /\ h = Cardinality(I) /\ N = Keeping(cleared, J) /\ n = Cardinality(J)
  OBVIOUS
<1>5. Thinned(H, h, cleared, m, I) /\ Thinned(N, n, cleared, m, J)
  BY <1>3, <1>4, KeepingThins
<1>6. Listing(H, h) /\ Listing(N, n) /\ h \in Nat /\ n \in Nat
  BY <1>5 DEF Thinned, Listing
<1>7. PICK inc, a : inc = Prefix(H, MaxPositions) /\ a = Shorter(MaxPositions, h)
  OBVIOUS
<1>8. a \in Nat /\ a \in 0..h /\ a <= MaxPositions /\ Listing(inc, a) /\ \A i \in 1..a : inc[i] = H[i]
  <2>1. Starts(inc, a, H, h, MaxPositions)
    BY <1>1, <1>6, <1>7, PrefixLists, Zenon
  <2> QED BY <2>1, Zenon DEF Starts
<1>9. PICK q : q = IF MaxPositions - Len(inc) < MaxNewPositions THEN MaxPositions - Len(inc) ELSE MaxNewPositions
  OBVIOUS
<1>10. Len(inc) = a
  BY <1>8 DEF Listing
<1>11. q \in Nat /\ q <= MaxNewPositions /\ a + q <= MaxPositions
  BY <1>1, <1>8, <1>9, <1>10
<1>12. PICK new, b : new = Prefix(N, q) /\ b = Shorter(q, n)
  OBVIOUS
<1>13. b \in Nat /\ b \in 0..n /\ b <= q /\ Listing(new, b) /\ \A i \in 1..b : new[i] = N[i]
  <2>1. Starts(new, b, N, n, q)
    BY <1>6, <1>11, <1>12, PrefixLists, Zenon
  <2> QED BY <2>1, Zenon DEF Starts
<1>14. PICK book : book = inc \o new
  OBVIOUS
<1>15. FillBook(cleared, held) = book
  BY <1>2, <1>4, <1>7, <1>9, <1>12, <1>14, Zenon DEF FillBook
<1>16. /\ IsLog(book) /\ DOMAIN book = 1..(a + b)
       /\ \A i \in 1..a : i \in 1..(a + b) /\ book[i] = inc[i]
       /\ \A i \in 1..(a + b) : (i \in 1..a /\ book[i] = inc[i]) \/ (i - a \in 1..b /\ book[i] = new[i - a])
  <2>1. PICK S, T : inc \in Seq(S) /\ new \in Seq(T)
    BY <1>8, <1>13, ListingIsLog DEF IsLog
  <2>2. PICK U : U = S \cup T
    OBVIOUS
  <2>3. inc \in Seq(U) /\ new \in Seq(U)
    BY <2>1, <2>2
  <2>4. Len(inc) = a /\ Len(new) = b
    BY <1>8, <1>13 DEF Listing
  <2>5. book \in Seq(U) /\ Len(book) = a + b
    BY <1>14, <2>3, <2>4, ConcatLists
  <2>6. \A i \in 1..(a + b) : book[i] = IF i <= a THEN inc[i] ELSE new[i - a]
    BY <1>14, <2>3, <2>4, ConcatLists
  <2>7. DOMAIN book = 1..(a + b)
    BY <2>5
  <2>8. IsLog(book)
    BY <2>5 DEF IsLog
  <2>9. \A i \in 1..a : i \in 1..(a + b) /\ i <= a
    BY <1>8, <1>13
  <2>10. \A i \in 1..(a + b) : (i <= a /\ i \in 1..a) \/ (~(i <= a) /\ i - a \in 1..b)
    BY <1>8, <1>13
  <2> QED BY <2>6, <2>7, <2>8, <2>9, <2>10
<1>17. \A i \in 1..a : i \in 1..h /\ \E j \in I : inc[i] = cleared[j]
  <2>1. \A i \in 1..a : i \in 1..h
    BY <1>6, <1>8
  <2>2. \A k \in 1..h : \E j \in I : H[k] = cleared[j]
    BY <1>5 DEF Thinned
  <2> QED BY <1>8, <2>1, <2>2
<1>18. \A i \in 1..b : i \in 1..n /\ \E j \in J : new[i] = cleared[j]
  <2>1. \A i \in 1..b : i \in 1..n
    BY <1>6, <1>13
  <2>2. \A k \in 1..n : \E j \in J : N[k] = cleared[j]
    BY <1>5 DEF Thinned
  <2> QED BY <1>13, <2>1, <2>2
<1>19. ToSet(book) \subseteq ToSet(cleared)
  <2>1. ASSUME NEW i \in 1..(a + b) PROVE \E j \in 1..m : book[i] = cleared[j]
    BY <1>3, <1>16, <1>17, <1>18
  <2> QED BY <1>1, <1>16, <2>1 DEF ToSet
<1>20. IsFiniteSet(ToSet(book)) /\ Cardinality(ToSet(book)) \in Nat /\ Cardinality(ToSet(book)) <= MaxPositions
  <2>1. a + b \in Nat /\ a + b <= MaxPositions
    BY <1>1, <1>8, <1>11, <1>13
  <2>2. IsFiniteSet(ToSet(book)) /\ Cardinality(ToSet(book)) \in Nat /\ Cardinality(ToSet(book)) <= a + b
    BY <1>16, <2>1, ListIsSmall
  <2> QED BY <1>1, <2>1, <2>2
<1>21. Cardinality(ToSet(book) \ held) <= MaxNewPositions
  <2>1. ToSet(book) \ held \in SUBSET ToSet(new)
    <3> SUFFICES ASSUME NEW y \in ToSet(book), y \notin held PROVE y \in ToSet(new)
      OBVIOUS
    <3>1. PICK i \in 1..(a + b) : y = book[i]
      BY <1>16 DEF ToSet
    <3>2. i \notin 1..a \/ y # inc[i]
      BY <1>3, <1>17
    <3>3. i - a \in 1..b /\ y = new[i - a]
      BY <1>16, <3>1, <3>2
    <3>4. DOMAIN new = 1..b
      BY <1>13 DEF Listing
    <3> QED BY <3>3, <3>4 DEF ToSet
  <2>2. IsFiniteSet(ToSet(new)) /\ Cardinality(ToSet(new)) \in Nat /\ Cardinality(ToSet(new)) <= b
    <3>1. DOMAIN new = 1..b
      BY <1>13 DEF Listing
    <3> QED BY <1>13, <3>1, ListIsSmall
  <2>3. PICK X : X = ToSet(book) \ held
    OBVIOUS
  <2>4. IsFiniteSet(X) /\ Cardinality(X) <= Cardinality(ToSet(new))
    BY <2>1, <2>2, <2>3, FS_Subset
  <2>5. Cardinality(X) \in Nat
    BY <2>4, FS_CardinalityType
  <2> QED BY <1>1, <1>11, <1>13, <2>2, <2>3, <2>4, <2>5
<1>22. ASSUME NEW p \in 1..m, cleared[p] \in held, cleared[p] \notin ToSet(book)
       PROVE  \E W : /\ IsFiniteSet(W) /\ Cardinality(W) = MaxPositions
                     /\ \A y \in W : y \in ToSet(book) /\ y \in held /\ \E j \in 1..m : j < p /\ cleared[j] = y
  <2>1. PICK k \in 1..h : H[k] = cleared[p]
    BY <1>3, <1>5, <1>22 DEF Thinned
  <2>2. \A i \in 1..a : inc[i] \in ToSet(book)
    BY <1>16 DEF ToSet
  <2>3. k \notin 1..a
    BY <1>8, <1>22, <2>1, <2>2
  <2>4. a = MaxPositions /\ MaxPositions \in 0..h /\ \A i \in 1..a : i < k
    <3>1. h \in Nat /\ MaxPositions \in Nat /\ k \in 1..h /\ a \in 0..h
      BY <1>1, <1>6, <1>8
    <3>2. a = IF MaxPositions < h THEN MaxPositions ELSE h
      BY <1>7 DEF Shorter
    <3>3. a = MaxPositions
      BY <2>3, <3>1, <3>2
    <3> QED BY <2>3, <3>1, <3>3
  <2>5. PICK W : W = {H[i] : i \in 1..MaxPositions}
    OBVIOUS
  <2>6. IsFiniteSet(W) /\ Cardinality(W) = MaxPositions
    BY <1>6, <2>4, <2>5, FirstAreMany
  <2>7. ASSUME NEW y \in W PROVE y \in ToSet(book) /\ y \in held /\ \E j \in 1..m : j < p /\ cleared[j] = y
    <3>1. PICK i \in 1..a : y = H[i] /\ y = inc[i]
      BY <1>8, <2>4, <2>5
    <3>2. PICK j \in I : y = cleared[j]
      BY <1>17, <3>1
    <3>3. j \in 1..m /\ cleared[j] \in held
      BY <1>3
    <3>4. i \in 1..h /\ i < k
      BY <1>17, <2>4
    <3>5. j < p
      <4>1. \A x, y1 \in 1..h : \A z, w \in 1..m : H[x] = cleared[z] /\ H[y1] = cleared[w] /\ x < y1 => z < w
        BY <1>5, Zenon DEF Thinned
      <4>2. H[i] = cleared[j]
        BY <3>1, <3>2
      <4> QED BY <2>1, <3>3, <3>4, <4>1, <4>2
    <3> QED BY <2>2, <3>1, <3>2, <3>3, <3>5
  <2> QED BY <2>6, <2>7
<1>23. BookOf(book, cleared, m, held)
  BY <1>19, <1>20, <1>21, <1>22 DEF BookOf
<1> QED BY <1>15, <1>23

(* Of what cleared, no cluster has more than its members.                  *)
LEMMA ClearedKeepsCaps ==
  ASSUME NEW inBand, NEW m, Listing(inBand, m)
  PROVE  \E n, I : /\ I \in SUBSET (1..m) /\ Thinned(ClusterCleared(inBand), n, inBand, m, I)
                   /\ \A c \in Clusters : Cardinality(c \cap ToSet(ClusterCleared(inBand))) <= MaxMembers
<1>1. m \in Nat /\ DOMAIN inBand = 1..m /\ (\A i, j \in 1..m : inBand[i] = inBand[j] => i = j) /\ MaxMembers \in Nat
  BY RanksAssumption DEF Listing
<1>2. PICK I : I = {k \in DOMAIN inBand :
                      inBand[k] \in UNION Clusters =>
                        Cardinality({j \in 1..(k - 1) : inBand[j] \in Mates(inBand[k])}) < MaxMembers}
  OBVIOUS
<1>3. I \in SUBSET (1..m)
  BY <1>1, <1>2
<1>4. PICK cleared, n : cleared = Keeping(inBand, I) /\ n = Cardinality(I)
  OBVIOUS
<1>5. ClusterCleared(inBand) = cleared
  BY <1>2, <1>4, Zenon DEF ClusterCleared
<1>6. Thinned(cleared, n, inBand, m, I)
  BY <1>3, <1>4, KeepingThins
<1>7. ASSUME NEW c \in Clusters PROVE Cardinality(c \cap ToSet(cleared)) <= MaxMembers
  <2>1. PICK Q : Q = {i \in I : inBand[i] \in c}
    OBVIOUS
  <2>2. Q \in SUBSET (1..m)
    BY <1>3, <2>1
  <2>3. IsFiniteSet(1..m)
    BY <1>1, FS_Interval
  <2>4. IsFiniteSet(Q) /\ Cardinality(Q) \in Nat
    BY <2>2, <2>3, FS_Subset, FS_CardinalityType
  <2>5. Cardinality(c \cap ToSet(cleared)) <= Cardinality(Q)
    <3>1. PICK X : X = c \cap ToSet(cleared)
      OBVIOUS
    <3>2. PICK g : g = [i \in Q |-> inBand[i]]
      OBVIOUS
    <3>3. \A x \in X : \E i \in Q : inBand[i] = x
      <4> SUFFICES ASSUME NEW x \in X PROVE \E i \in Q : inBand[i] = x
        OBVIOUS
      <4>1. DOMAIN cleared = 1..n
        BY <1>6 DEF Thinned, Listing
      <4>2. PICK k \in 1..n : cleared[k] = x
        BY <3>1, <4>1 DEF ToSet
      <4>3. PICK i \in I : cleared[k] = inBand[i]
        BY <1>6 DEF Thinned
      <4> QED BY <2>1, <3>1, <4>2, <4>3
    <3>4. \A i \in Q : inBand[i] \in X
      <4> SUFFICES ASSUME NEW i \in Q PROVE inBand[i] \in X
        OBVIOUS
      <4>1. DOMAIN cleared = 1..n
        BY <1>6 DEF Thinned, Listing
      <4>2. i \in I /\ inBand[i] \in c
        BY <2>1
      <4>3. PICK k \in 1..n : cleared[k] = inBand[i]
        BY <1>6, <4>2 DEF Thinned
      <4> QED BY <3>1, <4>1, <4>2, <4>3 DEF ToSet
    <3>5. g \in Surjection(Q, X)
      <4>1. g \in [Q -> X]
        BY <3>2, <3>4
      <4>2. \A x \in X : \E i \in Q : g[i] = x
        BY <3>2, <3>3
      <4> QED BY <4>1, <4>2 DEF Surjection
    <3>6. Cardinality(X) <= Cardinality(Q)
      BY <2>4, <3>5, FS_Surjection
    <3> QED BY <3>1, <3>6
  <2>6. Cardinality(Q) <= MaxMembers
    <3>1. CASE Q = {}
      <4>1. Cardinality({}) = 0
        BY FS_EmptySet
      <4> QED BY <1>1, <3>1, <4>1
    <3>2. CASE Q # {}
      <4>1. PICK k \in Q : \A j \in Q : j <= k
        <5>1. PICK N : N = {d \in Nat : m - d \in Q}
          OBVIOUS
        <5>2. N \in SUBSET Nat
          BY <5>1
        <5>3. PICK j \in Q : TRUE
          BY <3>2
        <5>4. m - j \in Nat /\ m - (m - j) = j
          BY <1>1, <2>2
        <5>5. m - j \in N
          BY <5>1, <5>4
        <5>6. PICK d \in N : \A e \in N : d <= e
          BY <5>2, <5>5, LeastNat
        <5>7. \A i \in Q : m - i \in N
          <6> SUFFICES ASSUME NEW i \in Q PROVE m - i \in N
            OBVIOUS
          <6>1. i \in 1..m
            BY <2>2
          <6>2. m - i \in Nat /\ m - (m - i) = i
            BY <1>1, <6>1
          <6> QED BY <5>1, <6>2
        <5>8. m - d \in Q /\ d \in Nat
          BY <5>1, <5>6
        <5>9. \A i \in Q : i <= m - d
          <6> SUFFICES ASSUME NEW i \in Q PROVE i <= m - d
            OBVIOUS
          <6>1. i \in 1..m /\ d <= m - i
            BY <2>2, <5>6, <5>7
          <6> QED BY <1>1, <5>8, <6>1
        <5> QED BY <5>8, <5>9
      <4>2. k \in I /\ k \in 1..m /\ inBand[k] \in c
        BY <1>3, <2>1
      <4>3. inBand[k] \in UNION Clusters /\ c \subseteq Mates(inBand[k])
        BY <4>2 DEF Mates
      <4>4. PICK B : B = {j \in 1..(k - 1) : inBand[j] \in Mates(inBand[k])}
        OBVIOUS
      <4>5. Cardinality(B) < MaxMembers
        BY <1>2, <4>2, <4>3, <4>4
      <4>6. Q \ {k} \in SUBSET B
        <5> SUFFICES ASSUME NEW j \in Q, j # k PROVE j \in B
          OBVIOUS
        <5>1. j \in 1..m /\ j <= k /\ inBand[j] \in c
          BY <2>1, <2>2, <4>1
        <5>2. j \in 1..(k - 1)
          BY <1>1, <4>2, <5>1
        <5> QED BY <4>3, <4>4, <5>1, <5>2
      <4>7. IsFiniteSet(B)
        <5>1. k - 1 \in Int
          BY <4>2
        <5>2. IsFiniteSet(1..(k - 1))
          BY <5>1, FS_Interval
        <5>3. B \in SUBSET (1..(k - 1))
          BY <4>4
        <5> QED BY <5>2, <5>3, FS_Subset
      <4>8. Cardinality(B) \in Nat /\ Cardinality(Q \ {k}) <= Cardinality(B)
        BY <4>6, <4>7, FS_Subset, FS_CardinalityType
      <4>9. Cardinality(Q \ {k}) = Cardinality(Q) - 1
        BY <2>4, <4>1, FS_RemoveElement
      <4> QED BY <1>1, <2>4, <4>5, <4>8, <4>9
    <3> QED BY <3>1, <3>2
  <2>7. Cardinality(c \cap ToSet(cleared)) \in Nat
    <3>1. DOMAIN cleared = 1..n /\ n \in Nat
      BY <1>6 DEF Thinned, Listing
    <3>2. IsFiniteSet(ToSet(cleared))
      BY <3>1, ListIsSmall
    <3>3. IsFiniteSet(c \cap ToSet(cleared))
      BY <3>2, FS_Intersection
    <3> QED BY <3>3, FS_CardinalityType
  <2> QED BY <1>1, <2>4, <2>5, <2>6, <2>7
<1> QED BY <1>3, <1>5, <1>6, <1>7

(* One name tried for a slot a cluster cap left free.                      *)
Tried(sel, rank, e, inBand, cleared, book, held) ==
  IF \/ Cardinality(sel) >= MaxPositions \/ e \in ToSet(inBand) \/ e \in held
     \/ rank > HoldRank
     \/ (e \in UNION Clusters
         /\ Cardinality({x \in ToSet(cleared) \cup (sel \ ToSet(book)) : x \in Mates(e)}) >= MaxMembers)
     \/ Cardinality(sel \ held) >= MaxNewPositions
  THEN sel ELSE sel \cup {e}

(* A selection over the book that keeps its size, the newcomers' share and *)
(* the caps.                                                               *)
Within(sel, cleared, book, held) ==
  /\ IsFiniteSet(sel) /\ ToSet(book) \subseteq sel
  /\ Cardinality(sel) <= MaxPositions /\ Cardinality(sel \ held) <= MaxNewPositions
  /\ \A c \in Clusters : Cardinality(c \cap (ToSet(cleared) \cup sel)) <= MaxMembers

LEMMA TryKeeps ==
  ASSUME NEW sel, NEW cleared, NEW book, NEW held, Within(sel, cleared, book, held),
         IsFiniteSet(ToSet(cleared)), ToSet(book) \subseteq ToSet(cleared),
         NEW rank, NEW e, NEW inBand
  PROVE  Within(Tried(sel, rank, e, inBand, cleared, book, held), cleared, book, held)
<1>1. CASE Tried(sel, rank, e, inBand, cleared, book, held) = sel
  BY <1>1
<1>2. ASSUME Tried(sel, rank, e, inBand, cleared, book, held) # sel
      PROVE  Within(Tried(sel, rank, e, inBand, cleared, book, held), cleared, book, held)
  <2>1. PICK t : t = Tried(sel, rank, e, inBand, cleared, book, held)
    OBVIOUS
  <2>2. /\ t = sel \cup {e}
        /\ ~(Cardinality(sel) >= MaxPositions) /\ ~(Cardinality(sel \ held) >= MaxNewPositions)
        /\ e \in UNION Clusters =>
             ~(Cardinality({x \in ToSet(cleared) \cup (sel \ ToSet(book)) : x \in Mates(e)}) >= MaxMembers)
    BY <1>2, <2>1, Zenon DEF Tried
  <2>3. /\ IsFiniteSet(sel) /\ ToSet(book) \subseteq sel
        /\ Cardinality(sel) <= MaxPositions /\ Cardinality(sel \ held) <= MaxNewPositions
        /\ \A c \in Clusters : Cardinality(c \cap (ToSet(cleared) \cup sel)) <= MaxMembers
    BY DEF Within
  <2>4. MaxPositions \in Nat /\ MaxNewPositions \in Nat /\ MaxMembers \in Nat
    BY RanksAssumption
  <2>5. IsFiniteSet(t) /\ Cardinality(t) <= MaxPositions
    <3>1. Cardinality(sel) \in Nat
      BY <2>3, FS_CardinalityType
    <3>2. IsFiniteSet(t) /\ Cardinality(t) = IF e \in sel THEN Cardinality(sel) ELSE Cardinality(sel) + 1
      BY <2>2, <2>3, FS_AddElement
    <3> QED BY <2>2, <2>4, <3>1, <3>2
  <2>6. Cardinality(t \ held) <= MaxNewPositions
    <3>1. PICK n : n = sel \ held
      OBVIOUS
    <3>2. IsFiniteSet(n) /\ Cardinality(n) \in Nat
      BY <2>3, <3>1, FS_Difference, FS_CardinalityType
    <3>3. t \ held \in SUBSET (n \cup {e})
      BY <2>2, <3>1
    <3>4. IsFiniteSet(n \cup {e}) /\ Cardinality(n \cup {e}) = IF e \in n THEN Cardinality(n) ELSE Cardinality(n) + 1
      BY <3>2, FS_AddElement
    <3>5. PICK u : u = t \ held
      OBVIOUS
    <3>6. IsFiniteSet(u) /\ Cardinality(u) <= Cardinality(n \cup {e})
      BY <3>3, <3>4, <3>5, FS_Subset
    <3>7. Cardinality(u) \in Nat
      BY <3>6, FS_CardinalityType
    <3> QED BY <2>2, <2>4, <3>1, <3>2, <3>4, <3>5, <3>6, <3>7
  <2>7. ASSUME NEW c \in Clusters PROVE Cardinality(c \cap (ToSet(cleared) \cup t)) <= MaxMembers
    <3>1. PICK old, now : old = c \cap (ToSet(cleared) \cup sel) /\ now = c \cap (ToSet(cleared) \cup t)
      OBVIOUS
    <3>2. CASE e \notin c
      <4>1. now = old
        BY <2>2, <3>1, <3>2
      <4> QED BY <2>3, <3>1, <4>1
    <3>3. CASE e \in c
      <4>1. PICK M : M = {x \in ToSet(cleared) \cup (sel \ ToSet(book)) : x \in Mates(e)}
        OBVIOUS
      <4>2. c \subseteq Mates(e) /\ e \in UNION Clusters
        BY <3>3 DEF Mates
      <4>3. old \in SUBSET M
        BY <3>1, <4>1, <4>2
      <4>4. IsFiniteSet(M)
        <5>1. PICK D : D = sel \ ToSet(book)
          OBVIOUS
        <5>2. IsFiniteSet(D)
          BY <2>3, <5>1, FS_Difference
        <5>3. IsFiniteSet(ToSet(cleared) \cup D)
          BY <5>2, FS_Union
        <5>4. M \in SUBSET (ToSet(cleared) \cup D)
          BY <4>1, <5>1
        <5> QED BY <5>3, <5>4, FS_Subset
      <4>5. IsFiniteSet(old) /\ Cardinality(old) <= Cardinality(M) /\ Cardinality(M) \in Nat /\ Cardinality(old) \in Nat
        BY <4>3, <4>4, FS_Subset, FS_CardinalityType
      <4>6. Cardinality(M) < MaxMembers
        BY <2>2, <2>4, <4>1, <4>2, <4>5
      <4>7. now = old \cup {e}
        BY <2>2, <3>1, <3>3
      <4>8. Cardinality(now) = IF e \in old THEN Cardinality(old) ELSE Cardinality(old) + 1
        BY <4>5, <4>7, FS_AddElement
      <4> QED BY <2>4, <3>1, <4>5, <4>6, <4>8
    <3> QED BY <3>2, <3>3
  <2>8. ToSet(book) \subseteq t
    BY <2>2, <2>3
  <2>9. Within(t, cleared, book, held)
    BY <2>5, <2>6, <2>7, <2>8 DEF Within
  <2> QED BY <2>1, <2>9
<1> QED BY <1>1, <1>2

(* The book filled from the ranking, as far as n names.                    *)
IsFilling(f, ranking, inBand, cleared, book, held, n) ==
  f = [k \in 0..n |-> IF k = 0 THEN ToSet(book) ELSE Tried(f[k - 1], k, ranking[k], inBand, cleared, book, held)]

LEMMA FillingsExist ==
  ASSUME NEW ranking, NEW inBand, NEW cleared, NEW book, NEW held, NEW n \in Nat
  PROVE  \E f : IsFilling(f, ranking, inBand, cleared, book, held, n)
<1> DEFINE Lacking == {m \in Nat : ~\E f : IsFilling(f, ranking, inBand, cleared, book, held, m)}
<1> SUFFICES ASSUME Lacking # {} PROVE FALSE
  OBVIOUS
<1>1. PICK m \in Lacking : \A x \in Lacking : m <= x
  <2>1. Lacking \in SUBSET Nat
    OBVIOUS
  <2> HIDE DEF Lacking
  <2> QED BY <2>1, LeastNat
<1>2. m \in Nat /\ ~\E f : IsFilling(f, ranking, inBand, cleared, book, held, m)
  OBVIOUS
<1>3. CASE m = 0
  <2>1. PICK f : f = [k \in 0..0 |-> ToSet(book)]
    OBVIOUS
  <2>2. f = [k \in 0..0 |-> IF k = 0 THEN ToSet(book) ELSE Tried(f[k - 1], k, ranking[k], inBand, cleared, book, held)]
    BY <2>1
  <2> QED BY <2>2, <1>2, <1>3 DEF IsFilling
<1>4. CASE m # 0
  <2>1. m - 1 \in Nat /\ m - 1 \notin Lacking
    BY <1>1, <1>2, <1>4
  <2>2. PICK f : IsFilling(f, ranking, inBand, cleared, book, held, m - 1)
    BY <2>1
  <2>3. PICK x : x = Tried(f[m - 1], m, ranking[m], inBand, cleared, book, held)
    OBVIOUS
  <2>4. PICK g : g = [k \in 0..m |-> IF k = m THEN x ELSE f[k]]
    OBVIOUS
  <2>5. ASSUME NEW k \in 0..m PROVE g[k] = IF k = 0 THEN ToSet(book) ELSE Tried(g[k - 1], k, ranking[k], inBand, cleared, book, held)
    <3>1. f = [j \in 0..(m - 1) |-> IF j = 0 THEN ToSet(book) ELSE Tried(f[j - 1], j, ranking[j], inBand, cleared, book, held)]
      BY <2>2 DEF IsFilling
    <3>2. k # m => k \in 0..(m - 1) /\ g[k] = f[k]
      BY <2>1, <2>4
    <3>3. k # 0 => k - 1 \in 0..(m - 1) /\ g[k - 1] = f[k - 1]
      BY <2>1, <2>4
    <3>4. g[m] = x
      BY <2>1, <2>4
    <3>5. k # m => g[k] = IF k = 0 THEN ToSet(book) ELSE Tried(f[k - 1], k, ranking[k], inBand, cleared, book, held)
      BY <3>1, <3>2, Zenon
    <3> QED BY <1>4, <2>3, <3>3, <3>4, <3>5, Zenon
  <2>6. g = [k \in 0..m |-> IF k = 0 THEN ToSet(book) ELSE Tried(g[k - 1], k, ranking[k], inBand, cleared, book, held)]
    BY <2>4, <2>5
  <2> QED BY <2>6, <1>2 DEF IsFilling
<1> QED BY <1>3, <1>4

LEMMA BackfillStaysWithin ==
  ASSUME NEW ranking, NEW n, Listing(ranking, n), NEW inBand, NEW cleared, NEW m, Listing(cleared, m), NEW held,
         \A c \in Clusters : Cardinality(c \cap ToSet(cleared)) <= MaxMembers,
         NEW book, BookOf(book, cleared, m, held)
  PROVE  Within(Backfill(ranking, inBand, cleared, book, held), cleared, book, held)
<1> DEFINE P(f) == f = [k \in 0..Len(ranking) |->
                          IF k = 0 THEN ToSet(book)
                          ELSE IF \/ Cardinality(f[k - 1]) >= MaxPositions \/ ranking[k] \in ToSet(inBand)
                                  \/ ranking[k] \in held \/ k > HoldRank
                                  \/ (ranking[k] \in UNION Clusters
                                      /\ Cardinality({x \in ToSet(cleared) \cup (f[k - 1] \ ToSet(book)) :
                                                        x \in Mates(ranking[k])}) >= MaxMembers)
                                  \/ Cardinality(f[k - 1] \ held) >= MaxNewPositions
                               THEN f[k - 1] ELSE f[k - 1] \cup {ranking[k]}]
<1>1. n \in Nat /\ Len(ranking) = n
  BY DEF Listing
<1>2. IsFiniteSet(ToSet(cleared)) /\ ToSet(book) \subseteq ToSet(cleared)
  <2>1. DOMAIN cleared = 1..m /\ m \in Nat
    BY DEF Listing
  <2> QED BY <2>1, ListIsSmall DEF BookOf
<1>3. Within(ToSet(book), cleared, book, held)
  <2>1. ToSet(cleared) \cup ToSet(book) = ToSet(cleared)
    BY <1>2
  <2>2. \A c \in Clusters : Cardinality(c \cap (ToSet(cleared) \cup ToSet(book))) <= MaxMembers
    BY <2>1
  <2> QED BY <2>2 DEF Within, BookOf
<1>4. CASE cleared = inBand
  <2>1. Backfill(ranking, inBand, cleared, book, held) = ToSet(book)
    BY <1>4, Zenon DEF Backfill
  <2> QED BY <1>3, <2>1
<1>5. ASSUME cleared # inBand PROVE Within(Backfill(ranking, inBand, cleared, book, held), cleared, book, held)
  <2>1. \E f : P(f)
    <3>1. PICK f : IsFilling(f, ranking, inBand, cleared, book, held, Len(ranking))
      BY <1>1, FillingsExist
    <3>2. P(f)
      BY <3>1 DEF IsFilling, Tried
    <3> HIDE DEF P
    <3> QED BY <3>2
  <2>2. Backfill(ranking, inBand, cleared, book, held) = (CHOOSE f : P(f))[Len(ranking)]
    BY <1>5, ZenonT(40) DEF Backfill
  <2>3. P(CHOOSE f : P(f))
    <3> HIDE DEF P
    <3> QED BY <2>1
  <2>4. PICK f : P(f) /\ Backfill(ranking, inBand, cleared, book, held) = f[Len(ranking)]
    <3> HIDE DEF P
    <3>1. PICK f : f = CHOOSE g : P(g)
      OBVIOUS
    <3>2. P(f) /\ Backfill(ranking, inBand, cleared, book, held) = f[Len(ranking)]
      BY <2>2, <2>3, <3>1, Zenon
    <3> QED BY <3>2, Zenon
  <2>5. /\ IsFilling(f, ranking, inBand, cleared, book, held, n)
        /\ Backfill(ranking, inBand, cleared, book, held) = f[n]
    <3>1. IsFilling(f, ranking, inBand, cleared, book, held, Len(ranking))
      BY <2>4 DEF IsFilling, Tried
    <3> HIDE DEF P
    <3> QED BY <1>1, <2>4, <3>1
  <2> HIDE DEF P
  <2>6. \A k \in 0..n : f[k] = IF k = 0 THEN ToSet(book)
                               ELSE Tried(f[k - 1], k, ranking[k], inBand, cleared, book, held)
    BY <2>5, Zenon DEF IsFilling
  <2> DEFINE Lacking == {k \in Nat : k \in 0..n /\ ~Within(f[k], cleared, book, held)}
  <2>7. Lacking = {}
    <3> SUFFICES ASSUME Lacking # {} PROVE FALSE
      OBVIOUS
    <3>1. PICK k \in Lacking : \A j \in Lacking : k <= j
      <4>1. Lacking \in SUBSET Nat
        OBVIOUS
      <4> HIDE DEF Lacking
      <4> QED BY <4>1, LeastNat
    <3>2. k \in Nat /\ k \in 0..n /\ ~Within(f[k], cleared, book, held)
      BY <3>1
    <3>3. k # 0
      <4>1. 0 \in 0..n
        BY <1>1
      <4>2. f[0] = ToSet(book)
        BY <2>6, <4>1, Zenon
      <4> HIDE DEF Lacking
      <4> QED BY <1>3, <3>2, <4>2
    <3>4. k - 1 \in Nat /\ k - 1 \in 0..n /\ k - 1 \notin Lacking
      <4>1. k - 1 \in Nat /\ k - 1 \in 0..n /\ ~(k <= k - 1)
        BY <1>1, <3>2, <3>3
      <4> HIDE DEF Lacking
      <4> QED BY <3>1, <4>1
    <3>5. Within(f[k - 1], cleared, book, held)
      BY <3>4
    <3>6. f[k] = Tried(f[k - 1], k, ranking[k], inBand, cleared, book, held)
      BY <2>6, <3>2, <3>3, Zenon
    <3> HIDE DEF Lacking
    <3>7. PICK s, e : s = f[k - 1] /\ e = ranking[k]
      OBVIOUS
    <3>8. Within(Tried(s, k, e, inBand, cleared, book, held), cleared, book, held)
      BY <1>2, <3>5, <3>7, TryKeeps
    <3> QED BY <3>2, <3>6, <3>7, <3>8
  <2>8. n \in 0..n /\ n \notin Lacking
    <3> HIDE DEF Lacking
    <3> QED BY <1>1, <2>7
  <2> QED BY <1>1, <2>4, <2>8
<1> QED BY <1>4, <1>5

-----------------------------------------------------------------------------
(* The candidates of a decision keep the rules.                            *)

Ruled(c) ==
  /\ Len(c.selected) <= MaxPositions /\ Cardinality(c.entries) <= MaxNewPositions
  /\ \A cl \in Clusters : Cardinality(cl \cap ToSet(c.selected)) <= MaxMembers
  /\ \A x \in c.exits \cap ToSet(c.ranking) :
       \/ RankOf(c.ranking, x) > HoldRank \/ x \in c.clusterFull
       \/ Cardinality(IncumbentsAbove(c, x)) >= MaxPositions

(* The rank of a listed name is its place.                                 *)
LEMMA RankIsPlace ==
  ASSUME NEW s, NEW n, Listing(s, n), NEW k \in 1..n
  PROVE  RankOf(s, s[k]) = k
<1>1. DOMAIN s = 1..n /\ \A i, j \in 1..n : s[i] = s[j] => i = j
  BY DEF Listing
<1>2. PICK x : x = s[k]
  OBVIOUS
<1>3. \E j \in DOMAIN s : s[j] = x
  BY <1>1, <1>2
<1>4. RankOf(s, x) \in DOMAIN s /\ s[RankOf(s, x)] = x
  BY <1>3, Zenon DEF RankOf
<1> QED BY <1>1, <1>2, <1>4

(* What a selection chooses of a ranking.                                  *)
ChosenBy(c, ranking, n, sel, held, full) ==
  /\ c.ranking = ranking /\ c.exits = held \ sel /\ c.entries = sel \ held /\ c.clusterFull = full
  /\ c.selected = Keeping(ranking, {k \in DOMAIN ranking : ranking[k] \in sel})

LEMMA SelectedAreChosen ==
  ASSUME NEW c, NEW ranking, NEW n, Listing(ranking, n), NEW sel, NEW held, NEW full,
         ChosenBy(c, ranking, n, sel, held, full), IsFiniteSet(sel)
  PROVE  /\ IsFiniteSet(ToSet(c.selected)) /\ Len(c.selected) <= Cardinality(sel)
         /\ \A x : x \in ToSet(c.selected) <=> x \in sel /\ \E k \in 1..n : ranking[k] = x
<1>1. n \in Nat /\ DOMAIN ranking = 1..n /\ \A i, j \in 1..n : ranking[i] = ranking[j] => i = j
  BY DEF Listing
<1>2. PICK I : I = {k \in DOMAIN ranking : ranking[k] \in sel}
  OBVIOUS
<1>3. I \in SUBSET (1..n)
  BY <1>1, <1>2
<1>4. PICK s, m : s = Keeping(ranking, I) /\ m = Cardinality(I)
  OBVIOUS
<1>5. c.selected = s
  BY <1>2, <1>4 DEF ChosenBy
<1>6. Thinned(s, m, ranking, n, I)
  BY <1>3, <1>4, KeepingThins
<1>7. m \in Nat /\ DOMAIN s = 1..m /\ Len(s) = m
  BY <1>6 DEF Thinned, Listing
<1>8. IsFiniteSet(ToSet(s))
  BY <1>7, ListIsSmall
<1>9. m <= Cardinality(sel)
  <2>1. PICK g : g = [k \in I |-> ranking[k]]
    OBVIOUS
  <2>2. g \in [I -> sel]
    BY <1>2, <2>1
  <2>3. \A i, j \in I : g[i] = g[j] => i = j
    <3> SUFFICES ASSUME NEW i \in I, NEW j \in I, g[i] = g[j] PROVE i = j
      OBVIOUS
    <3>1. i \in 1..n /\ j \in 1..n /\ ranking[i] = ranking[j]
      BY <1>3, <2>1
    <3> QED BY <1>1, <3>1
  <2>4. g \in Injection(I, sel)
    BY <2>2, <2>3 DEF Injection, IsInjective
  <2> QED BY <1>4, <2>4, FS_Injection
<1>10. ASSUME NEW x PROVE x \in ToSet(s) <=> x \in sel /\ \E k \in 1..n : ranking[k] = x
  <2>1. ASSUME x \in ToSet(s) PROVE x \in sel /\ \E k \in 1..n : ranking[k] = x
    <3>1. PICK j \in 1..m : s[j] = x
      BY <1>7, <2>1 DEF ToSet
    <3>2. PICK i \in I : s[j] = ranking[i]
      BY <1>6 DEF Thinned
    <3> QED BY <1>2, <1>3, <3>1, <3>2
  <2>2. ASSUME NEW k \in 1..n, x \in sel, ranking[k] = x PROVE x \in ToSet(s)
    <3>1. k \in I
      BY <1>1, <1>2, <2>2
    <3>2. PICK j \in 1..m : s[j] = ranking[k]
      BY <1>6, <3>1 DEF Thinned
    <3> QED BY <1>7, <2>2, <3>2 DEF ToSet
  <2> QED BY <2>1, <2>2
<1> QED BY <1>5, <1>7, <1>8, <1>9, <1>10

(* The band of a ranking.                                                  *)
BandOf(inBand, m, ranking, n, held) ==
  Thinned(inBand, m, ranking, n, {k \in 1..n : k <= IF ranking[k] \in held THEN HoldRank ELSE EntryRank})

(* An incumbent that ranks within the hold band and is left out has a book *)
(* of incumbents above it, or its cluster was full.                        *)
LEMMA IncumbentsKeepTheirSlots ==
  ASSUME NEW c, NEW ranking, NEW n, Listing(ranking, n), NEW sel, NEW held, IsFiniteSet(sel),
         NEW inBand, NEW m, NEW cleared, NEW l, NEW J \in SUBSET (1..m),
         BandOf(inBand, m, ranking, n, held), Thinned(cleared, l, inBand, m, J),
         NEW book, BookOf(book, cleared, l, held), ToSet(book) \subseteq sel,
         ChosenBy(c, ranking, n, sel, held, ToSet(inBand) \ ToSet(cleared)),
         NEW k \in 1..n, ranking[k] \in held \ sel, ranking[k] \notin c.clusterFull, k <= HoldRank
  PROVE  Cardinality(IncumbentsAbove(c, ranking[k])) >= MaxPositions
<1>1. PICK I : I = {i \in 1..n : i <= IF ranking[i] \in held THEN HoldRank ELSE EntryRank}
  OBVIOUS
<1>2. I \in SUBSET (1..n) /\ k \in I
  BY <1>1
<1>3. Thinned(inBand, m, ranking, n, I)
  BY <1>1, Zenon DEF BandOf
<1>4. /\ DOMAIN inBand = 1..m /\ DOMAIN cleared = 1..l /\ DOMAIN ranking = 1..n
      /\ \A i, j \in 1..n : ranking[i] = ranking[j] => i = j
  BY <1>3 DEF Thinned, Listing
<1>5. PICK x : x = ranking[k]
  OBVIOUS
<1>6. PICK a \in 1..m : inBand[a] = x
  BY <1>2, <1>3, <1>5 DEF Thinned
<1>7. x \in ToSet(inBand)
  BY <1>4, <1>6 DEF ToSet
<1>8. x \in ToSet(cleared) /\ c.entries = sel \ held /\ c.ranking = ranking
  BY <1>5, <1>7 DEF ChosenBy
<1>9. PICK p \in 1..l : cleared[p] = x
  BY <1>4, <1>8 DEF ToSet
<1>10. cleared[p] \in held /\ cleared[p] \notin ToSet(book)
  BY <1>5, <1>9
<1>11. PICK W : /\ IsFiniteSet(W) /\ Cardinality(W) = MaxPositions
                /\ \A y \in W : y \in ToSet(book) /\ y \in held /\ \E q \in 1..l : q < p /\ cleared[q] = y
  BY <1>10 DEF BookOf
<1>12. PICK T : T = {i \in I : \E j \in J : inBand[j] = ranking[i]}
  OBVIOUS
<1>13. Thinned(cleared, l, ranking, n, T)
  BY <1>2, <1>3, <1>12, ThinnedTwice
<1>14. T \in SUBSET (1..n)
  BY <1>2, <1>12
<1>15. \A x1, y \in 1..l : \A z, w \in 1..n : cleared[x1] = ranking[z] /\ cleared[y] = ranking[w] /\ x1 < y => z < w
  BY <1>13, Zenon DEF Thinned
<1>16. ASSUME NEW y \in W PROVE y \in IncumbentsAbove(c, x)
  <2>1. y \in ToSet(book) /\ y \in held
    BY <1>11
  <2>2. PICK q \in 1..l : q < p /\ cleared[q] = y
    BY <1>11
  <2>3. PICK j \in T : cleared[q] = ranking[j]
    BY <1>13 DEF Thinned
  <2>4. j \in 1..n
    BY <1>14
  <2>5. j < k
    BY <1>5, <1>9, <1>15, <2>2, <2>3, <2>4
  <2>6. y = ranking[j]
    BY <2>2, <2>3
  <2>7. RankOf(ranking, y) = j /\ RankOf(ranking, x) = k
    BY <1>5, <2>4, <2>6, RankIsPlace
  <2>8. y \in sel /\ y \notin sel \ held
    BY <2>1
  <2>9. y \in ToSet(c.selected)
    BY <2>4, <2>6, <2>8, SelectedAreChosen
  <2> QED BY <1>8, <2>5, <2>7, <2>8, <2>9 DEF IncumbentsAbove
<1>17. IsFiniteSet(IncumbentsAbove(c, x))
  <2>1. IsFiniteSet(ToSet(c.selected))
    BY SelectedAreChosen
  <2>2. IncumbentsAbove(c, x) \in SUBSET ToSet(c.selected)
    BY DEF IncumbentsAbove
  <2> QED BY <2>1, <2>2, FS_Subset
<1>18. PICK A : A = IncumbentsAbove(c, x)
  OBVIOUS
<1>19. Cardinality(W) <= Cardinality(A)
  <2>1. W \in SUBSET A
    BY <1>16, <1>18
  <2> QED BY <1>17, <1>18, <2>1, FS_Subset
<1>20. Cardinality(A) \in Nat
  BY <1>17, <1>18, FS_CardinalityType
<1>21. MaxPositions \in Nat
  BY RanksAssumption
<1>22. Cardinality(A) >= MaxPositions
  BY <1>11, <1>19, <1>20, <1>21
<1> QED BY <1>5, <1>18, <1>22

LEMMA CandidatesAreRuled ==
  ASSUME NEW features, NEW cashMom, NEW held, NEW restricted
  PROVE  Ruled(SelectCandidates(features, cashMom, held, restricted))
<1>1. PICK ranking : ranking = Ranking(features, cashMom, restricted)
  OBVIOUS
<1>2. PICK n : Listing(ranking, n)
  BY <1>1, RankingLists
<1>3. PICK I : I = {k \in DOMAIN ranking : k <= IF ranking[k] \in held THEN HoldRank ELSE EntryRank}
  OBVIOUS
<1>4. /\ n \in Nat /\ DOMAIN ranking = 1..n /\ I \in SUBSET (1..n)
      /\ I = {k \in 1..n : k <= IF ranking[k] \in held THEN HoldRank ELSE EntryRank}
  <2>1. n \in Nat /\ DOMAIN ranking = 1..n
    BY <1>2 DEF Listing
  <2> QED BY <1>3, <2>1
<1>5. PICK inBand, m : inBand = Keeping(ranking, I) /\ m = Cardinality(I)
  OBVIOUS
<1>6. InBand(ranking, held) = inBand
  BY <1>3, <1>5, Zenon DEF InBand
<1>7. Thinned(inBand, m, ranking, n, I)
  BY <1>2, <1>4, <1>5, KeepingThins
<1>8. Listing(inBand, m)
  BY <1>7 DEF Thinned
<1>9. PICK cleared : cleared = ClusterCleared(inBand)
  OBVIOUS
<1>10. PICK l, J : /\ J \in SUBSET (1..m) /\ Thinned(cleared, l, inBand, m, J)
                   /\ \A c \in Clusters : Cardinality(c \cap ToSet(cleared)) <= MaxMembers
  BY <1>8, <1>9, ClearedKeepsCaps
<1>11. Listing(cleared, l)
  BY <1>10 DEF Thinned
<1>12. PICK book : book = FillBook(cleared, held)
  OBVIOUS
<1>13. BookOf(book, cleared, l, held)
  BY <1>11, <1>12, BookFilled
<1>14. PICK sel : sel = Backfill(ranking, inBand, cleared, book, held)
  OBVIOUS
<1>15. Within(sel, cleared, book, held)
  BY <1>2, <1>10, <1>11, <1>13, <1>14, BackfillStaysWithin
<1>16. PICK c : c = SelectCandidates(features, cashMom, held, restricted)
  OBVIOUS
<1>17. ChosenBy(c, ranking, n, sel, held, ToSet(inBand) \ ToSet(cleared))
  <2>1. c = [selected |-> Keeping(ranking, {k \in DOMAIN ranking : ranking[k] \in sel}),
             exits |-> held \ sel, entries |-> sel \ held,
             ranking |-> ranking, clusterFull |-> ToSet(inBand) \ ToSet(cleared)]
    BY <1>1, <1>6, <1>9, <1>12, <1>14, <1>16, Zenon DEF SelectCandidates
  <2> QED BY <2>1 DEF ChosenBy
<1>18. /\ IsFiniteSet(sel) /\ ToSet(book) \subseteq sel /\ c.entries = sel \ held /\ c.exits = held \ sel /\ c.ranking = ranking
       /\ Cardinality(sel) <= MaxPositions /\ Cardinality(sel \ held) <= MaxNewPositions
       /\ \A cl \in Clusters : Cardinality(cl \cap (ToSet(cleared) \cup sel)) <= MaxMembers
  BY <1>15, <1>17 DEF Within, ChosenBy
<1>19. MaxPositions \in Nat /\ MaxMembers \in Nat /\ Cardinality(sel) \in Nat
  BY <1>18, RanksAssumption, FS_CardinalityType
<1>20. /\ IsFiniteSet(ToSet(c.selected)) /\ Len(c.selected) <= Cardinality(sel)
       /\ \A x : x \in ToSet(c.selected) <=> x \in sel /\ \E k \in 1..n : ranking[k] = x
  BY <1>2, <1>17, <1>18, SelectedAreChosen
<1>21. Len(c.selected) <= MaxPositions
  <2>1. Len(c.selected) \in Nat
    <3>1. PICK K, s : K = {k \in DOMAIN ranking : ranking[k] \in sel} /\ s = Keeping(ranking, K)
      OBVIOUS
    <3>2. K \in SUBSET (1..n)
      BY <1>4, <3>1
    <3>3. Len(s) \in Nat
      BY <1>2, <3>1, <3>2, KeepingThins DEF Thinned, Listing
    <3> QED BY <1>17, <3>1, <3>3 DEF ChosenBy
  <2> QED BY <1>18, <1>19, <1>20, <2>1
<1>22. ASSUME NEW cl \in Clusters PROVE Cardinality(cl \cap ToSet(c.selected)) <= MaxMembers
  <2>1. PICK X, Y : X = cl \cap ToSet(c.selected) /\ Y = cl \cap (ToSet(cleared) \cup sel)
    OBVIOUS
  <2>2. X \in SUBSET Y
    BY <1>20, <2>1
  <2>3. IsFiniteSet(Y)
    <3>1. DOMAIN cleared = 1..l /\ l \in Nat
      BY <1>11 DEF Listing
    <3>2. IsFiniteSet(ToSet(cleared))
      BY <3>1, ListIsSmall
    <3>3. IsFiniteSet(ToSet(cleared) \cup sel)
      BY <1>18, <3>2, FS_Union
    <3>4. Y \in SUBSET (ToSet(cleared) \cup sel)
      BY <2>1
    <3> QED BY <3>3, <3>4, FS_Subset
  <2>4. Cardinality(X) <= Cardinality(Y) /\ Cardinality(X) \in Nat /\ Cardinality(Y) \in Nat
    BY <2>2, <2>3, FS_Subset, FS_CardinalityType
  <2> QED BY <1>18, <1>19, <2>1, <2>4
<1>23. ASSUME NEW x \in c.exits \cap ToSet(c.ranking)
       PROVE  \/ RankOf(c.ranking, x) > HoldRank \/ x \in c.clusterFull
              \/ Cardinality(IncumbentsAbove(c, x)) >= MaxPositions
  <2>1. x \in held \ sel /\ x \in ToSet(ranking)
    BY <1>18
  <2>2. PICK k \in 1..n : ranking[k] = x
    BY <1>4, <2>1 DEF ToSet
  <2>3. RankOf(c.ranking, x) = k
    BY <1>2, <1>18, <2>2, RankIsPlace
  <2>4. HoldRank \in Nat /\ k \in Nat
    BY RanksAssumption
  <2>5. CASE k <= HoldRank /\ x \notin c.clusterFull
    <3>1. BandOf(inBand, m, ranking, n, held)
      BY <1>4, <1>7, Zenon DEF BandOf
    <3>2. ranking[k] \in held \ sel /\ ranking[k] \notin c.clusterFull /\ k <= HoldRank
      BY <2>1, <2>2, <2>5
    <3>3. J \in SUBSET (1..m) /\ Thinned(cleared, l, inBand, m, J) /\ IsFiniteSet(sel) /\ ToSet(book) \subseteq sel
      BY <1>10, <1>18
    <3>4. Cardinality(IncumbentsAbove(c, ranking[k])) >= MaxPositions
      BY <1>2, <1>13, <1>17, <3>1, <3>2, <3>3, IncumbentsKeepTheirSlots
    <3> QED BY <2>2, <3>4
  <2> QED BY <2>3, <2>4, <2>5
<1>24. Ruled(c)
  BY <1>18, <1>21, <1>22, <1>23 DEF Ruled
<1> QED BY <1>16, <1>24

-----------------------------------------------------------------------------
(* The fill simulator, bar by bar.                                         *)

WorkOn(side, acc, bar) == IF acc.left = 0 THEN acc ELSE WorkBar(side, acc, bar, bar.open)

BegunWith(qty) == [left |-> qty, fills |-> <<>>, skipped |-> <<>>]

(* What the bar of the decision gives an order without a delay.            *)
AtClose(side, qty, bar, delay) ==
  IF delay = 0 THEN WorkBar(side, BegunWith(qty), bar, bar.close) ELSE BegunWith(qty)

StartOf(d, delay) == d + IF delay = 0 THEN 1 ELSE delay

(* The work of an order before the bars that follow, and its fills.        *)
Working(acc) == "left" \in DOMAIN acc /\ "fills" \in DOMAIN acc /\ "skipped" \in DOMAIN acc /\ IsLog(acc.fills)

(* The work of n bars.                                                     *)
IsWorked(f, side, first, window, n) ==
  f = [k \in 0..n |-> IF k = 0 THEN first ELSE WorkOn(side, f[k - 1], window[k])]

LEMMA WorksExist ==
  ASSUME NEW side, NEW first, NEW window, NEW n \in Nat
  PROVE  \E f : IsWorked(f, side, first, window, n)
<1> DEFINE Lacking == {m \in Nat : ~\E f : IsWorked(f, side, first, window, m)}
<1> SUFFICES ASSUME Lacking # {} PROVE FALSE
  OBVIOUS
<1>1. PICK m \in Lacking : \A x \in Lacking : m <= x
  <2>1. Lacking \in SUBSET Nat
    OBVIOUS
  <2> HIDE DEF Lacking
  <2> QED BY <2>1, LeastNat
<1>2. m \in Nat /\ ~\E f : IsWorked(f, side, first, window, m)
  OBVIOUS
<1>3. CASE m = 0
  <2>1. PICK f : f = [k \in 0..0 |-> first]
    OBVIOUS
  <2>2. f = [k \in 0..0 |-> IF k = 0 THEN first ELSE WorkOn(side, f[k - 1], window[k])]
    BY <2>1
  <2> QED BY <2>2, <1>2, <1>3 DEF IsWorked
<1>4. CASE m # 0
  <2>1. m - 1 \in Nat /\ m - 1 \notin Lacking
    BY <1>1, <1>2, <1>4
  <2>2. PICK f : IsWorked(f, side, first, window, m - 1)
    BY <2>1
  <2>3. PICK x : x = WorkOn(side, f[m - 1], window[m])
    OBVIOUS
  <2>4. PICK g : g = [k \in 0..m |-> IF k = m THEN x ELSE f[k]]
    OBVIOUS
  <2>5. ASSUME NEW k \in 0..m PROVE g[k] = IF k = 0 THEN first ELSE WorkOn(side, g[k - 1], window[k])
    <3>1. f = [j \in 0..(m - 1) |-> IF j = 0 THEN first ELSE WorkOn(side, f[j - 1], window[j])]
      BY <2>2 DEF IsWorked
    <3>2. k # m => k \in 0..(m - 1) /\ g[k] = f[k]
      BY <2>1, <2>4
    <3>3. k # 0 => k - 1 \in 0..(m - 1) /\ g[k - 1] = f[k - 1]
      BY <2>1, <2>4
    <3>4. g[m] = x
      BY <2>1, <2>4
    <3>5. k # m => g[k] = IF k = 0 THEN first ELSE WorkOn(side, f[k - 1], window[k])
      BY <3>1, <3>2, Zenon
    <3> QED BY <1>4, <2>3, <3>3, <3>4, <3>5, Zenon
  <2>6. g = [k \in 0..m |-> IF k = 0 THEN first ELSE WorkOn(side, g[k - 1], window[k])]
    BY <2>4, <2>5
  <2> QED BY <2>6, <1>2 DEF IsWorked
<1> QED BY <1>3, <1>4

LEMMA WorkIsDone ==
  ASSUME NEW side, NEW first, NEW window, NEW m \in Nat, Len(window) = m
  PROVE  \E f : IsWorked(f, side, first, window, m) /\ WorkThrough(side, first, window) = f[m]
<1> DEFINE P(f) == f = [k \in 0..m |-> IF k = 0 THEN first
                                       ELSE IF f[k - 1].left = 0 THEN f[k - 1]
                                       ELSE WorkBar(side, f[k - 1], window[k], window[k].open)]
<1>1. \E f : P(f)
  <2>1. PICK f : IsWorked(f, side, first, window, m)
    BY WorksExist
  <2>2. P(f)
    BY <2>1 DEF IsWorked, WorkOn
  <2> HIDE DEF P
  <2> QED BY <2>2
<1>2. WorkThrough(side, first, window) = (CHOOSE f : P(f))[m]
  BY Zenon DEF WorkThrough
<1>3. P(CHOOSE f : P(f))
  <2> HIDE DEF P
  <2> QED BY <1>1
<1>4. PICK f : P(f) /\ WorkThrough(side, first, window) = f[m]
  <2> HIDE DEF P
  <2> QED BY <1>2, <1>3
<1>5. IsWorked(f, side, first, window, m)
  BY <1>4 DEF IsWorked, WorkOn
<1> QED BY <1>4, <1>5

(* What a bar of work adds: a fill of its session, or none.                *)
Adds(next, acc, bar) ==
  /\ Working(next)
  /\ next.fills = acc.fills \/ \E f : next.fills = Append(acc.fills, f) /\ f.session = bar.session

AddsWhatTrades(next, acc, bar) ==
  /\ Adds(next, acc, bar)
  /\ ~bar.tradable => next.fills = acc.fills /\ next.left = acc.left
  /\ bar.tradable /\ Least(acc.left, ParticipationCap(bar.volume)) # 0 => next.fills # acc.fills

LEMMA WorkBarKeeps ==
  ASSUME NEW side, NEW acc, Working(acc), NEW bar, NEW ref
  PROVE  AddsWhatTrades(WorkBar(side, acc, bar, ref), acc, bar)
<1> DEFINE next == WorkBar(side, acc, bar, ref)
           qty == Least(acc.left, ParticipationCap(bar.volume))
<1>1. CASE ~bar.tradable
  <2>1. next = [acc EXCEPT !.skipped = Append(@, bar.session)]
    BY <1>1 DEF WorkBar
  <2>2. Working(next) /\ next.fills = acc.fills /\ next.left = acc.left
    BY <2>1 DEF Working
  <2> HIDE DEF next, qty
  <2>3. AddsWhatTrades(next, acc, bar)
    BY <1>1, <2>2 DEF AddsWhatTrades, Adds
  <2> QED BY <2>3 DEF next
<1>2. CASE bar.tradable /\ qty = 0
  <2>1. next = acc
    BY <1>2 DEF WorkBar
  <2>2. AddsWhatTrades(acc, acc, bar)
    BY <1>2 DEF AddsWhatTrades, Adds
  <2> QED BY <2>1, <2>2 DEF next
<1>3. CASE bar.tradable /\ qty # 0
  <2>1. PICK f : f = MakeFill(side, bar.session, qty, ref)
    OBVIOUS
  <2>2. f.session = bar.session
    BY <2>1 DEF MakeFill
  <2>3. next = [acc EXCEPT !.left = @ - qty, !.fills = Append(@, f)]
    BY <1>3, <2>1 DEF WorkBar
  <2>4. /\ next.fills = Append(acc.fills, f)
        /\ "left" \in DOMAIN next /\ "fills" \in DOMAIN next /\ "skipped" \in DOMAIN next
    <3> HIDE DEF next, qty
    <3> QED BY <2>3 DEF Working
  <2>5. IsLog(Append(acc.fills, f)) /\ Append(acc.fills, f) # acc.fills
    <3>1. IsLog(acc.fills)
      BY DEF Working
    <3>2. IsLog(Append(acc.fills, f)) /\ Len(Append(acc.fills, f)) = Len(acc.fills) + 1 /\ Len(acc.fills) \in Nat
      BY <3>1, AppendedLog, LogPlaces
    <3> QED BY <3>2
  <2> HIDE DEF next, qty
  <2>6. Working(next)
    BY <2>4, <2>5 DEF Working
  <2>7. AddsWhatTrades(next, acc, bar)
    BY <1>3, <2>2, <2>4, <2>5, <2>6 DEF AddsWhatTrades, Adds
  <2> QED BY <2>7 DEF next
<1> QED BY <1>1, <1>2, <1>3

LEMMA WorkOnKeeps ==
  ASSUME NEW side, NEW acc, Working(acc), NEW bar
  PROVE  Adds(WorkOn(side, acc, bar), acc, bar)
<1>1. Adds(WorkBar(side, acc, bar, bar.open), acc, bar)
  BY WorkBarKeeps DEF AddsWhatTrades
<1>2. Adds(acc, acc, bar)
  BY DEF Adds
<1> QED BY <1>1, <1>2 DEF WorkOn

LEMMA AtCloseWorks ==
  ASSUME NEW side, NEW qty, NEW bar, NEW delay
  PROVE  Working(AtClose(side, qty, bar, delay))
<1>1. Working(BegunWith(qty))
  <2>1. IsLog(<<>>)
    BY DEF IsLog
  <2> QED BY <2>1 DEF Working, BegunWith
<1>2. Working(WorkBar(side, BegunWith(qty), bar, bar.close))
  BY <1>1, WorkBarKeeps DEF AddsWhatTrades, Adds
<1> QED BY <1>1, <1>2 DEF AtClose

(* The bars an order is worked over after its decision.                    *)
WindowOf(window, m, bars, n, start) ==
  m \in Nat /\ Len(window) = m /\ \A k \in 1..m : start + k - 1 \in 1..n /\ window[k] = bars[start + k - 1]

LEMMA WindowsAreBars ==
  ASSUME NEW bars, NEW n \in Nat, InOrderOfDays(bars, n), NEW start \in Nat \ {0}, NEW maxBars \in Nat
  PROVE  \E m : WindowOf(SubSeq(bars, start, Least(Len(bars), start + maxBars - 1)), m, bars, n, start)
<1>1. bars = [i \in 1..n |-> bars[i]]
  BY DEF InOrderOfDays, DatedList
<1>2. IsLog(bars) /\ Len(bars) = n
  BY <1>1, PlacesCount
<1>3. PICK S : bars \in Seq(S)
  BY <1>2 DEF IsLog
<1>4. PICK end : end = Least(Len(bars), start + maxBars - 1)
  OBVIOUS
<1>5. end \in Int /\ end <= n
  BY <1>2, <1>4 DEF Least
<1>6. PICK window : window = SubSeq(bars, start, end)
  OBVIOUS
<1>7. CASE start <= end
  <2>1. window \in Seq(S) /\ Len(window) = end - start + 1 /\ \A k \in 1..(end - start + 1) : window[k] = bars[start + k - 1]
    BY <1>2, <1>3, <1>5, <1>6, <1>7
  <2>2. end - start + 1 \in Nat /\ \A k \in 1..(end - start + 1) : start + k - 1 \in 1..n
    BY <1>5, <1>7
  <2>3. WindowOf(window, end - start + 1, bars, n, start)
    BY <2>1, <2>2 DEF WindowOf
  <2> QED BY <1>4, <1>6, <2>3
<1>8. CASE end < start
  <2>1. Len(window) = 0
    <3>1. start - 1 >= end
      BY <1>5, <1>8
    <3> QED BY <1>2, <1>3, <1>5, <1>6, <1>8, <3>1
  <2>2. WindowOf(window, 0, bars, n, start)
    BY <2>1 DEF WindowOf
  <2> QED BY <1>4, <1>6, <2>2
<1> QED BY <1>5, <1>7, <1>8

(* The simulator's work from the bar d of the decision's session.          *)
Simulated(acc, side, qty, bars, n, d, delay, window, m, f) ==
  /\ WindowOf(window, m, bars, n, StartOf(d, delay))
  /\ IsWorked(f, side, AtClose(side, qty, bars[d], delay), window, m)
  /\ acc = f[m]

LEMMA SimulationWorks ==
  ASSUME NEW side, NEW qty, NEW bars, NEW n \in Nat, InOrderOfDays(bars, n), NEW d \in 1..n,
         NEW delay \in Nat, NEW maxBars \in Nat
  PROVE  \E window, m, f :
           Simulated(SimulateFill([side |-> side, qty |-> qty], bars, bars[d].session, delay, maxBars),
                     side, qty, bars, n, d, delay, window, m, f)
<1>1. DOMAIN bars = 1..n /\ \A i, j \in 1..n : i < j => bars[i].session < bars[j].session
  BY DEF InOrderOfDays, DatedList
<1>2. PICK session : session = bars[d].session
  OBVIOUS
<1>3. (CHOOSE i \in DOMAIN bars : bars[i].session = session) = d
  <2>1. \A i \in 1..n : bars[i].session \in Int
    BY DEF InOrderOfDays, DatedList
  <2>2. \A i \in 1..n : bars[i].session = session => i = d
    <3> SUFFICES ASSUME NEW i \in 1..n, bars[i].session = session PROVE i = d
      OBVIOUS
    <3>1. ~(i < d) /\ ~(d < i)
      BY <1>1, <1>2, <2>1
    <3> QED BY <3>1
  <2>3. \E i \in DOMAIN bars : bars[i].session = session
    BY <1>1, <1>2
  <2>4. PICK x : x = CHOOSE i \in DOMAIN bars : bars[i].session = session
    OBVIOUS
  <2>5. x \in DOMAIN bars /\ bars[x].session = session
    BY <2>3, <2>4, Zenon
  <2> QED BY <1>1, <2>2, <2>4, <2>5
<1>4. PICK start, first : start = StartOf(d, delay) /\ first = AtClose(side, qty, bars[d], delay)
  OBVIOUS
<1>5. start \in Nat \ {0}
  BY <1>4 DEF StartOf
<1>6. PICK window : window = SubSeq(bars, start, Least(Len(bars), start + maxBars - 1))
  OBVIOUS
<1>7. PICK m : WindowOf(window, m, bars, n, start)
  BY <1>5, <1>6, WindowsAreBars
<1>8. m \in Nat /\ Len(window) = m
  BY <1>7 DEF WindowOf
<1>9. PICK intent : intent = [side |-> side, qty |-> qty]
  OBVIOUS
<1>10. intent.side = side /\ intent.qty = qty
  BY <1>9
<1>11. SimulateFill(intent, bars, session, delay, maxBars) = WorkThrough(side, first, window)
  <2>1. PICK begun : begun = [left |-> intent.qty, fills |-> <<>>, skipped |-> <<>>]
    OBVIOUS
  <2>2. first = IF delay = 0 THEN WorkBar(intent.side, begun, bars[d], bars[d].close) ELSE begun
    BY <1>4, <1>10, <2>1 DEF AtClose, BegunWith
  <2>3. start = d + IF delay = 0 THEN 1 ELSE delay
    BY <1>4 DEF StartOf
  <2> DEFINE day == CHOOSE i \in DOMAIN bars : bars[i].session = session
             from == day + IF delay = 0 THEN 1 ELSE delay
             none == [left |-> intent.qty, fills |-> <<>>, skipped |-> <<>>]
  <2>4. SimulateFill(intent, bars, session, delay, maxBars)
          = WorkThrough(intent.side,
                        IF delay = 0 THEN WorkBar(intent.side, none, bars[day], bars[day].close) ELSE none,
                        SubSeq(bars, from, Least(Len(bars), from + maxBars - 1)))
    BY Zenon DEF SimulateFill
  <2>5. day = d /\ none = begun
    BY <1>3, <2>1
  <2> HIDE DEF day, none
  <2>6. from = start
    BY <2>3, <2>5
  <2> HIDE DEF from
  <2> QED BY <1>6, <1>10, <2>2, <2>4, <2>5, <2>6
<1>12. PICK f : IsWorked(f, side, first, window, m) /\ WorkThrough(side, first, window) = f[m]
  BY <1>8, WorkIsDone
<1>16. Simulated(f[m], side, qty, bars, n, d, delay, window, m, f)
  BY <1>4, <1>7, <1>12 DEF Simulated
<1> QED BY <1>2, <1>9, <1>11, <1>12, <1>16

(* The fills of an order are a list.                                       *)
LEMMA FillsAreListed ==
  ASSUME NEW side, NEW qty, NEW bars, NEW n \in Nat, InOrderOfDays(bars, n), NEW d \in 1..n,
         NEW delay \in Nat, NEW maxBars \in Nat
  PROVE  IsLog(SimulateFill([side |-> side, qty |-> qty], bars, bars[d].session, delay, maxBars).fills)
<1>1. PICK done : done = SimulateFill([side |-> side, qty |-> qty], bars, bars[d].session, delay, maxBars)
  OBVIOUS
<1>2. PICK window, m, f : Simulated(done, side, qty, bars, n, d, delay, window, m, f)
  BY <1>1, SimulationWorks
<1>3. PICK first : first = AtClose(side, qty, bars[d], delay)
  OBVIOUS
<1>4. m \in Nat /\ done = f[m] /\ \A k \in 0..m : f[k] = IF k = 0 THEN first ELSE WorkOn(side, f[k - 1], window[k])
  <2>1. m \in Nat /\ done = f[m] /\ IsWorked(f, side, first, window, m)
    BY <1>2, <1>3 DEF Simulated, WindowOf
  <2> QED BY <2>1, Zenon DEF IsWorked
<1>5. Working(first)
  BY <1>3, AtCloseWorks
<1> DEFINE Lacking == {k \in Nat : k \in 0..m /\ ~Working(f[k])}
<1>6. Lacking = {}
  <2> SUFFICES ASSUME Lacking # {} PROVE FALSE
    OBVIOUS
  <2>1. PICK k \in Lacking : \A j \in Lacking : k <= j
    <3>1. Lacking \in SUBSET Nat
      OBVIOUS
    <3> HIDE DEF Lacking
    <3> QED BY <3>1, LeastNat
  <2>2. k \in Nat /\ k \in 0..m /\ ~Working(f[k])
    BY <2>1
  <2>3. k # 0
    <3> HIDE DEF Lacking
    <3>1. 0 \in 0..m
      BY <1>4
    <3> QED BY <1>4, <1>5, <2>2, <3>1, Zenon
  <2>4. k - 1 \in Nat /\ k - 1 \in 0..m /\ ~(k <= k - 1)
    <3> HIDE DEF Lacking
    <3> QED BY <1>4, <2>2, <2>3
  <2>5. Working(f[k - 1])
    BY <2>1, <2>4
  <2> HIDE DEF Lacking
  <2>6. f[k] = WorkOn(side, f[k - 1], window[k])
    BY <1>4, <2>2, <2>3, Zenon
  <2>7. PICK acc, bar : acc = f[k - 1] /\ bar = window[k]
    OBVIOUS
  <2>8. Working(WorkOn(side, acc, bar))
    BY <2>5, <2>7, WorkOnKeeps DEF Adds
  <2> QED BY <2>2, <2>6, <2>7, <2>8
<1>7. Working(f[m])
  <2>1. m \in 0..m
    BY <1>4
  <2> QED BY <1>4, <1>6, <2>1
<1> QED BY <1>1, <1>4, <1>7 DEF Working

-----------------------------------------------------------------------------
(* The comparator's instant is that of the first share the simulator buys. *)

(* An order for a share before its first fill, and after it.               *)
Ready(acc) == Working(acc) /\ acc.fills = <<>> /\ acc.left = 1

Begins(acc, session) == Working(acc) /\ Len(acc.fills) >= 1 /\ acc.fills[1].session = session

LEMMA FirstFillStays ==
  ASSUME NEW side, NEW acc, NEW session, Begins(acc, session), NEW bar
  PROVE  Begins(WorkOn(side, acc, bar), session)
<1>1. PICK next : next = WorkOn(side, acc, bar)
  OBVIOUS
<1>2. Working(acc) /\ IsLog(acc.fills) /\ Len(acc.fills) >= 1 /\ acc.fills[1].session = session
  BY DEF Begins, Working
<1>3. Working(next) /\ (next.fills = acc.fills \/ \E f : next.fills = Append(acc.fills, f))
  <2>1. Adds(next, acc, bar)
    BY <1>1, <1>2, WorkOnKeeps
  <2> QED BY <2>1 DEF Adds
<1>4. CASE next.fills = acc.fills
  BY <1>1, <1>2, <1>3, <1>4 DEF Begins
<1>5. CASE \E f : next.fills = Append(acc.fills, f)
  <2>1. PICK f : next.fills = Append(acc.fills, f)
    BY <1>5
  <2>2. Len(acc.fills) \in Nat /\ DOMAIN acc.fills = 1..Len(acc.fills)
    BY <1>2, LogPlaces
  <2>3. Len(next.fills) = Len(acc.fills) + 1 /\ \A i \in DOMAIN acc.fills : next.fills[i] = acc.fills[i]
    BY <1>2, <2>1, AppendedLog
  <2>4. 1 \in DOMAIN acc.fills
    BY <1>2, <2>2
  <2> QED BY <1>1, <1>2, <1>3, <2>2, <2>3, <2>4 DEF Begins
<1> QED BY <1>3, <1>4, <1>5

(* A bar that may give a share gives the first.                            *)
LEMMA FirstShareFills ==
  ASSUME NEW side, NEW acc, Ready(acc), NEW bar, bar.tradable, ~(ParticipationCap(bar.volume) < 1), NEW ref
  PROVE  Begins(WorkBar(side, acc, bar, ref), bar.session)
<1>1. PICK next, cap : next = WorkBar(side, acc, bar, ref) /\ cap = ParticipationCap(bar.volume)
  OBVIOUS
<1>2. Working(acc) /\ acc.fills = <<>> /\ acc.left = 1
  BY DEF Ready
<1>3. Least(acc.left, cap) # 0
  <2>1. cap # 0
    BY <1>1
  <2> QED BY <1>2, <2>1 DEF Least
<1>4. /\ Working(next) /\ next.fills # acc.fills
      /\ next.fills = acc.fills \/ \E f : next.fills = Append(acc.fills, f) /\ f.session = bar.session
  <2>1. AddsWhatTrades(next, acc, bar)
    BY <1>1, <1>2, WorkBarKeeps
  <2> QED BY <1>1, <1>3, <2>1 DEF AddsWhatTrades, Adds
<1>5. PICK f : next.fills = Append(<<>>, f) /\ f.session = bar.session
  BY <1>2, <1>4
<1>6. next.fills = <<f>>
  BY <1>5
<1>7. Len(next.fills) >= 1 /\ next.fills[1] = f
  BY <1>6
<1> QED BY <1>1, <1>4, <1>5, <1>7 DEF Begins

LEMMA NothingFills ==
  ASSUME NEW side, NEW acc, Ready(acc), NEW bar, ~bar.tradable, NEW ref
  PROVE  Ready(WorkBar(side, acc, bar, ref))
<1>1. PICK next : next = WorkBar(side, acc, bar, ref)
  OBVIOUS
<1>2. Working(next) /\ next.fills = acc.fills /\ next.left = acc.left
  <2>1. Working(acc)
    BY DEF Ready
  <2>2. AddsWhatTrades(next, acc, bar)
    BY <1>1, <2>1, WorkBarKeeps
  <2> QED BY <2>2 DEF AddsWhatTrades, Adds
<1> QED BY <1>1, <1>2 DEF Ready

LEMMA ReadyAtFirst == Ready(BegunWith(1))
<1>1. IsLog(<<>>)
  BY DEF IsLog
<1> QED BY <1>1 DEF Ready, Working, BegunWith

(* The work of an order once it has a fill.                                *)
LEMMA FirstFillLasts ==
  ASSUME NEW side, NEW first, NEW window, NEW m \in Nat, NEW f, IsWorked(f, side, first, window, m),
         NEW j \in 0..m, NEW session, Begins(f[j], session)
  PROVE  Begins(f[m], session)
<1>1. \A k \in 0..m : f[k] = IF k = 0 THEN first ELSE WorkOn(side, f[k - 1], window[k])
  BY Zenon DEF IsWorked
<1> DEFINE Lacking == {k \in Nat : k \in j..m /\ ~Begins(f[k], session)}
<1>2. Lacking = {}
  <2> SUFFICES ASSUME Lacking # {} PROVE FALSE
    OBVIOUS
  <2>1. PICK k \in Lacking : \A i \in Lacking : k <= i
    <3>1. Lacking \in SUBSET Nat
      OBVIOUS
    <3> HIDE DEF Lacking
    <3> QED BY <3>1, LeastNat
  <2>2. k \in Nat /\ k \in j..m /\ ~Begins(f[k], session)
    BY <2>1
  <2>3. k # j
    <3> HIDE DEF Lacking
    <3> QED BY <2>2
  <2>4. k - 1 \in Nat /\ k - 1 \in j..m /\ ~(k <= k - 1) /\ k \in 0..m /\ k # 0
    <3> HIDE DEF Lacking
    <3> QED BY <2>2, <2>3
  <2>5. Begins(f[k - 1], session)
    BY <2>1, <2>4
  <2> HIDE DEF Lacking
  <2>6. f[k] = WorkOn(side, f[k - 1], window[k])
    BY <1>1, <2>4, Zenon
  <2>7. PICK acc, bar : acc = f[k - 1] /\ bar = window[k]
    OBVIOUS
  <2>8. Begins(WorkOn(side, acc, bar), session)
    BY <2>5, <2>7, FirstFillStays
  <2> QED BY <2>2, <2>6, <2>7, <2>8
<1>3. m \in j..m
  OBVIOUS
<1> HIDE DEF Lacking
<1>4. m \notin Lacking
  BY <1>2
<1> QED BY <1>3, <1>4 DEF Lacking

LEMMA ComparatorTakesTheFill ==
  ASSUME NEW bars, NEW n \in Nat, InOrderOfDays(bars, n), NEW i \in 1..n, NEW delay \in Nat, NEW maxBars \in Nat,
         NEW at \in AcquisitionInstant(bars, i, delay),
         NEW fills, fills = SimulateFill([side |-> "BUY", qty |-> 1], bars, bars[i].session, delay, maxBars).fills,
         fills # <<>>
  PROVE  fills[1].session = at.session \/ OffersNone(bars, at.session)
<1> SUFFICES ASSUME ~OffersNone(bars, at.session) PROVE fills[1].session = at.session
  OBVIOUS
<1>1. DOMAIN bars = 1..n /\ Len(bars) = n
  <2>1. DOMAIN bars = 1..n /\ bars = [j \in 1..n |-> bars[j]]
    BY DEF InOrderOfDays, DatedList
  <2> QED BY <2>1, PlacesCount
<1>2. \A j \in 1..n : bars[j].session = at.session => ~(ParticipationCap(bars[j].volume) < 1)
  BY <1>1 DEF OffersNone
<1>3. PICK done : done = SimulateFill([side |-> "BUY", qty |-> 1], bars, bars[i].session, delay, maxBars)
  OBVIOUS
<1>4. PICK window, m, f : Simulated(done, "BUY", 1, bars, n, i, delay, window, m, f)
  BY <1>3, SimulationWorks
<1>5. PICK first, start : first = AtClose("BUY", 1, bars[i], delay) /\ start = StartOf(i, delay)
  OBVIOUS
<1>6. /\ m \in Nat /\ IsWorked(f, "BUY", first, window, m) /\ done = f[m] /\ fills = f[m].fills
      /\ \A k \in 1..m : start + k - 1 \in 1..n /\ window[k] = bars[start + k - 1]
  BY <1>3, <1>4, <1>5 DEF Simulated, WindowOf
<1>7. \A k \in 0..m : f[k] = IF k = 0 THEN first ELSE WorkOn("BUY", f[k - 1], window[k])
  BY <1>6, Zenon DEF IsWorked
<1>8. f[0] = first /\ 0 \in 0..m
  <2>1. 0 \in 0..m
    BY <1>6
  <2> QED BY <1>7, <2>1, Zenon
<1>9. start \in Nat /\ start > i /\ i \in Nat
  BY <1>5 DEF StartOf
<1>10. ASSUME delay = 0, bars[i].tradable PROVE fills[1].session = at.session
  <2>1. at = [kind |-> "close", session |-> bars[i].session]
    BY <1>10 DEF AcquisitionInstant
  <2>2. at.session = bars[i].session
    BY <2>1
  <2>3. first = WorkBar("BUY", BegunWith(1), bars[i], bars[i].close)
    BY <1>5, <1>10 DEF AtClose
  <2>4. Begins(first, at.session)
    BY <1>2, <1>10, <2>2, <2>3, ReadyAtFirst, FirstShareFills
  <2>5. Begins(f[m], at.session)
    BY <1>6, <1>8, <2>4, FirstFillLasts
  <2> QED BY <1>6, <2>5 DEF Begins
<1>11. ASSUME ~(delay = 0 /\ bars[i].tradable) PROVE fills[1].session = at.session
  <2>1. PICK open : open = {j \in start..Len(bars) : bars[j].tradable}
    OBVIOUS
  <2>2. AcquisitionInstant(bars, i, delay)
          = IF open = {} THEN {}
            ELSE {[kind |-> "open", session |-> bars[CHOOSE j \in open : \A l \in open : j <= l].session]}
    BY <1>5, <1>11, <2>1, Zenon DEF AcquisitionInstant, StartOf
  <2>3. open # {}
    BY <2>2
  <2>4. open \in SUBSET (start..n)
    BY <1>1, <2>1
  <2>5. \E j \in open : \A l \in open : j <= l
    <3>1. open \in SUBSET Nat
      BY <1>9, <2>4
    <3> QED BY <2>3, <3>1, LeastNat
  <2>6. PICK o : o = CHOOSE j \in open : \A l \in open : j <= l
    OBVIOUS
  <2>7. o \in open /\ \A l \in open : o <= l
    BY <2>5, <2>6, Zenon
  <2>8. at.session = bars[o].session
    <3>1. at = [kind |-> "open", session |-> bars[o].session]
      BY <2>2, <2>3, <2>6
    <3> QED BY <3>1
  <2>9. o \in start..n /\ o \in 1..n /\ o \in Nat /\ bars[o].tradable
    BY <1>9, <2>1, <2>4, <2>7
  <2>10. Ready(first)
    <3>1. CASE delay = 0
      <4>1. ~bars[i].tradable
        BY <1>11, <3>1
      <4>2. first = WorkBar("BUY", BegunWith(1), bars[i], bars[i].close)
        BY <1>5, <3>1 DEF AtClose
      <4> QED BY <4>1, <4>2, ReadyAtFirst, NothingFills
    <3>2. CASE delay # 0
      BY <1>5, <3>2, ReadyAtFirst DEF AtClose
    <3> QED BY <3>1, <3>2
  <2> DEFINE Waits(k) == start + k - 1 < o /\ Ready(f[k])
             Lacking == {k \in Nat : k \in 0..m /\ ~Waits(k) /\ ~Begins(f[k], at.session)}
  <2>11. Lacking = {}
    <3> SUFFICES ASSUME Lacking # {} PROVE FALSE
      OBVIOUS
    <3>1. PICK k \in Lacking : \A j \in Lacking : k <= j
      <4>1. Lacking \in SUBSET Nat
        OBVIOUS
      <4> HIDE DEF Lacking
      <4> QED BY <4>1, LeastNat
    <3>2. k \in Nat /\ k \in 0..m /\ ~Waits(k) /\ ~Begins(f[k], at.session)
      BY <3>1
    <3> HIDE DEF Lacking
    <3>3. k # 0
      <4> SUFFICES ASSUME k = 0 PROVE FALSE
        OBVIOUS
      <4>1. start + 0 - 1 < o
        BY <1>9, <2>9
      <4>2. Waits(0)
        BY <1>8, <2>10, <4>1
      <4> HIDE DEF Waits
      <4> QED BY <3>2, <4>2
    <3>4. k - 1 \in Nat /\ k - 1 \in 0..m /\ ~(k <= k - 1) /\ k \in 1..m
      <4> HIDE DEF Waits
      <4> QED BY <1>6, <3>2, <3>3
    <3>5. k - 1 \notin Lacking
      BY <3>1, <3>4
    <3>6. Waits(k - 1) \/ Begins(f[k - 1], at.session)
      <4> HIDE DEF Waits
      <4> QED BY <3>4, <3>5 DEF Lacking
    <3>7. PICK acc, bar : acc = f[k - 1] /\ bar = bars[start + k - 1]
      OBVIOUS
    <3>8. f[k] = WorkOn("BUY", acc, bar) /\ start + k - 1 \in 1..n
      <4> HIDE DEF Waits
      <4>1. f[k] = WorkOn("BUY", f[k - 1], window[k])
        BY <1>7, <3>2, <3>3, Zenon
      <4>2. window[k] = bar /\ start + k - 1 \in 1..n
        BY <1>6, <3>4, <3>7
      <4> QED BY <3>7, <4>1, <4>2
    <3>9. ASSUME Begins(acc, at.session) PROVE FALSE
      <4> HIDE DEF Waits
      <4> QED BY <3>2, <3>8, <3>9, FirstFillStays
    <3>10. ASSUME start + (k - 1) - 1 < o, Ready(acc) PROVE FALSE
      <4>1. f[k] = WorkBar("BUY", acc, bar, bar.open)
        <5>1. acc.left = 1
          BY <3>10 DEF Ready
        <5> QED BY <3>8, <5>1 DEF WorkOn
      <4>2. CASE start + k - 1 < o
        <5>1. start + k - 1 \in start..n /\ start + k - 1 \notin open
          BY <1>9, <2>7, <2>9, <3>4, <3>8, <4>2
        <5>2. ~bar.tradable
          BY <1>1, <2>1, <3>7, <5>1
        <5>3. Ready(f[k])
          BY <3>10, <4>1, <5>2, NothingFills
        <5> QED BY <3>2, <4>2, <5>3
      <4>3. CASE start + k - 1 = o
        <5>1. bar = bars[o] /\ bar.tradable /\ bar.session = at.session
          BY <2>8, <2>9, <3>7, <4>3
        <5>2. ~(ParticipationCap(bar.volume) < 1)
          BY <1>2, <2>9, <5>1
        <5>3. Begins(f[k], at.session)
          BY <3>10, <4>1, <5>1, <5>2, FirstShareFills
        <5> QED BY <3>2, <5>3
      <4> QED BY <1>9, <2>9, <3>4, <3>10, <4>2, <4>3
    <3> QED BY <3>6, <3>7, <3>9, <3>10
  <2>12. m \notin Lacking /\ m \in 0..m
    <3> HIDE DEF Lacking
    <3> QED BY <1>6, <2>11
  <2>13. Ready(f[m]) \/ Begins(f[m], at.session)
    BY <1>6, <2>12
  <2> HIDE DEF Lacking, Waits
  <2>14. ~Ready(f[m])
    BY <1>6 DEF Ready
  <2> QED BY <1>6, <2>13, <2>14 DEF Begins
<1> QED BY <1>10, <1>11

-----------------------------------------------------------------------------
(* What a decision leaves of the run before it.                            *)

(* The decisions and the comparator's weights of a run.                    *)
Recorded(acc) == "decisions" \in DOMAIN acc /\ "weights" \in DOMAIN acc

SameRecord(next, acc) ==
  Recorded(next) /\ next.decisions = acc.decisions /\ next.weights = acc.weights

LEMMA BookFillKeeps ==
  ASSUME NEW acc, Recorded(acc), NEW e, NEW side, NEW f
  PROVE  SameRecord(BookFill(acc, e, side, f), acc)
<1>1. PICK next : next = BookFill(acc, e, side, f)
  OBVIOUS
<1>2. SameRecord(acc, acc)
  BY DEF SameRecord
<1>3. ASSUME NEW cash, NEW listed, NEW held
      PROVE  SameRecord([acc EXCEPT !.cash = cash, !.events = listed, !.held = held], acc)
  BY DEF SameRecord, Recorded
<1>4. \/ next = acc
      \/ \E cash, listed, held : next = [acc EXCEPT !.cash = cash, !.events = listed, !.held = held]
  <2> DEFINE cost == f.qty * f.price + f.fees
             have == HeldQty(acc.held, e)
             sell == Least(f.qty, have)
             event == [type |-> "FILL", entity |-> e, side |-> side, qty |-> f.qty, price |-> f.price,
                       fees |-> f.fees, session |-> f.session]
  <2>1. PICK listed : listed = Append(acc.events, event)
    OBVIOUS
  <2>2. PICK bought : bought = [x \in DOMAIN acc.held \cup {e} |-> HeldQty(acc.held, x) + IF x = e THEN f.qty ELSE 0]
    OBVIOUS
  <2>3. PICK sold : sold = [x \in {y \in DOMAIN acc.held : y # e \/ have > sell} |->
                              HeldQty(acc.held, x) - IF x = e THEN sell ELSE 0]
    OBVIOUS
  <2>4. next = IF side = "BUY"
                 THEN IF cost > acc.cash THEN acc
                      ELSE [acc EXCEPT !.cash = acc.cash - cost, !.events = listed, !.held = bought]
               ELSE IF sell = 0 THEN acc
               ELSE [acc EXCEPT !.cash = acc.cash + sell * f.price - f.fees, !.events = listed, !.held = sold]
    BY <1>1, <2>1, <2>2, <2>3, Zenon DEF BookFill
  <2> HIDE DEF cost, have, sell, event
  <2> QED BY <2>4, Zenon
<1>5. CASE next = acc
  BY <1>1, <1>2, <1>5
<1>6. CASE next # acc
  <2>1. PICK cash, listed, held : next = [acc EXCEPT !.cash = cash, !.events = listed, !.held = held]
    BY <1>4, <1>6, Zenon
  <2>2. SameRecord([acc EXCEPT !.cash = cash, !.events = listed, !.held = held], acc)
    BY <1>3, Zenon
  <2> QED BY <1>1, <2>1, <2>2, Zenon
<1> QED BY <1>5, <1>6

(* The first n fills of an order, booked.                                  *)
IsBooked(f, acc, e, side, fills, n) ==
  f = [k \in 0..n |-> IF k = 0 THEN acc ELSE BookFill(f[k - 1], e, side, fills[k])]

LEMMA BookingsExist ==
  ASSUME NEW acc, NEW e, NEW side, NEW fills, NEW n \in Nat
  PROVE  \E f : IsBooked(f, acc, e, side, fills, n)
<1> DEFINE Lacking == {m \in Nat : ~\E f : IsBooked(f, acc, e, side, fills, m)}
<1> SUFFICES ASSUME Lacking # {} PROVE FALSE
  OBVIOUS
<1>1. PICK m \in Lacking : \A x \in Lacking : m <= x
  <2>1. Lacking \in SUBSET Nat
    OBVIOUS
  <2> HIDE DEF Lacking
  <2> QED BY <2>1, LeastNat
<1>2. m \in Nat /\ ~\E f : IsBooked(f, acc, e, side, fills, m)
  OBVIOUS
<1>3. CASE m = 0
  <2>1. PICK f : f = [k \in 0..0 |-> acc]
    OBVIOUS
  <2>2. f = [k \in 0..0 |-> IF k = 0 THEN acc ELSE BookFill(f[k - 1], e, side, fills[k])]
    BY <2>1
  <2> QED BY <2>2, <1>2, <1>3 DEF IsBooked
<1>4. CASE m # 0
  <2>1. m - 1 \in Nat /\ m - 1 \notin Lacking
    BY <1>1, <1>2, <1>4
  <2>2. PICK f : IsBooked(f, acc, e, side, fills, m - 1)
    BY <2>1
  <2>3. PICK x : x = BookFill(f[m - 1], e, side, fills[m])
    OBVIOUS
  <2>4. PICK g : g = [k \in 0..m |-> IF k = m THEN x ELSE f[k]]
    OBVIOUS
  <2>5. ASSUME NEW k \in 0..m PROVE g[k] = IF k = 0 THEN acc ELSE BookFill(g[k - 1], e, side, fills[k])
    <3>1. f = [j \in 0..(m - 1) |-> IF j = 0 THEN acc ELSE BookFill(f[j - 1], e, side, fills[j])]
      BY <2>2 DEF IsBooked
    <3>2. k # m => k \in 0..(m - 1) /\ g[k] = f[k]
      BY <2>1, <2>4
    <3>3. k # 0 => k - 1 \in 0..(m - 1) /\ g[k - 1] = f[k - 1]
      BY <2>1, <2>4
    <3>4. g[m] = x
      BY <2>1, <2>4
    <3>5. k # m => g[k] = IF k = 0 THEN acc ELSE BookFill(f[k - 1], e, side, fills[k])
      BY <3>1, <3>2, Zenon
    <3> QED BY <1>4, <2>3, <3>3, <3>4, <3>5, Zenon
  <2>6. g = [k \in 0..m |-> IF k = 0 THEN acc ELSE BookFill(g[k - 1], e, side, fills[k])]
    BY <2>4, <2>5
  <2> QED BY <2>6, <1>2 DEF IsBooked
<1> QED BY <1>3, <1>4

LEMMA BookFillsKeep ==
  ASSUME NEW acc, Recorded(acc), NEW e, NEW side, NEW fills, IsLog(fills)
  PROVE  SameRecord(BookFills(acc, e, side, fills), acc)
<1>1. PICK n \in Nat : n = Len(fills)
  BY LogPlaces
<1> DEFINE P(f) == f = [k \in 0..n |-> IF k = 0 THEN acc ELSE BookFill(f[k - 1], e, side, fills[k])]
<1>2. \E f : P(f)
  <2>1. PICK f : IsBooked(f, acc, e, side, fills, n)
    BY BookingsExist
  <2>2. P(f)
    BY <2>1 DEF IsBooked
  <2> HIDE DEF P
  <2> QED BY <2>2
<1>3. BookFills(acc, e, side, fills) = (CHOOSE f : P(f))[n]
  BY <1>1, Zenon DEF BookFills
<1>4. P(CHOOSE f : P(f))
  <2> HIDE DEF P
  <2> QED BY <1>2
<1>5. PICK f : P(f) /\ BookFills(acc, e, side, fills) = f[n]
  <2> HIDE DEF P
  <2> QED BY <1>3, <1>4
<1>6. \A k \in 0..n : f[k] = IF k = 0 THEN acc ELSE BookFill(f[k - 1], e, side, fills[k])
  BY <1>5, Zenon
<1> HIDE DEF P
<1> DEFINE Lacking == {k \in Nat : k \in 0..n /\ ~SameRecord(f[k], acc)}
<1>7. Lacking = {}
  <2> SUFFICES ASSUME Lacking # {} PROVE FALSE
    OBVIOUS
  <2>1. PICK k \in Lacking : \A j \in Lacking : k <= j
    <3>1. Lacking \in SUBSET Nat
      OBVIOUS
    <3> HIDE DEF Lacking
    <3> QED BY <3>1, LeastNat
  <2>2. k \in Nat /\ k \in 0..n /\ ~SameRecord(f[k], acc)
    BY <2>1
  <2> HIDE DEF Lacking
  <2>3. k # 0
    <3>1. 0 \in 0..n
      BY <1>1
    <3>2. SameRecord(acc, acc)
      BY DEF SameRecord
    <3> QED BY <1>6, <2>2, <3>1, <3>2, Zenon
  <2>4. k - 1 \in Nat /\ k - 1 \in 0..n /\ ~(k <= k - 1)
    BY <1>1, <2>2, <2>3
  <2>5. SameRecord(f[k - 1], acc)
    BY <2>1, <2>4 DEF Lacking
  <2>6. f[k] = BookFill(f[k - 1], e, side, fills[k])
    BY <1>6, <2>2, <2>3, Zenon
  <2>7. PICK a, x : a = f[k - 1] /\ x = fills[k]
    OBVIOUS
  <2>8. SameRecord(BookFill(a, e, side, x), a)
    BY <2>5, <2>7, BookFillKeeps DEF SameRecord
  <2> QED BY <2>2, <2>5, <2>6, <2>7, <2>8 DEF SameRecord
<1>8. n \in 0..n
  BY <1>1
<1>9. SameRecord(f[n], acc)
  BY <1>1, <1>7, <1>8
<1> QED BY <1>5, <1>9

(* A set of places has a last one.                                         *)
LEMMA LastPlace ==
  ASSUME NEW m \in Nat, NEW Q \in SUBSET (1..m), Q # {}
  PROVE  \E k \in Q : \A j \in Q : j <= k
<1>1. PICK N : N = {d \in Nat : m - d \in Q}
  OBVIOUS
<1>2. N \in SUBSET Nat
  BY <1>1
<1>3. ASSUME NEW i \in Q PROVE m - i \in N
  <2>1. m - i \in Nat /\ m - (m - i) = i
    OBVIOUS
  <2> QED BY <1>1, <2>1
<1>4. PICK j \in Q : TRUE
  OBVIOUS
<1>5. N # {}
  BY <1>3, <1>4
<1>6. PICK d \in N : \A e \in N : d <= e
  BY <1>2, <1>5, LeastNat
<1>7. m - d \in Q /\ d \in Nat
  BY <1>1, <1>6
<1>8. \A i \in Q : i <= m - d
  <2> SUFFICES ASSUME NEW i \in Q PROVE i <= m - d
    OBVIOUS
  <2>1. i \in 1..m /\ d <= m - i
    BY <1>3, <1>6
  <2> QED BY <1>7, <2>1
<1> QED BY <1>7, <1>8

(* The bars of every instrument are in the order of their days.            *)
Ordering(series, delay) ==
  delay \in Nat /\ \A e \in Universe : \E n \in Nat : InOrderOfDays(series[e].bars, n)

LEMMA WorkOrderKeeps ==
  ASSUME NEW acc, Recorded(acc), NEW order, order.entity \in Universe, NEW series, NEW session, NEW delay,
         Ordering(series, delay)
  PROVE  SameRecord(WorkOrder(acc, order, series, session, delay), acc)
<1>1. PICK bars : bars = series[order.entity].bars
  OBVIOUS
<1>2. PICK n \in Nat : InOrderOfDays(bars, n)
  BY <1>1 DEF Ordering
<1>3. PICK at : at = PointAsOf(bars, session)
  OBVIOUS
<1>4. at = 0 \/ at \in 1..n
  <2>1. PICK past : past = {i \in DOMAIN bars : bars[i].session <= session}
    OBVIOUS
  <2> DEFINE before == {i \in DOMAIN bars : bars[i].session <= session}
  <2>0. PointAsOf(bars, session) = IF before = {} THEN 0 ELSE CHOOSE i \in before : \A j \in before : i >= j
    BY Zenon DEF PointAsOf
  <2>5. before = past
    BY <2>1
  <2> HIDE DEF before
  <2>2. past \in SUBSET (1..n)
    BY <1>2, <2>1 DEF InOrderOfDays, DatedList
  <2>3. at = IF past = {} THEN 0 ELSE CHOOSE i \in past : \A j \in past : i >= j
    BY <1>3, <2>0, <2>5, Zenon
  <2>4. CASE past # {}
    <3>1. \E i \in past : \A j \in past : i >= j
      <4>1. PICK i \in past : \A j \in past : j <= i
        BY <2>2, <2>4, LastPlace
      <4>2. \A j \in past : i >= j
        BY <2>2, <4>1
      <4> QED BY <4>2
    <3>2. at \in past
      BY <2>3, <2>4, <3>1, Zenon
    <3> QED BY <2>2, <3>2
  <2> QED BY <2>3, <2>4
<1>5. SameRecord(acc, acc)
  BY DEF SameRecord
<1>6. ASSUME NEW side, NEW qty, at \in 1..n, NEW violations
      PROVE  SameRecord([BookFills(acc, order.entity, side,
                           SimulateFill([side |-> side, qty |-> qty], bars, bars[at].session, delay, MaxFillBars).fills)
                         EXCEPT !.violations = violations], acc)
  <2>1. PICK fills : fills = SimulateFill([side |-> side, qty |-> qty], bars, bars[at].session, delay, MaxFillBars).fills
    OBVIOUS
  <2>2. delay \in Nat /\ MaxFillBars \in Nat
    BY FillBarsAssumption DEF Ordering
  <2>3. IsLog(fills)
    BY <1>2, <1>6, <2>1, <2>2, FillsAreListed
  <2>4. PICK after : after = BookFills(acc, order.entity, side, fills)
    OBVIOUS
  <2>5. SameRecord(after, acc)
    BY <2>3, <2>4, BookFillsKeep
  <2>6. SameRecord([after EXCEPT !.violations = violations], acc)
    BY <2>5 DEF SameRecord, Recorded
  <2> QED BY <2>1, <2>4, <2>6
<1>7. PICK next : next = WorkOrder(acc, order, series, session, delay)
  OBVIOUS
<1>8. \/ next = acc
      \/ /\ at # 0
         /\ \E side, qty, violations :
              next = [BookFills(acc, order.entity, side,
                        SimulateFill([side |-> side, qty |-> qty], bars, bars[at].session, delay, MaxFillBars).fills)
                      EXCEPT !.violations = violations]
  BY <1>1, <1>3, <1>7, Zenon DEF WorkOrder
<1>9. CASE next = acc
  BY <1>5, <1>7, <1>9
<1>10. CASE next # acc
  <2>1. at \in 1..n
    BY <1>4, <1>8, <1>10
  <2>2. PICK side, qty, violations :
          next = [BookFills(acc, order.entity, side,
                    SimulateFill([side |-> side, qty |-> qty], bars, bars[at].session, delay, MaxFillBars).fills)
                  EXCEPT !.violations = violations]
    BY <1>8, <1>10
  <2>3. SameRecord(next, acc)
    BY <1>6, <2>1, <2>2
  <2> QED BY <1>7, <2>3
<1> QED BY <1>9, <1>10

(* The orders of a decision are worked in the order of the names.          *)
LEMMA OrdersAreListed ==
  ASSUME NEW orders
  PROVE  /\ Len(InEntityOrder(orders)) \in Nat
         /\ \A k \in 1..Len(InEntityOrder(orders)) : InEntityOrder(orders)[k].entity \in Universe
<1>1. PICK s, N : s = EntityOrder /\ N = Len(EntityOrder)
  OBVIOUS
<1>2. Listing(s, N)
  BY <1>1, NamesList
<1>3. PICK I : I = {i \in DOMAIN s : \E o \in orders : o.entity = s[i]}
  OBVIOUS
<1>4. I \in SUBSET (1..N)
  BY <1>2, <1>3 DEF Listing
<1>5. PICK named, n : named = Keeping(s, I) /\ n = Cardinality(I)
  OBVIOUS
<1>6. Thinned(named, n, s, N, I)
  BY <1>2, <1>4, <1>5, KeepingThins
<1>7. DOMAIN named = 1..n /\ n \in Nat
  BY <1>6 DEF Thinned, Listing
<1>8. PICK q : q = [i \in 1..n |-> CHOOSE o \in orders : o.entity = named[i]]
  OBVIOUS
<1>9. InEntityOrder(orders) = q
  <2> DEFINE list == Keeping(EntityOrder, {i \in DOMAIN EntityOrder : \E o \in orders : o.entity = EntityOrder[i]})
  <2>1. InEntityOrder(orders) = [i \in DOMAIN list |-> CHOOSE o \in orders : o.entity = list[i]]
    BY Zenon DEF InEntityOrder
  <2>2. list = named
    BY <1>1, <1>3, <1>5
  <2> HIDE DEF list
  <2> QED BY <1>7, <1>8, <2>1, <2>2
<1>10. DOMAIN q = 1..n /\ q = [i \in 1..n |-> q[i]]
  BY <1>8
<1>11. Len(q) = n
  BY <1>7, <1>10, PlacesCount
<1>12. ASSUME NEW k \in 1..n PROVE q[k].entity \in Universe
  <2>1. PICK i \in I : named[k] = s[i]
    BY <1>6 DEF Thinned
  <2>2. \E o \in orders : o.entity = named[k]
    BY <1>3, <2>1
  <2>3. q[k] = CHOOSE o \in orders : o.entity = named[k]
    BY <1>8
  <2>4. q[k].entity = named[k]
    BY <2>2, <2>3, Zenon
  <2>5. s[i] \in ToSet(s)
    BY <1>3 DEF ToSet
  <2> QED BY <1>1, <2>1, <2>4, <2>5, UniverseAssumption
<1> QED BY <1>7, <1>9, <1>11, <1>12

(* A decision, and the work of its first n orders.                         *)
IsDecided(f, acc, decision, orders, series, delay, n) ==
  f = [k \in 0..n |-> IF k = 0 THEN [acc EXCEPT !.decisions = Append(@, decision)] ELSE WorkOrder(f[k - 1], orders[k], series, decision.session, delay)]

LEMMA DecidedExist ==
  ASSUME NEW acc, NEW decision, NEW orders, NEW series, NEW delay, NEW n \in Nat
  PROVE  \E f : IsDecided(f, acc, decision, orders, series, delay, n)
<1> DEFINE Lacking == {m \in Nat : ~\E f : IsDecided(f, acc, decision, orders, series, delay, m)}
<1> SUFFICES ASSUME Lacking # {} PROVE FALSE
  OBVIOUS
<1>1. PICK m \in Lacking : \A x \in Lacking : m <= x
  <2>1. Lacking \in SUBSET Nat
    OBVIOUS
  <2> HIDE DEF Lacking
  <2> QED BY <2>1, LeastNat
<1>2. m \in Nat /\ ~\E f : IsDecided(f, acc, decision, orders, series, delay, m)
  OBVIOUS
<1>3. CASE m = 0
  <2>1. PICK f : f = [k \in 0..0 |-> [acc EXCEPT !.decisions = Append(@, decision)]]
    OBVIOUS
  <2>2. f = [k \in 0..0 |-> IF k = 0 THEN [acc EXCEPT !.decisions = Append(@, decision)] ELSE WorkOrder(f[k - 1], orders[k], series, decision.session, delay)]
    BY <2>1
  <2> QED BY <2>2, <1>2, <1>3 DEF IsDecided
<1>4. CASE m # 0
  <2>1. m - 1 \in Nat /\ m - 1 \notin Lacking
    BY <1>1, <1>2, <1>4
  <2>2. PICK f : IsDecided(f, acc, decision, orders, series, delay, m - 1)
    BY <2>1
  <2>3. PICK x : x = WorkOrder(f[m - 1], orders[m], series, decision.session, delay)
    OBVIOUS
  <2>4. PICK g : g = [k \in 0..m |-> IF k = m THEN x ELSE f[k]]
    OBVIOUS
  <2>5. ASSUME NEW k \in 0..m PROVE g[k] = IF k = 0 THEN [acc EXCEPT !.decisions = Append(@, decision)] ELSE WorkOrder(g[k - 1], orders[k], series, decision.session, delay)
    <3>1. f = [j \in 0..(m - 1) |-> IF j = 0 THEN [acc EXCEPT !.decisions = Append(@, decision)] ELSE WorkOrder(f[j - 1], orders[j], series, decision.session, delay)]
      BY <2>2 DEF IsDecided
    <3>2. k # m => k \in 0..(m - 1) /\ g[k] = f[k]
      BY <2>1, <2>4
    <3>3. k # 0 => k - 1 \in 0..(m - 1) /\ g[k - 1] = f[k - 1]
      BY <2>1, <2>4
    <3>4. g[m] = x
      BY <2>1, <2>4
    <3>5. k # m => g[k] = IF k = 0 THEN [acc EXCEPT !.decisions = Append(@, decision)] ELSE WorkOrder(f[k - 1], orders[k], series, decision.session, delay)
      BY <3>1, <3>2, Zenon
    <3> QED BY <1>4, <2>3, <3>3, <3>4, <3>5, Zenon
  <2>6. g = [k \in 0..m |-> IF k = 0 THEN [acc EXCEPT !.decisions = Append(@, decision)] ELSE WorkOrder(g[k - 1], orders[k], series, decision.session, delay)]
    BY <2>4, <2>5
  <2> QED BY <2>6, <1>2 DEF IsDecided
<1> QED BY <1>3, <1>4

(* A run after one more decision.                                          *)
Decides(next, acc, decision) ==
  Recorded(next) /\ next.decisions = Append(acc.decisions, decision) /\ next.weights = acc.weights

LEMMA WorkOrdersDecide ==
  ASSUME NEW acc, Recorded(acc), NEW in, NEW series, Ordering(series, in.delay), NEW decision
  PROVE  Decides(WorkOrders(acc, in, series, decision), acc, decision)
<1>1. PICK orders, n : orders = InEntityOrder(decision.orders) /\ n = Len(orders)
  OBVIOUS
<1>2. n \in Nat /\ \A k \in 1..n : orders[k].entity \in Universe
  BY <1>1, OrdersAreListed
<1>3. PICK delay : delay = in.delay
  OBVIOUS
<1> DEFINE P(f) == f = [k \in 0..n |-> IF k = 0 THEN [acc EXCEPT !.decisions = Append(@, decision)]
                                       ELSE WorkOrder(f[k - 1], orders[k], series, decision.session, in.delay)]
<1>4. \E f : P(f)
  <2>1. PICK f : IsDecided(f, acc, decision, orders, series, in.delay, n)
    BY <1>2, DecidedExist
  <2>2. P(f)
    BY <2>1 DEF IsDecided
  <2> HIDE DEF P
  <2> QED BY <2>2
<1>5. WorkOrders(acc, in, series, decision) = (CHOOSE f : P(f))[n]
  BY <1>1, Zenon DEF WorkOrders
<1>6. P(CHOOSE f : P(f))
  <2> HIDE DEF P
  <2> QED BY <1>4
<1>7. PICK f : P(f) /\ WorkOrders(acc, in, series, decision) = f[n]
  <2> HIDE DEF P
  <2> QED BY <1>5, <1>6
<1>8. \A k \in 0..n : f[k] = IF k = 0 THEN [acc EXCEPT !.decisions = Append(@, decision)]
                             ELSE WorkOrder(f[k - 1], orders[k], series, decision.session, delay)
  BY <1>3, <1>7, Zenon
<1> HIDE DEF P
<1>9. Decides([acc EXCEPT !.decisions = Append(@, decision)], acc, decision)
  BY DEF Decides, Recorded
<1> DEFINE Lacking == {k \in Nat : k \in 0..n /\ ~Decides(f[k], acc, decision)}
<1>10. Lacking = {}
  <2> SUFFICES ASSUME Lacking # {} PROVE FALSE
    OBVIOUS
  <2>1. PICK k \in Lacking : \A j \in Lacking : k <= j
    <3>1. Lacking \in SUBSET Nat
      OBVIOUS
    <3> HIDE DEF Lacking
    <3> QED BY <3>1, LeastNat
  <2>2. k \in Nat /\ k \in 0..n /\ ~Decides(f[k], acc, decision)
    BY <2>1
  <2> HIDE DEF Lacking
  <2>3. k # 0
    <3>1. 0 \in 0..n
      BY <1>2
    <3> QED BY <1>8, <1>9, <2>2, <3>1, Zenon
  <2>4. k - 1 \in Nat /\ k - 1 \in 0..n /\ ~(k <= k - 1) /\ k \in 1..n
    BY <1>2, <2>2, <2>3
  <2>5. Decides(f[k - 1], acc, decision)
    BY <2>1, <2>4 DEF Lacking
  <2>6. f[k] = WorkOrder(f[k - 1], orders[k], series, decision.session, delay)
    BY <1>8, <2>2, <2>3, Zenon
  <2>7. PICK a, x, s : a = f[k - 1] /\ x = orders[k] /\ s = decision.session
    OBVIOUS
  <2>8. Recorded(a) /\ x.entity \in Universe /\ Ordering(series, delay)
    BY <1>2, <1>3, <2>4, <2>5, <2>7 DEF Decides
  <2>9. SameRecord(WorkOrder(a, x, series, s, delay), a)
    BY <2>8, WorkOrderKeeps
  <2> QED BY <2>2, <2>5, <2>6, <2>7, <2>9 DEF SameRecord, Decides
<1>11. n \in 0..n
  BY <1>2
<1>12. Decides(f[n], acc, decision)
  BY <1>2, <1>10, <1>11
<1> QED BY <1>7, <1>12

(* The features of a session, over what a reader of it sees.               *)
FeaturesOf(in, session) ==
  ComputeFeatures(Tabulated([e \in Risk \cup {CashEtf} |-> LoadExecutionSeries(in, e, 0, session, session)]),
                  Risk, CashEtf, session)

(* The rules chose from the features fs, and weighed what they chose.      *)
ChosenFrom(anchor, cand, weights, fs, missing) ==
  /\ anchor = fs.anchor
  /\ \E held : cand = SelectCandidates(WithMissing(fs.features, missing), fs.cashMom, held, {})
  /\ weights = TargetWeights([e \in ToSet(cand.selected) |-> fs.features[e].vol])

(* A decision is the rules' choice from the features of its session.       *)
Selects(decision, in, session) ==
  /\ decision.session = session
  /\ ChosenFrom(decision.anchor, decision.cand, decision.weights, FeaturesOf(in, session), in.missing)

(* One session of a run: another decision or none, weights that are listed.*)
Proceeds(next, acc, in, session) ==
  /\ Recorded(next) /\ IsLog(next.weights)
  /\ next.decisions = acc.decisions
     \/ \E decision : Selects(decision, in, session) /\ next.decisions = Append(acc.decisions, decision)

LEMMA NotedProceeds ==
  ASSUME NEW acc, Recorded(acc), IsLog(acc.weights), NEW session, NEW weight, NEW nav
  PROVE  LET noted == Noted(acc, session, weight, nav)
         IN Recorded(noted) /\ IsLog(noted.weights) /\ noted.decisions = acc.decisions
<1>1. PICK weights : weights = IF weight = None THEN acc.weights
                               ELSE Append(acc.weights, [session |-> session, weight |-> weight])
  OBVIOUS
<1>2. IsLog(weights)
  BY <1>1, AppendedLog
<1>3. PICK missing : missing = (acc.missingVol \/ (weight = None /\ acc.weights # <<>>))
  OBVIOUS
<1>4. Noted(acc, session, weight, nav) = [acc EXCEPT !.nav = nav, !.weights = weights, !.missingVol = missing]
  BY <1>1, <1>3, Zenon DEF Noted
<1>5. PICK noted : noted = [acc EXCEPT !.nav = nav, !.weights = weights, !.missingVol = missing]
  OBVIOUS
<1>6. Recorded(noted) /\ noted.weights = weights /\ noted.decisions = acc.decisions
  BY <1>5 DEF Recorded
<1> QED BY <1>2, <1>4, <1>5, <1>6

LEMMA RebalanceProceeds ==
  ASSUME NEW acc, Recorded(acc), IsLog(acc.weights), NEW in, NEW series, Ordering(series, in.delay),
         NEW session, NEW anchor, NEW cand, NEW weights, NEW prices,
         ChosenFrom(anchor, cand, weights, FeaturesOf(in, session), in.missing)
  PROVE  Proceeds(Rebalance(acc, in, series, session, anchor, cand, weights, prices), acc, in, session)
<1>1. PICK next : next = Rebalance(acc, in, series, session, anchor, cand, weights, prices)
  OBVIOUS
<1>2. CASE acc.nav <= 0
  <2>1. next = [acc EXCEPT !.stopped = TRUE]
    BY <1>1, <1>2 DEF Rebalance
  <2>2. Recorded(next) /\ next.weights = acc.weights /\ next.decisions = acc.decisions
    BY <2>1 DEF Recorded
  <2> QED BY <1>1, <2>2 DEF Proceeds
<1>3. CASE ~(acc.nav <= 0)
  <2>1. PICK decision :
          decision = [session |-> session, anchor |-> anchor, nav |-> acc.nav, cand |-> cand, weights |-> weights,
                      orders |-> RebalanceOrders(acc.nav, ShareTargets(acc.nav, weights, prices).targets, acc.held, prices),
                      cash |-> acc.cash]
    OBVIOUS
  <2>2. next = WorkOrders(acc, in, series, decision)
    BY <1>1, <1>3, <2>1, Zenon DEF Rebalance
  <2>3. Selects(decision, in, session)
    <3>1. decision.session = session /\ decision.anchor = anchor /\ decision.cand = cand /\ decision.weights = weights
      BY <2>1
    <3> QED BY <3>1 DEF Selects
  <2>4. Decides(next, acc, decision)
    BY <2>2, WorkOrdersDecide
  <2>5. Proceeds(next, acc, in, session)
    BY <2>3, <2>4 DEF Proceeds, Decides
  <2> QED BY <1>1, <2>5
<1> QED BY <1>2, <1>3

LEMMA DecideProceeds ==
  ASSUME NEW acc, Recorded(acc), IsLog(acc.weights), NEW in, NEW series, Ordering(series, in.delay), NEW session
  PROVE  Proceeds(Decide(acc, in, series, session), acc, in, session)
<1>1. PICK fs : fs = FeaturesOf(in, session)
  OBVIOUS
<1>2. Decide(acc, in, series, session) = IF acc.stopped THEN acc ELSE DecideOn(acc, in, series, session, fs)
  BY <1>1, Zenon DEF Decide, FeaturesOf
<1>3. Proceeds(acc, acc, in, session)
  BY DEF Proceeds
<1>4. Proceeds(DecideOn(acc, in, series, session, fs), acc, in, session)
  <2>1. PICK cand : cand = SelectCandidates(WithMissing(fs.features, in.missing), fs.cashMom, DOMAIN acc.held, {})
    OBVIOUS
  <2>2. PICK prices : prices = PricesAt(series, fs.anchor)
    OBVIOUS
  <2>3. PICK weight : weight = IF Primary \in Risk THEN TargetWeight(fs.features[Primary].vol, VolTarget) ELSE None
    OBVIOUS
  <2>4. PICK nav : nav = ValueOf(acc, prices)
    OBVIOUS
  <2>5. PICK weights : weights = TargetWeights([e \in ToSet(cand.selected) |-> fs.features[e].vol])
    OBVIOUS
  <2>6. PICK noted : noted = Noted(acc, session, weight, nav)
    OBVIOUS
  <2>7. DecideOn(acc, in, series, session, fs) = Rebalance(noted, in, series, session, fs.anchor, cand, weights, prices)
    BY <2>1, <2>2, <2>3, <2>4, <2>5, <2>6, Zenon DEF DecideOn
  <2>8. Recorded(noted) /\ IsLog(noted.weights) /\ noted.decisions = acc.decisions
    BY <2>6, NotedProceeds
  <2>9. PICK anchor : anchor = fs.anchor
    OBVIOUS
  <2>10. ChosenFrom(anchor, cand, weights, FeaturesOf(in, session), in.missing)
    BY <1>1, <2>1, <2>5, <2>9, Zenon DEF ChosenFrom
  <2>11. Proceeds(Rebalance(noted, in, series, session, anchor, cand, weights, prices), noted, in, session)
    BY <2>8, <2>10, RebalanceProceeds
  <2>12. Proceeds(Rebalance(noted, in, series, session, anchor, cand, weights, prices), acc, in, session)
    BY <2>8, <2>11 DEF Proceeds
  <2> QED BY <2>7, <2>9, <2>12
<1> QED BY <1>2, <1>3, <1>4

-----------------------------------------------------------------------------
(* A run, decision by decision.                                            *)

(* A list of n days, each later than the one before it.                    *)
DaysListed(days, n) ==
  /\ n \in Nat /\ days = [i \in 1..n |-> days[i]] /\ \A i \in 1..n : days[i] \in Int
  /\ \A i, j \in 1..n : i < j => days[i] < days[j]

(* A run through the first k days: each decision is of a day of its own,   *)
(* in their order.                                                         *)
Ran(acc, in, days, k) ==
  /\ Recorded(acc) /\ IsLog(acc.weights) /\ IsLog(acc.decisions)
  /\ \A i \in DOMAIN acc.decisions : \E h \in 1..k : Selects(acc.decisions[i], in, days[h])
  /\ \A i, j \in DOMAIN acc.decisions : i < j => acc.decisions[i].session < acc.decisions[j].session

LEMMA DayIsRun ==
  ASSUME NEW in, NEW days, NEW n, DaysListed(days, n), NEW k \in 1..n, NEW acc, Ran(acc, in, days, k - 1),
         NEW next, Proceeds(next, acc, in, days[k])
  PROVE  Ran(next, in, days, k)
<1>1. PICK old, m : old = acc.decisions /\ m = Len(old)
  OBVIOUS
<1>2. IsLog(old) /\ m \in Nat /\ DOMAIN old = 1..m
  BY <1>1, LogPlaces DEF Ran
<1>3. /\ \A i \in 1..m : \E h \in 1..(k - 1) : Selects(old[i], in, days[h])
      /\ \A i, j \in 1..m : i < j => old[i].session < old[j].session
  BY <1>1, <1>2 DEF Ran
<1>4. n \in Nat /\ k \in Nat /\ \A h \in 1..(k - 1) : h \in 1..k /\ days[h] < days[k]
  BY DEF DaysListed
<1>5. Recorded(next) /\ IsLog(next.weights)
  BY DEF Proceeds
<1>6. CASE next.decisions = old
  <2>1. \A i \in 1..m : \E h \in 1..k : Selects(old[i], in, days[h])
    BY <1>3, <1>4
  <2> QED BY <1>2, <1>3, <1>5, <1>6, <2>1 DEF Ran
<1>7. CASE next.decisions # old
  <2>1. PICK decision : Selects(decision, in, days[k]) /\ next.decisions = Append(old, decision)
    BY <1>1, <1>7 DEF Proceeds
  <2>2. PICK new : new = next.decisions
    OBVIOUS
  <2>3. /\ IsLog(new) /\ DOMAIN new = 1..(m + 1)
        /\ \A i \in 1..m : new[i] = old[i]
        /\ new[m + 1] = decision
    BY <1>1, <1>2, <2>1, <2>2, AppendedLog
  <2>4. ASSUME NEW i \in 1..(m + 1) PROVE \E h \in 1..k : Selects(new[i], in, days[h])
    <3>1. CASE i \in 1..m
      <4>1. PICK h \in 1..(k - 1) : Selects(old[i], in, days[h])
        BY <1>3, <3>1
      <4> QED BY <1>4, <2>3, <3>1, <4>1
    <3>2. CASE i \notin 1..m
      <4>1. i = m + 1 /\ k \in 1..k
        BY <1>2, <1>4, <3>2
      <4> QED BY <2>1, <2>3, <4>1
    <3> QED BY <3>1, <3>2
  <2>5. ASSUME NEW i \in 1..(m + 1), NEW j \in 1..(m + 1), i < j PROVE new[i].session < new[j].session
    <3>1. i \in 1..m
      BY <1>2, <2>5
    <3>2. CASE j \in 1..m
      BY <1>3, <2>3, <2>5, <3>1, <3>2
    <3>3. CASE j \notin 1..m
      <4>1. j = m + 1
        BY <1>2, <3>3
      <4>2. PICK h \in 1..(k - 1) : Selects(old[i], in, days[h])
        BY <1>3, <3>1
      <4>3. new[i].session = days[h] /\ new[j].session = days[k]
        BY <2>1, <2>3, <3>1, <4>1, <4>2 DEF Selects
      <4> QED BY <1>4, <4>3
    <3> QED BY <3>2, <3>3
  <2> QED BY <1>5, <2>2, <2>3, <2>4, <2>5 DEF Ran
<1> QED BY <1>6, <1>7

(* The run through the first n days.                                       *)
IsRun(f, in, series, days, n) ==
  f = [k \in 0..n |-> IF k = 0 THEN Begun ELSE Decide(f[k - 1], in, series, days[k])]

LEMMA RunsExist ==
  ASSUME NEW in, NEW series, NEW days, NEW n \in Nat
  PROVE  \E f : IsRun(f, in, series, days, n)
<1> DEFINE Lacking == {m \in Nat : ~\E f : IsRun(f, in, series, days, m)}
<1> SUFFICES ASSUME Lacking # {} PROVE FALSE
  OBVIOUS
<1>1. PICK m \in Lacking : \A x \in Lacking : m <= x
  <2>1. Lacking \in SUBSET Nat
    OBVIOUS
  <2> HIDE DEF Lacking
  <2> QED BY <2>1, LeastNat
<1>2. m \in Nat /\ ~\E f : IsRun(f, in, series, days, m)
  OBVIOUS
<1>3. CASE m = 0
  <2>1. PICK f : f = [k \in 0..0 |-> Begun]
    OBVIOUS
  <2>2. f = [k \in 0..0 |-> IF k = 0 THEN Begun ELSE Decide(f[k - 1], in, series, days[k])]
    BY <2>1
  <2> QED BY <2>2, <1>2, <1>3 DEF IsRun
<1>4. CASE m # 0
  <2>1. m - 1 \in Nat /\ m - 1 \notin Lacking
    BY <1>1, <1>2, <1>4
  <2>2. PICK f : IsRun(f, in, series, days, m - 1)
    BY <2>1
  <2>3. PICK x : x = Decide(f[m - 1], in, series, days[m])
    OBVIOUS
  <2>4. PICK g : g = [k \in 0..m |-> IF k = m THEN x ELSE f[k]]
    OBVIOUS
  <2>5. ASSUME NEW k \in 0..m PROVE g[k] = IF k = 0 THEN Begun ELSE Decide(g[k - 1], in, series, days[k])
    <3>1. f = [j \in 0..(m - 1) |-> IF j = 0 THEN Begun ELSE Decide(f[j - 1], in, series, days[j])]
      BY <2>2 DEF IsRun
    <3>2. k # m => k \in 0..(m - 1) /\ g[k] = f[k]
      BY <2>1, <2>4
    <3>3. k # 0 => k - 1 \in 0..(m - 1) /\ g[k - 1] = f[k - 1]
      BY <2>1, <2>4
    <3>4. g[m] = x
      BY <2>1, <2>4
    <3>5. k # m => g[k] = IF k = 0 THEN Begun ELSE Decide(f[k - 1], in, series, days[k])
      BY <3>1, <3>2, Zenon
    <3> QED BY <1>4, <2>3, <3>3, <3>4, <3>5, Zenon
  <2>6. g = [k \in 0..m |-> IF k = 0 THEN Begun ELSE Decide(g[k - 1], in, series, days[k])]
    BY <2>4, <2>5
  <2> QED BY <2>6, <1>2 DEF IsRun
<1> QED BY <1>3, <1>4

LEMMA RunGoesThrough ==
  ASSUME NEW in, NEW series, Ordering(series, in.delay), NEW days, NEW n, DaysListed(days, n)
  PROVE  Ran(RunThrough(in, series, days), in, days, n)
<1>1. n \in Nat /\ Len(days) = n
  BY PlacesCount DEF DaysListed
<1> DEFINE P(f) == f = [k \in 0..Len(days) |-> IF k = 0 THEN Begun ELSE Decide(f[k - 1], in, series, days[k])]
<1>2. \E f : P(f)
  <2>1. PICK f : IsRun(f, in, series, days, n)
    BY <1>1, RunsExist
  <2>2. P(f)
    BY <1>1, <2>1 DEF IsRun
  <2> HIDE DEF P
  <2> QED BY <2>2
<1>3. RunThrough(in, series, days) = (CHOOSE f : P(f))[Len(days)]
  BY Zenon DEF RunThrough
<1>4. P(CHOOSE f : P(f))
  <2> HIDE DEF P
  <2> QED BY <1>2
<1>5. PICK f : P(f) /\ RunThrough(in, series, days) = f[n]
  <2> HIDE DEF P
  <2> QED BY <1>1, <1>3, <1>4
<1>6. \A k \in 0..n : f[k] = IF k = 0 THEN Begun ELSE Decide(f[k - 1], in, series, days[k])
  BY <1>1, <1>5, Zenon
<1> HIDE DEF P
<1>7. Ran(Begun, in, days, 0)
  <2>1. IsLog(<<>>)
    BY DEF IsLog
  <2>2. Recorded(Begun) /\ Begun.weights = <<>> /\ Begun.decisions = <<>>
    BY DEF Begun, Recorded
  <2>3. DOMAIN <<>> = {}
    OBVIOUS
  <2> QED BY <2>1, <2>2, <2>3 DEF Ran
<1> DEFINE Lacking == {k \in Nat : k \in 0..n /\ ~Ran(f[k], in, days, k)}
<1>8. Lacking = {}
  <2> SUFFICES ASSUME Lacking # {} PROVE FALSE
    OBVIOUS
  <2>1. PICK k \in Lacking : \A j \in Lacking : k <= j
    <3>1. Lacking \in SUBSET Nat
      OBVIOUS
    <3> HIDE DEF Lacking
    <3> QED BY <3>1, LeastNat
  <2>2. k \in Nat /\ k \in 0..n /\ ~Ran(f[k], in, days, k)
    BY <2>1
  <2> HIDE DEF Lacking
  <2>3. k # 0
    <3>1. 0 \in 0..n
      BY <1>1
    <3> QED BY <1>6, <1>7, <2>2, <3>1, Zenon
  <2>4. k - 1 \in Nat /\ k - 1 \in 0..n /\ ~(k <= k - 1) /\ k \in 1..n
    BY <1>1, <2>2, <2>3
  <2>5. Ran(f[k - 1], in, days, k - 1)
    BY <2>1, <2>4 DEF Lacking
  <2>6. f[k] = Decide(f[k - 1], in, series, days[k])
    BY <1>6, <2>2, <2>3, Zenon
  <2>7. PICK acc, next, day : acc = f[k - 1] /\ next = f[k] /\ day = days[k]
    OBVIOUS
  <2>8. Ran(acc, in, days, k - 1) /\ next = Decide(acc, in, series, day)
    BY <2>5, <2>6, <2>7
  <2>9. Recorded(acc) /\ IsLog(acc.weights)
    BY <2>8 DEF Ran
  <2>10. Proceeds(next, acc, in, day)
    BY <2>8, <2>9, DecideProceeds
  <2>11. Ran(next, in, days, k)
    BY <2>4, <2>7, <2>8, <2>10, DayIsRun
  <2> QED BY <2>2, <2>7, <2>11
<1>9. n \in 0..n
  BY <1>1
<1>10. Ran(f[n], in, days, n)
  BY <1>1, <1>8, <1>9
<1> QED BY <1>5, <1>10

(* The decision days of a window are sessions of it, in their order.       *)
LEMMA DecisionDays ==
  ASSUME NEW from, NEW to
  PROVE  \E n : DaysListed(WeeklyDecisionSessions(from, to), n)
<1>1. PICK S : S = {d \in Calendar : /\ from <= d /\ d <= to
                                     /\ ~\E s \in Calendar : d < s /\ s <= to /\ MondayOf(s) = MondayOf(d)}
  OBVIOUS
<1>2. IsFiniteSet(S) /\ S \subseteq Int
  <2>1. S \in SUBSET Calendar
    BY <1>1
  <2> QED BY <2>1, SessionsAssumption, FS_Subset
<1>3. PICK days, n : days = Ascending(S) /\ n = Cardinality(S)
  OBVIOUS
<1>4. n \in Nat /\ days \in [1..n -> S] /\ \A i, j \in 1..n : i < j => days[i] < days[j]
  BY <1>2, <1>3, AscendingLists
<1>5. DaysListed(days, n)
  BY <1>2, <1>4 DEF DaysListed
<1>6. WeeklyDecisionSessions(from, to) = days
  BY <1>1, <1>3 DEF WeeklyDecisionSessions
<1> QED BY <1>5, <1>6

(* The bars a run of a definition reads are in the order of their days.    *)
LEMMA SeriesAreOrdered ==
  ASSUME NEW d \in Definitions, NEW w, NEW in, in = InputOf(d, w), NEW series,
         series = [e \in Universe |-> LoadExecutionSeries(in, e, in.from, in.to, in.to)]
  PROVE  Ordering(series, in.delay) /\ in.delay = Charter(d).delay
<1>1. /\ in.rows = Market(d).rows /\ in.actions = Market(d).actions /\ in.delay = Charter(d).delay
      /\ in.from = w[1] /\ in.to = w[2]
  BY DEF InputOf
<1>2. ASSUME NEW e \in Universe PROVE \E n \in Nat : InOrderOfDays(series[e].bars, n)
  <2>1. PICK rows, actions : rows = Market(d).rows[e] /\ actions = {a \in Market(d).actions[e] : a.known <= w[2]}
    OBVIOUS
  <2>2. RowsTyped(rows)
    BY <2>1, MarketAssumption DEF RowsTyped
  <2>3. PICK bars : bars = RawSeries(rows, actions, w[1], w[2], w[2])
    OBVIOUS
  <2>4. series[e].bars = bars
    <3>1. LoadExecutionSeries(in, e, in.from, in.to, in.to)
            = [bars |-> bars, actions |-> actions, tr |-> TotalReturnSeries(bars, actions)]
      BY <1>1, <2>1, <2>3 DEF LoadExecutionSeries
    <3> QED BY <3>1
  <2> QED BY <2>2, <2>3, <2>4, BarsAreRows
<1> QED BY <1>1, <1>2, ScheduleAssumption DEF Ordering

-----------------------------------------------------------------------------
(* What every run of an evaluation decided.                                *)

(* A run of an evaluation that did not throw is a backtest of a window.    *)
LEMMA RunsAreBacktests ==
  ASSUME NEW d \in Definitions, NEW run \in RunsOf(d)
  PROVE  \E w : run.backtest = BacktestOf(d, w)
<1>1. PICK sel, n, splits : EvaluatedBy(d, sel, n, splits)
  BY EvaluationShape
<1>2. PICK inputs, planned : PooledOf(d, splits, inputs, planned)
  BY <1>1, EvaluationPools
<1>3. n \in Nat /\ DOMAIN splits = 1..n /\ Evaluations[d].splits = splits
  BY <1>1, <1>2 DEF EvaluatedBy, PooledOf
<1>4. run \in ToSet(splits)
  BY <1>3 DEF RunsOf, RunsIn
<1>5. PICK i \in 1..n : run = splits[i]
  BY <1>3, <1>4 DEF ToSet
<1> QED BY <1>1, <1>5, SplitOfPlan

(* Its decisions are of days of their own, in order, and its comparator    *)
(* places the weights they noted against bars in the order of their days.  *)
DecidedBy(d, bt, in, days, n, run, series) ==
  /\ DaysListed(days, n) /\ Ran(run, in, days, n)
  /\ in.delay = Charter(d).delay /\ Ordering(series, in.delay)
  /\ in.rows = Market(d).rows /\ in.actions = Market(d).actions /\ in.missing = {}
  /\ bt.decisions = run.decisions /\ bt.primaryBars = series[Primary].bars
  /\ bt.secondary2 = Secondary2Of(run, series, bt.sessions, in.delay)

LEMMA BacktestDecides ==
  ASSUME NEW d \in Definitions, NEW w
  PROVE  \E in, days, n, run, series : DecidedBy(d, BacktestOf(d, w), in, days, n, run, series)
<1>1. PICK in, bt : in = InputOf(d, w) /\ bt = BacktestOf(d, w)
  OBVIOUS
<1>2. bt = RunBacktest(in)
  BY <1>1 DEF BacktestOf
<1>3. PICK run, series : ComesOf(in, bt, run, series)
  BY <1>2, BacktestShows
<1>4. PICK days : days = WeeklyDecisionSessions(in.from, in.to)
  OBVIOUS
<1>5. PICK n : DaysListed(days, n)
  BY <1>4, DecisionDays
<1>6. series = [e \in Universe |-> LoadExecutionSeries(in, e, in.from, in.to, in.to)]
  BY <1>3 DEF ComesOf
<1>7. Ordering(series, in.delay) /\ in.delay = Charter(d).delay
  BY <1>1, <1>6, SeriesAreOrdered
<1>8. run = RunThrough(in, series, days)
  BY <1>3, <1>4 DEF ComesOf
<1>9. Ran(run, in, days, n)
  BY <1>5, <1>7, <1>8, RunGoesThrough
<1>10. in.rows = Market(d).rows /\ in.actions = Market(d).actions /\ in.missing = {}
  BY <1>1 DEF InputOf
<1>11. DecidedBy(d, bt, in, days, n, run, series)
  BY <1>3, <1>5, <1>7, <1>9, <1>10 DEF ComesOf, DecidedBy
<1> QED BY <1>1, <1>11

LEMMA EveryBookIsRuled == \A d \in Definitions : d \in KeepsTheRules
<1> SUFFICES ASSUME NEW d \in Definitions PROVE d \in KeepsTheRules
  OBVIOUS
<1>1. ASSUME NEW run \in RunsOf(d), NEW decision \in ToSet(run.backtest.decisions) PROVE Ruled(decision.cand)
  <2>1. PICK w : run.backtest = BacktestOf(d, w)
    BY RunsAreBacktests
  <2>2. PICK bt : bt = run.backtest
    OBVIOUS
  <2>3. PICK in, days, n, done, series : DecidedBy(d, bt, in, days, n, done, series)
    BY <2>1, <2>2, BacktestDecides
  <2>4. PICK i \in DOMAIN done.decisions : decision = done.decisions[i]
    BY <2>2, <2>3 DEF DecidedBy, ToSet
  <2>5. PICK h \in 1..n : Selects(decision, in, days[h])
    BY <2>3, <2>4 DEF DecidedBy, Ran
  <2>6. PICK features, cashMom, held : decision.cand = SelectCandidates(features, cashMom, held, {})
    BY <2>5 DEF Selects, ChosenFrom
  <2> QED BY <2>6, CandidatesAreRuled
<1> QED BY <1>1, Zenon DEF KeepsTheRules, Ruled

-----------------------------------------------------------------------------
(* The comparator's weights are placed where the bars acquire them.        *)

PlacedWell(acc, bars, delay) ==
  /\ "placed" \in DOMAIN acc /\ IsLog(acc.placed)
  /\ \A i \in DOMAIN acc.placed : acc.placed[i].at \in WeightInstants(bars, acc.placed[i].decided, delay)

LEMMA PlacingKeeps ==
  ASSUME NEW acc, NEW bars, NEW delay, PlacedWell(acc, bars, delay), NEW w, NEW at,
         at = WeightInstants(bars, w.session, delay)
  PROVE  PlacedWell(PlaceWeight(acc, w, at), bars, delay)
<1>1. PICK next : next = PlaceWeight(acc, w, at)
  OBVIOUS
<1>2. PICK chosen : chosen = CHOOSE x \in at : TRUE
  OBVIOUS
<1>3. PICK entry : entry = [weight |-> w.weight, decided |-> w.session, at |-> chosen]
  OBVIOUS
<1>4. PICK old, new : old = acc.placed /\ new = Append(acc.placed, entry)
  OBVIOUS
<1>5. \/ next = acc
      \/ next = [acc EXCEPT !.unplaced = TRUE]
      \/ at # {} /\ next = [acc EXCEPT !.previous = w.weight, !.placed = new]
  BY <1>1, <1>2, <1>3, <1>4, Zenon DEF PlaceWeight
<1>6. "placed" \in DOMAIN acc /\ IsLog(old) /\ \A i \in DOMAIN old : old[i].at \in WeightInstants(bars, old[i].decided, delay)
  BY <1>4 DEF PlacedWell
<1>7. CASE next = acc
  BY <1>1, <1>7
<1>8. CASE next = [acc EXCEPT !.unplaced = TRUE]
  <2>1. "placed" \in DOMAIN next /\ next.placed = old
    BY <1>4, <1>6, <1>8
  <2>2. PlacedWell(next, bars, delay)
    BY <1>6, <2>1 DEF PlacedWell
  <2> QED BY <1>1, <2>2
<1>9. CASE at # {} /\ next = [acc EXCEPT !.previous = w.weight, !.placed = new]
  <2>1. "placed" \in DOMAIN next /\ next.placed = new
    BY <1>6, <1>9
  <2>2. PICK m : m = Len(old)
    OBVIOUS
  <2>3. /\ IsLog(new) /\ DOMAIN new = DOMAIN old \cup {m + 1}
        /\ \A i \in DOMAIN old : new[i] = old[i]
        /\ new[m + 1] = entry
    BY <1>4, <1>6, <2>2, AppendedLog
  <2>4. entry.at = chosen /\ entry.decided = w.session
    BY <1>3
  <2>5. chosen \in at
    BY <1>2, <1>9, Zenon
  <2>6. \A i \in DOMAIN new : new[i].at \in WeightInstants(bars, new[i].decided, delay)
    <3> SUFFICES ASSUME NEW i \in DOMAIN new PROVE new[i].at \in WeightInstants(bars, new[i].decided, delay)
      OBVIOUS
    <3>1. CASE i \in DOMAIN old
      <4>1. new[i] = old[i]
        BY <2>3, <3>1
      <4> QED BY <1>6, <3>1, <4>1
    <3>2. CASE i = m + 1
      <4>1. new[i].at = chosen /\ new[i].decided = w.session
        BY <2>3, <2>4, <3>2
      <4> QED BY <2>5, <4>1
    <3> QED BY <2>3, <3>1, <3>2
  <2>7. PlacedWell(next, bars, delay)
    BY <2>1, <2>3, <2>6 DEF PlacedWell
  <2> QED BY <1>1, <2>7
<1> QED BY <1>5, <1>7, <1>8, <1>9

(* The first n weights of the comparator, placed.                          *)
IsPlacing(f, weights, bars, delay, n) ==
  f = [k \in 0..n |-> IF k = 0 THEN [placed |-> <<>>, unplaced |-> FALSE, previous |-> None] ELSE PlaceWeight(f[k - 1], weights[k], WeightInstants(bars, weights[k].session, delay))]

LEMMA PlacingsExist ==
  ASSUME NEW weights, NEW bars, NEW delay, NEW n \in Nat
  PROVE  \E f : IsPlacing(f, weights, bars, delay, n)
<1> DEFINE Lacking == {m \in Nat : ~\E f : IsPlacing(f, weights, bars, delay, m)}
<1> SUFFICES ASSUME Lacking # {} PROVE FALSE
  OBVIOUS
<1>1. PICK m \in Lacking : \A x \in Lacking : m <= x
  <2>1. Lacking \in SUBSET Nat
    OBVIOUS
  <2> HIDE DEF Lacking
  <2> QED BY <2>1, LeastNat
<1>2. m \in Nat /\ ~\E f : IsPlacing(f, weights, bars, delay, m)
  OBVIOUS
<1>3. CASE m = 0
  <2>1. PICK f : f = [k \in 0..0 |-> [placed |-> <<>>, unplaced |-> FALSE, previous |-> None]]
    OBVIOUS
  <2>2. f = [k \in 0..0 |-> IF k = 0 THEN [placed |-> <<>>, unplaced |-> FALSE, previous |-> None] ELSE PlaceWeight(f[k - 1], weights[k], WeightInstants(bars, weights[k].session, delay))]
    BY <2>1
  <2> QED BY <2>2, <1>2, <1>3 DEF IsPlacing
<1>4. CASE m # 0
  <2>1. m - 1 \in Nat /\ m - 1 \notin Lacking
    BY <1>1, <1>2, <1>4
  <2>2. PICK f : IsPlacing(f, weights, bars, delay, m - 1)
    BY <2>1
  <2>3. PICK x : x = PlaceWeight(f[m - 1], weights[m], WeightInstants(bars, weights[m].session, delay))
    OBVIOUS
  <2>4. PICK g : g = [k \in 0..m |-> IF k = m THEN x ELSE f[k]]
    OBVIOUS
  <2>5. ASSUME NEW k \in 0..m PROVE g[k] = IF k = 0 THEN [placed |-> <<>>, unplaced |-> FALSE, previous |-> None] ELSE PlaceWeight(g[k - 1], weights[k], WeightInstants(bars, weights[k].session, delay))
    <3>1. f = [j \in 0..(m - 1) |-> IF j = 0 THEN [placed |-> <<>>, unplaced |-> FALSE, previous |-> None] ELSE PlaceWeight(f[j - 1], weights[j], WeightInstants(bars, weights[j].session, delay))]
      BY <2>2 DEF IsPlacing
    <3>2. k # m => k \in 0..(m - 1) /\ g[k] = f[k]
      BY <2>1, <2>4
    <3>3. k # 0 => k - 1 \in 0..(m - 1) /\ g[k - 1] = f[k - 1]
      BY <2>1, <2>4
    <3>4. g[m] = x
      BY <2>1, <2>4
    <3>5. k # m => g[k] = IF k = 0 THEN [placed |-> <<>>, unplaced |-> FALSE, previous |-> None] ELSE PlaceWeight(f[k - 1], weights[k], WeightInstants(bars, weights[k].session, delay))
      BY <3>1, <3>2, Zenon
    <3> QED BY <1>4, <2>3, <3>3, <3>4, <3>5, Zenon
  <2>6. g = [k \in 0..m |-> IF k = 0 THEN [placed |-> <<>>, unplaced |-> FALSE, previous |-> None] ELSE PlaceWeight(g[k - 1], weights[k], WeightInstants(bars, weights[k].session, delay))]
    BY <2>4, <2>5
  <2> QED BY <2>6, <1>2 DEF IsPlacing
<1> QED BY <1>3, <1>4

LEMMA WeightsArePlaced ==
  ASSUME NEW weights, IsLog(weights), NEW bars, NEW delay
  PROVE  PlacedWell(Secondary2Activations(weights, bars, delay), bars, delay)
<1>1. PICK n : n = Len(weights)
  OBVIOUS
<1>0. n \in Nat
  BY <1>1, LogPlaces
<1>11. PICK first : first = [placed |-> <<>>, unplaced |-> FALSE, previous |-> None]
  OBVIOUS
<1> DEFINE P(f) == f = [k \in 0..Len(weights) |->
                          IF k = 0 THEN [placed |-> <<>>, unplaced |-> FALSE, previous |-> None]
                          ELSE PlaceWeight(f[k - 1], weights[k], WeightInstants(bars, weights[k].session, delay))]
<1>2. \E f : P(f)
  <2>1. PICK f : IsPlacing(f, weights, bars, delay, n)
    BY <1>0, PlacingsExist
  <2>2. P(f)
    BY <1>1, <2>1, Zenon DEF IsPlacing
  <2> HIDE DEF P
  <2> QED BY <2>2
<1>3. Secondary2Activations(weights, bars, delay) = (CHOOSE f : P(f))[Len(weights)]
  BY Zenon DEF Secondary2Activations
<1>4. P(CHOOSE f : P(f))
  <2> HIDE DEF P
  <2> QED BY <1>2
<1>5. PICK f : P(f) /\ Secondary2Activations(weights, bars, delay) = f[n]
  <2> HIDE DEF P
  <2> QED BY <1>1, <1>3, <1>4
<1>6. \A k \in 0..n : f[k] = IF k = 0 THEN first
                             ELSE PlaceWeight(f[k - 1], weights[k], WeightInstants(bars, weights[k].session, delay))
  BY <1>1, <1>5, <1>11, Zenon
<1> HIDE DEF P
<1>7. PlacedWell(first, bars, delay)
  <2>1. IsLog(<<>>)
    BY DEF IsLog
  <2>2. "placed" \in DOMAIN first /\ first.placed = <<>>
    BY <1>11
  <2>3. DOMAIN <<>> = {}
    OBVIOUS
  <2> QED BY <2>1, <2>2, <2>3 DEF PlacedWell
<1> DEFINE Lacking == {k \in Nat : k \in 0..n /\ ~PlacedWell(f[k], bars, delay)}
<1>8. Lacking = {}
  <2> SUFFICES ASSUME Lacking # {} PROVE FALSE
    OBVIOUS
  <2>1. PICK k \in Lacking : \A j \in Lacking : k <= j
    <3>1. Lacking \in SUBSET Nat
      OBVIOUS
    <3> HIDE DEF Lacking
    <3> QED BY <3>1, LeastNat
  <2>2. k \in Nat /\ k \in 0..n /\ ~PlacedWell(f[k], bars, delay)
    BY <2>1
  <2> HIDE DEF Lacking
  <2>3. k # 0
    <3>1. 0 \in 0..n
      BY <1>0
    <3> QED BY <1>6, <1>7, <2>2, <3>1, Zenon
  <2>4. k - 1 \in Nat /\ k - 1 \in 0..n /\ ~(k <= k - 1)
    BY <1>0, <2>2, <2>3
  <2>5. PlacedWell(f[k - 1], bars, delay)
    BY <2>1, <2>4 DEF Lacking
  <2>6. f[k] = PlaceWeight(f[k - 1], weights[k], WeightInstants(bars, weights[k].session, delay))
    BY <1>6, <2>2, <2>3, Zenon
  <2>7. PICK acc, w : acc = f[k - 1] /\ w = weights[k]
    OBVIOUS
  <2>8. PICK at : at = WeightInstants(bars, w.session, delay)
    OBVIOUS
  <2>9. PlacedWell(PlaceWeight(acc, w, at), bars, delay)
    BY <2>5, <2>7, <2>8, PlacingKeeps
  <2> QED BY <2>2, <2>6, <2>7, <2>8, <2>9
<1>9. n \in 0..n
  BY <1>0
<1>10. PlacedWell(f[n], bars, delay)
  BY <1>0, <1>8, <1>9
<1> QED BY <1>5, <1>10

(* What the comparator shows as placed is what was.                        *)
LEMMA PlacedIsShown ==
  ASSUME NEW acc, NEW series, NEW sessions, NEW delay
  PROVE  Secondary2Of(acc, series, sessions, delay).placed
           = Secondary2Activations(acc.weights, series[Primary].bars, delay).placed
<1>1. PICK s2 : s2 = Secondary2Activations(acc.weights, series[Primary].bars, delay)
  OBVIOUS
<1>2. PICK index : index = VolatilityTargetedSeries(series[Primary], series[CashEtf], s2.placed, ToSet(sessions))
  OBVIOUS
<1>3. Secondary2Of(acc, series, sessions, delay) = Comparator(acc, s2, index, sessions)
  BY <1>1, <1>2, Zenon DEF Secondary2Of
<1>4. Comparator(acc, s2, index, sessions).placed = s2.placed
  BY DEF Comparator
<1> QED BY <1>1, <1>3, <1>4

LEMMA EveryComparatorFills == \A d \in Definitions : d \in FillsAlike
<1> SUFFICES ASSUME NEW d \in Definitions PROVE d \in FillsAlike
  OBVIOUS
<1>1. ASSUME NEW run \in RunsOf(d), NEW at \in ToSet(run.backtest.secondary2.placed), NEW fills,
             fills = SimulateFill([side |-> "BUY", qty |-> 1], run.backtest.primaryBars, at.decided,
                                  Charter(d).delay, MaxFillBars).fills,
             fills # <<>>
      PROVE  fills[1].session = at.at.session \/ OffersNone(run.backtest.primaryBars, at.at.session)
  <2>1. PICK w : run.backtest = BacktestOf(d, w)
    BY RunsAreBacktests
  <2>2. PICK bt : bt = run.backtest
    OBVIOUS
  <2>3. PICK in, days, n, done, series : DecidedBy(d, bt, in, days, n, done, series)
    BY <2>1, <2>2, BacktestDecides
  <2>4. PICK bars, delay : bars = series[Primary].bars /\ delay = Charter(d).delay
    OBVIOUS
  <2>5. bt.primaryBars = bars /\ in.delay = delay /\ delay \in Nat
    BY <2>3, <2>4 DEF DecidedBy, Ordering
  <2>6. PICK m \in Nat : InOrderOfDays(bars, m)
    <3>1. Primary \in Universe
      BY DEF Universe
    <3> QED BY <2>3, <2>4, <3>1 DEF DecidedBy, Ordering
  <2>7. IsLog(done.weights)
    BY <2>3 DEF DecidedBy, Ran
  <2>8. PICK s2 : s2 = Secondary2Activations(done.weights, bars, delay)
    OBVIOUS
  <2>9. bt.secondary2.placed = s2.placed
    BY <2>3, <2>4, <2>5, <2>8, PlacedIsShown DEF DecidedBy
  <2>10. PlacedWell(s2, bars, delay)
    BY <2>7, <2>8, WeightsArePlaced
  <2>11. at.at \in WeightInstants(bars, at.decided, delay)
    BY <2>2, <2>9, <2>10 DEF PlacedWell, ToSet
  <2>12. PICK i \in DOMAIN bars : bars[i].session = at.decided /\ at.at \in AcquisitionInstant(bars, i, delay)
    BY <2>11 DEF WeightInstants
  <2>13. DOMAIN bars = 1..m
    BY <2>6 DEF InOrderOfDays, DatedList
  <2>14. PICK x : x = at.at
    OBVIOUS
  <2>15. fills = SimulateFill([side |-> "BUY", qty |-> 1], bars, bars[i].session, delay, MaxFillBars).fills
    BY <1>1, <2>2, <2>4, <2>5, <2>12
  <2>16. fills[1].session = x.session \/ OffersNone(bars, x.session)
    <3>1. x \in AcquisitionInstant(bars, i, delay) /\ i \in 1..m
      BY <2>12, <2>13, <2>14
    <3>2. MaxFillBars \in Nat
      BY FillBarsAssumption
    <3>3. fills # <<>>
      BY <1>1
    <3> QED BY <2>5, <2>6, <2>15, <3>1, <3>2, <3>3, ComparatorTakesTheFill
  <2> QED BY <2>2, <2>5, <2>14, <2>16
<1> QED BY <1>1, Zenon DEF FillsAlike

-----------------------------------------------------------------------------
(* What a run ranks, a run of the day would have.                          *)

(* What was known on a day has all that a reader of that day sees.         *)
LEMMA TheDayShowsAsMuch ==
  ASSUME NEW in, NEW then, NEW session,
         then.rows = KnownBy(in.rows, session), then.actions = KnownBy(in.actions, session)
  PROVE  FeaturesOf(then, session) = FeaturesOf(in, session)
<1>1. ASSUME NEW e \in Risk \cup {CashEtf}
      PROVE  LoadExecutionSeries(then, e, 0, session, session) = LoadExecutionSeries(in, e, 0, session, session)
  <2>1. e \in Universe
    BY DEF Universe
  <2>2. PICK rows, seen : rows = in.rows[e] /\ seen = then.rows[e]
    OBVIOUS
  <2>3. RowsRead(seen, session) = RowsRead(rows, session)
    BY <2>1, <2>2 DEF KnownBy, RowsRead
  <2>4. PICK actions : actions = {a \in in.actions[e] : a.known <= session}
    OBVIOUS
  <2>5. {a \in then.actions[e] : a.known <= session} = actions
    BY <2>1, <2>4 DEF KnownBy
  <2>6. RawSeries(seen, actions, 0, session, session) = RawSeries(rows, actions, 0, session, session)
    BY <2>3, Zenon DEF RawSeries
  <2>7. PICK bars : bars = RawSeries(rows, actions, 0, session, session)
    OBVIOUS
  <2>8. LoadExecutionSeries(in, e, 0, session, session)
          = [bars |-> bars, actions |-> actions, tr |-> TotalReturnSeries(bars, actions)]
    BY <2>2, <2>4, <2>7, Zenon DEF LoadExecutionSeries
  <2>9. LoadExecutionSeries(then, e, 0, session, session)
          = [bars |-> bars, actions |-> actions, tr |-> TotalReturnSeries(bars, actions)]
    BY <2>2, <2>5, <2>6, <2>7, Zenon DEF LoadExecutionSeries
  <2> QED BY <2>8, <2>9
<1>2. [e \in Risk \cup {CashEtf} |-> LoadExecutionSeries(then, e, 0, session, session)]
        = [e \in Risk \cup {CashEtf} |-> LoadExecutionSeries(in, e, 0, session, session)]
  BY <1>1
<1> QED BY <1>2, Zenon DEF FeaturesOf

(* A ranking is of the features alone, whatever is held.                   *)
LEMMA RankedByFeatures ==
  ASSUME NEW features, NEW cashMom, NEW held
  PROVE  SelectCandidates(features, cashMom, held, {}).ranking = Ranking(features, cashMom, {})
<1>1. PICK ranking : ranking = Ranking(features, cashMom, {})
  OBVIOUS
<1>2. PICK inBand : inBand = InBand(ranking, held)
  OBVIOUS
<1>3. PICK cleared : cleared = ClusterCleared(inBand)
  OBVIOUS
<1>4. PICK sel : sel = Backfill(ranking, inBand, cleared, FillBook(cleared, held), held)
  OBVIOUS
<1>5. SelectCandidates(features, cashMom, held, {})
        = [selected |-> Keeping(ranking, {k \in DOMAIN ranking : ranking[k] \in sel}),
           exits |-> held \ sel, entries |-> sel \ held,
           ranking |-> ranking, clusterFull |-> ToSet(inBand) \ ToSet(cleared)]
  BY <1>1, <1>2, <1>3, <1>4, Zenon DEF SelectCandidates
<1> QED BY <1>1, <1>5

(* Two choices from the same features rank alike.                          *)
LEMMA ChoicesRankAlike ==
  ASSUME NEW a, NEW b, NEW fs, NEW missing,
         ChosenFrom(a.anchor, a.cand, a.weights, fs, missing), ChosenFrom(b.anchor, b.cand, b.weights, fs, missing)
  PROVE  RanksAlike(a, b)
<1>1. a.anchor = b.anchor
  BY DEF ChosenFrom
<1>2. PICK features, cashMom : features = WithMissing(fs.features, missing) /\ cashMom = fs.cashMom
  OBVIOUS
<1>3. PICK held, kept : /\ a.cand = SelectCandidates(features, cashMom, held, {})
                        /\ b.cand = SelectCandidates(features, cashMom, kept, {})
  BY <1>2 DEF ChosenFrom
<1>4. a.cand.ranking = b.cand.ranking
  BY <1>3, RankedByFeatures
<1>5. ASSUME a.cand.selected = b.cand.selected PROVE a.weights = b.weights
  BY <1>5, Zenon DEF ChosenFrom
<1> QED BY <1>1, <1>4, <1>5 DEF RanksAlike

(* What the run of the day decided is the rules' choice from the features  *)
(* the whole run saw.                                                      *)
LEMMA TheDayDecides ==
  ASSUME NEW d \in Definitions, NEW w, NEW session, NEW then \in ToSet(OnTheDay(d, w, session).decisions),
         then.session = session, NEW in, in.rows = Market(d).rows, in.actions = Market(d).actions
  PROVE  ChosenFrom(then.anchor, then.cand, then.weights, FeaturesOf(in, session), {})
<1>1. PICK seen : seen = [InputOf(d, w) EXCEPT !.rows = KnownBy(@, session), !.actions = KnownBy(@, session), !.to = session]
  OBVIOUS
<1>2. /\ seen.rows = KnownBy(Market(d).rows, session) /\ seen.actions = KnownBy(Market(d).actions, session)
      /\ seen.delay = Charter(d).delay /\ seen.missing = {} /\ seen.from = w[1] /\ seen.to = session
  BY <1>1 DEF InputOf
<1>3. PICK series : series = [e \in Universe |-> LoadExecutionSeries(seen, e, seen.from, seen.to, seen.to)]
  OBVIOUS
<1>4. PICK days : days = WeeklyDecisionSessions(w[1], session)
  OBVIOUS
<1>5. OnTheDay(d, w, session) = RunThrough(seen, series, days)
  <2>1. OnTheDay(d, w, session) = LoopOf(seen, days)
    BY <1>1, <1>4, Zenon DEF OnTheDay
  <2>2. Tabulated([e \in Universe |-> LoadExecutionSeries(seen, e, seen.from, seen.to, seen.to)]) = series
    BY <1>3, TabulatedIs
  <2> QED BY <2>1, <2>2 DEF LoopOf
<1>6. ASSUME NEW e \in Universe PROVE \E n \in Nat : InOrderOfDays(series[e].bars, n)
  <2>1. PICK rows, actions : rows = seen.rows[e] /\ actions = {a \in seen.actions[e] : a.known <= session}
    OBVIOUS
  <2>2. RowsTyped(rows)
    <3>1. rows \in SUBSET Market(d).rows[e]
      BY <1>2, <2>1 DEF KnownBy
    <3> QED BY <3>1, MarketAssumption, FS_Subset DEF RowsTyped
  <2>3. PICK bars : bars = RawSeries(rows, actions, w[1], session, session)
    OBVIOUS
  <2>4. series[e].bars = bars
    <3>1. LoadExecutionSeries(seen, e, seen.from, seen.to, seen.to)
            = [bars |-> bars, actions |-> actions, tr |-> TotalReturnSeries(bars, actions)]
      BY <1>2, <2>1, <2>3 DEF LoadExecutionSeries
    <3> QED BY <1>3, <3>1
  <2> QED BY <2>2, <2>3, <2>4, BarsAreRows
<1>7. Ordering(series, seen.delay)
  BY <1>2, <1>6, ScheduleAssumption DEF Ordering
<1>8. PICK n : DaysListed(days, n)
  BY <1>4, DecisionDays
<1>9. PICK run : run = RunThrough(seen, series, days)
  OBVIOUS
<1>10. Ran(run, seen, days, n)
  BY <1>7, <1>8, <1>9, RunGoesThrough
<1>11. PICK i \in DOMAIN run.decisions : then = run.decisions[i]
  BY <1>5, <1>9 DEF ToSet
<1>12. PICK h \in 1..n : Selects(then, seen, days[h])
  BY <1>10, <1>11 DEF Ran
<1>13. ChosenFrom(then.anchor, then.cand, then.weights, FeaturesOf(seen, session), {})
  <2>1. days[h] = session
    BY <1>12 DEF Selects
  <2> QED BY <1>2, <1>12, <2>1 DEF Selects
<1>14. FeaturesOf(seen, session) = FeaturesOf(in, session)
  BY <1>2, TheDayShowsAsMuch
<1> QED BY <1>13, <1>14

LEMMA EveryRankingIsOfTheDay == \A d \in Definitions : d \in RanksWhatWasKnown
<1> SUFFICES ASSUME NEW d \in Definitions PROVE d \in RanksWhatWasKnown
  OBVIOUS
<1>1. ASSUME NEW x \in InHindsight[d], NEW then \in x.then PROVE RanksAlike(then, x.decided)
  <2>1. x \in UNION {RecalledIn(d, run) : run \in RunsOf(d)}
    BY DEF InHindsight
  <2>2. PICK run \in RunsOf(d) : x \in RecalledIn(d, run)
    BY <2>1
  <2>3. PICK decision \in ToSet(run.backtest.decisions) : x = Recalled(d, run.evaluation, decision)
    BY <2>2 DEF RecalledIn
  <2>4. PICK session, window : session = decision.session /\ window = run.evaluation
    OBVIOUS
  <2>5. x.decided = decision /\ then \in ToSet(OnTheDay(d, window, session).decisions) /\ then.session = session
    BY <2>3, <2>4 DEF Recalled
  <2>6. PICK w : run.backtest = BacktestOf(d, w)
    BY RunsAreBacktests
  <2>7. PICK bt : bt = run.backtest
    OBVIOUS
  <2>8. PICK in, days, n, done, series : DecidedBy(d, bt, in, days, n, done, series)
    BY <2>6, <2>7, BacktestDecides
  <2>9. PICK i \in DOMAIN done.decisions : decision = done.decisions[i]
    BY <2>3, <2>7, <2>8 DEF DecidedBy, ToSet
  <2>10. PICK h \in 1..n : Selects(decision, in, days[h])
    BY <2>8, <2>9 DEF DecidedBy, Ran
  <2>11. in.rows = Market(d).rows /\ in.actions = Market(d).actions /\ in.missing = {}
    BY <2>8 DEF DecidedBy
  <2>12. ChosenFrom(decision.anchor, decision.cand, decision.weights, FeaturesOf(in, session), {})
    BY <2>4, <2>10, <2>11 DEF Selects
  <2>13. ChosenFrom(then.anchor, then.cand, then.weights, FeaturesOf(in, session), {})
    BY <2>5, <2>11, TheDayDecides
  <2>14. PICK fs : fs = FeaturesOf(in, session)
    OBVIOUS
  <2>15. RanksAlike(then, decision)
    BY <2>12, <2>13, <2>14, ChoicesRankAlike
  <2> QED BY <2>5, <2>15
<1> QED BY <1>1 DEF RanksWhatWasKnown

-----------------------------------------------------------------------------
(* The theorems.                                                           *)

LEMMA JudgedWhateverIsRegistered == HoldoutInv => BookRules /\ ComparatorFillsWithUs /\ RankingsNeverLookAhead
<1> SUFFICES ASSUME HoldoutInv PROVE BookRules /\ ComparatorFillsWithUs /\ RankingsNeverLookAhead
  OBVIOUS
<1>1. ASSUME NEW e \in DOMAIN experiments PROVE experiments[e].def \in Definitions
  <2>1. experiments \in Seq(Experiment)
    BY DEF HoldoutInv, RegistryInv, RegistryTyped
  <2>2. experiments[e] \in Experiment
    BY <2>1
  <2> QED BY <2>2 DEF Experiment
<1>2. Registered(KeepsTheRules)
  BY <1>1, EveryBookIsRuled DEF Registered
<1>3. Registered(FillsAlike)
  BY <1>1, EveryComparatorFills DEF Registered
<1>4. Registered(RanksWhatWasKnown)
  BY <1>1, EveryRankingIsOfTheDay DEF Registered
<1> QED BY <1>2, <1>3, <1>4 DEF BookRules, ComparatorFillsWithUs, RankingsNeverLookAhead

(* The book keeps the rules at every decision of every run, for any market *)
(* and features: its size, the members of a cluster and the newcomers are  *)
(* bounded, and an incumbent within the hold band leaves only to its       *)
(* cluster or to a whole book that ranks above it (candidates.ts 138-319). *)
THEOREM BooksKeepTheRules == ResearchSpec => []BookRules
<1>. QED BY HoldoutInvAlways, JudgedWhateverIsRegistered, PTL

(* The comparator acquires where the fill simulator first would, for any   *)
(* bars, delay and bound on the bars an order is worked: for the same      *)
(* decision neither is ahead of the other (backtest.ts 356-412).           *)
THEOREM ComparatorsFillWithUs == ResearchSpec => []ComparatorFillsWithUs
<1>. QED BY HoldoutInvAlways, JudgedWhateverIsRegistered, PTL

(* Which instruments a decision of any run ranks, in which order, and the  *)
(* weights of what it selects are those of the same loop ended that day    *)
(* over what the store then showed, for any market, however its rows and   *)
(* actions are revised later in the window (backtest.ts 476-477).          *)
THEOREM RankingsAreOfTheDay == ResearchSpec => []RankingsNeverLookAhead
<1>. QED BY HoldoutInvAlways, JudgedWhateverIsRegistered, PTL

=============================================================================
