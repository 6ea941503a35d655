------------------------------ MODULE Scheduler ------------------------------
(***************************************************************************)
(* The job scheduler (packages/core/src/scheduler/scheduler.ts) as the     *)
(* processes that share its database drive it: the serve loop              *)
(* (serve.ts, tickOnce) and the run-jobs command (main.ts).  A pass of a   *)
(* process detects missed runs and then executes the due ones, one         *)
(* transaction per step.  Other processes interleave between the steps,    *)
(* time passes, and a process may die at any point.                        *)
(*                                                                         *)
(* A run is one (job, scheduled instant) pair, the key of job_runs.  The   *)
(* calendar that yields the instants is left out: they are given.          *)
(***************************************************************************)
EXTENDS Integers

CONSTANTS Procs,           \* processes that share the database
          Runs,            \* idempotency keys
          For,             \* For[r]: the instant r is scheduled for
          DueLookback,     \* how late a due run is still executed
          MissedLookback,  \* how far back an unrecorded run is reported
          Deadline,        \* of every job
          MaxCrashes,      \* bound: processes die so many times in all
          Calm,            \* bound: passes begun before Calm hold time up from then on
          MaxTime          \* bound on the clock

(* The statuses a row takes.  skipped_duplicate is an outcome of tick only. *)
Status == {"none", "pending", "running", "succeeded", "failed", "missed"}

Never == -1

ASSUME RunsAssumption ==
  /\ For \in [Runs -> Nat]
  /\ DueLookback \in Nat /\ MissedLookback \in Nat
  /\ MissedLookback >= DueLookback
  /\ Deadline \in Nat \ {0}
ASSUME BoundsAssumption ==
  MaxCrashes \in Nat /\ Calm \in Nat /\ MaxTime \in Nat

VARIABLES clock,
          status,     \* job_runs.status, "none" without a row
          startedAt,  \* job_runs.started_at
          ledger,     \* ledger[r]: kind of the last lifecycle event of r
          result,     \* what the handler of r came to
          invoked,    \* how many times the handler of r was called
          pass,       \* pass[p]: where process p is in its pass
          covered,    \* completed passes have looked at all of 1..covered
          crashes     \* how many times a process died

rowVars == <<status, startedAt, ledger>>
vars == <<clock, rowVars, result, invoked, pass, covered, crashes>>

(* The steps of a pass: the two scans of detectMissedRuns, then tick.  todo
   holds the runs its present loop has left; run is the one in hand.       *)
Pc == {"idle", "scan", "record", "select", "stale", "claim", "start", "run"}

Idle == [pc |-> "idle", now |-> 0, todo |-> {}, run |-> {}]

Pass == [pc : Pc, now : Nat, todo : SUBSET Runs, run : SUBSET Runs]

TypeOK ==
  /\ clock \in Nat /\ covered \in Nat /\ crashes \in Nat
  /\ status \in [Runs -> Status]
  /\ startedAt \in [Runs -> Nat \cup {Never}]
  /\ ledger \in [Runs -> {"none", "job.started", "job.finished", "job.missed"}]
  /\ result \in [Runs -> {"none", "returned", "threw"}]
  /\ invoked \in [Runs -> Nat]
  /\ pass \in [Procs -> Pass]

Init ==
  /\ clock = 0 /\ covered = 0 /\ crashes = 0
  /\ status = [r \in Runs |-> "none"]
  /\ startedAt = [r \in Runs |-> Never]
  /\ ledger = [r \in Runs |-> "none"]
  /\ result = [r \in Runs |-> "none"]
  /\ invoked = [r \in Runs |-> 0]
  /\ pass = [p \in Procs |-> Idle]

-----------------------------------------------------------------------------
At(p, pc) == pass[p].pc = pc

GoTo(p, pc, todo) ==
  pass' = [pass EXCEPT ![p] = [pc |-> pc, now |-> @.now, todo |-> todo, run |-> {}]]

TakeUp(p, pc, r) ==
  pass' = [pass EXCEPT ![p] = [pc |-> pc, now |-> @.now, todo |-> @.todo, run |-> {r}]]

(* The runs of todo that come first in scheduled order.                    *)
First(todo) == {r \in todo : \A s \in todo : For[r] <= For[s]}

(* One transaction: the row and its ledger event.                          *)
Write(r, new, kind) ==
  /\ status' = [status EXCEPT ![r] = new]
  /\ ledger' = [ledger EXCEPT ![r] = kind]

(* Slip: the window is open at its end.                                    *)
WindowBefore(end, lookback) ==
  {r \in Runs : For[r] > end - lookback /\ For[r] < end}

(* scheduledInstants: the instants in (end - lookback, end].               *)
Window(end, lookback) ==
  {r \in Runs : For[r] > end - lookback /\ For[r] <= end}

(* Slip: a run that never started has no deadline to pass.                 *)
ClaimExpiredIfStarted(r, now) ==
  startedAt[r] # Never /\ startedAt[r] + Deadline < now

ClaimExpired(r, now) ==
  (IF startedAt[r] = Never THEN For[r] ELSE startedAt[r]) + Deadline < now

IsStale(r, now) ==
  status[r] \in {"pending", "running"} /\ ClaimExpired(r, now)

-----------------------------------------------------------------------------
(* detectMissedRuns                                                        *)

PassStart(p) ==
  /\ At(p, "idle")
  /\ pass' = [pass EXCEPT ![p] =
       [pc |-> "scan", now |-> clock, run |-> {},
        todo |-> Window(clock - DueLookback, MissedLookback - DueLookback)]]
  /\ UNCHANGED <<clock, rowVars, result, invoked, covered, crashes>>

(* Job by job.  The row is looked up outside the transaction that inserts it. *)
ScanOne(p) ==
  /\ At(p, "scan")
  /\ \E r \in pass[p].todo :
       IF status[r] # "none"
       THEN GoTo(p, "scan", pass[p].todo \ {r})
       ELSE TakeUp(p, "record", r)
  /\ UNCHANGED <<clock, rowVars, result, invoked, covered, crashes>>

(* The plain INSERT throws when another process has inserted the key, which
   ends the pass.                                                          *)
RecordMissed(p) ==
  /\ At(p, "record")
  /\ \E r \in pass[p].run :
       \/ /\ status[r] = "none"
          /\ Write(r, "missed", "job.missed")
          /\ GoTo(p, "scan", pass[p].todo \ {r})
       \/ /\ status[r] # "none"
          /\ pass' = [pass EXCEPT ![p] = Idle]
          /\ UNCHANGED <<status, ledger>>
  /\ UNCHANGED <<clock, startedAt, result, invoked, covered, crashes>>

ScanEnd(p) ==
  /\ At(p, "scan") /\ pass[p].todo = {}
  /\ GoTo(p, "select", {})
  /\ UNCHANGED <<clock, rowVars, result, invoked, covered, crashes>>

(* The stale rows are selected once, before any is marked.                 *)
SelectStale(p) ==
  /\ At(p, "select")
  /\ GoTo(p, "stale", {r \in Runs : IsStale(r, pass[p].now)})
  /\ UNCHANGED <<clock, rowVars, result, invoked, covered, crashes>>

(* Slip: the row is updated and the ledger event forgotten.                *)
MarkStaleQuietly(p) ==
  /\ At(p, "stale")
  /\ \E r \in pass[p].todo :
       /\ status' = [status EXCEPT ![r] = "missed"]
       /\ GoTo(p, "stale", pass[p].todo \ {r})
  /\ UNCHANGED <<clock, startedAt, ledger, result, invoked, covered, crashes>>

(* The UPDATE does not look at the status again.                           *)
MarkStale(p) ==
  /\ At(p, "stale")
  /\ \E r \in pass[p].todo :
       /\ Write(r, "missed", "job.missed")
       /\ GoTo(p, "stale", pass[p].todo \ {r})
  /\ UNCHANGED <<clock, startedAt, result, invoked, covered, crashes>>

StaleEnd(p) ==
  /\ At(p, "stale") /\ pass[p].todo = {}
  /\ GoTo(p, "claim", Window(pass[p].now, DueLookback))
  /\ UNCHANGED <<clock, rowVars, result, invoked, covered, crashes>>

-----------------------------------------------------------------------------
(* tick                                                                    *)

(* Slip: a row marked missed is claimed again.                             *)
MayClaimMissed(r) == status[r] \in {"none", "missed"}

(* INSERT OR IGNORE: the primary key refuses a second claim.               *)
MayClaim(r) == status[r] = "none"

Claim(p) ==
  /\ At(p, "claim")
  /\ \E r \in First(pass[p].todo) :
       \/ /\ MayClaim(r)
          /\ status' = [status EXCEPT ![r] = "pending"]
          /\ TakeUp(p, "start", r)
       \/ /\ ~MayClaim(r)
          /\ GoTo(p, "claim", pass[p].todo \ {r})
          /\ UNCHANGED status
  /\ UNCHANGED <<clock, startedAt, ledger, result, invoked, covered, crashes>>

(* The row is set running whatever it says by now; then the handler runs.  *)
Start(p) ==
  /\ At(p, "start")
  /\ \E r \in pass[p].run :
       /\ Write(r, "running", "job.started")
       /\ startedAt' = [startedAt EXCEPT ![r] = clock]
       /\ invoked' = [invoked EXCEPT ![r] = @ + 1]
  /\ pass' = [pass EXCEPT ![p].pc = "run"]
  /\ UNCHANGED <<clock, result, covered, crashes>>

(* A handler comes to its end, in time or past its deadline.               *)
HandlerEnds(p) ==
  /\ At(p, "run")
  /\ \E r \in pass[p].run, how \in {"returned", "threw"} :
       /\ result[r] = "none"
       /\ result' = [result EXCEPT ![r] = how]
  /\ UNCHANGED <<clock, rowVars, invoked, pass, covered, crashes>>

(* The race of the handler with its deadline.  A handler that does not
   yield can return after the deadline and still win it.                   *)
Outcomes(r) ==
  (CASE result[r] = "returned" -> {"succeeded"}
     [] result[r] = "threw"    -> {"failed"}
     [] OTHER                  -> {})
  \cup (IF clock >= startedAt[r] + Deadline /\ result[r] = "none"
        THEN {"failed"} ELSE {})

Finish(p) ==
  /\ At(p, "run")
  /\ \E r \in pass[p].run : \E outcome \in Outcomes(r) :
       /\ Write(r, outcome, "job.finished")
       /\ GoTo(p, "claim", pass[p].todo \ {r})
  /\ UNCHANGED <<clock, startedAt, result, invoked, covered, crashes>>

(* covered moves on when the pass looked back as far as where it stood.     *)
PassEnd(p) ==
  /\ At(p, "claim") /\ pass[p].todo = {}
  /\ covered' = IF pass[p].now - MissedLookback <= covered /\ covered < pass[p].now
                THEN pass[p].now ELSE covered
  /\ pass' = [pass EXCEPT ![p] = Idle]
  /\ UNCHANGED <<clock, rowVars, result, invoked, crashes>>

-----------------------------------------------------------------------------
(* The processes' memory is lost; the rows stay.                           *)
Crash(p) ==
  /\ crashes < MaxCrashes
  /\ ~At(p, "idle")
  /\ crashes' = crashes + 1
  /\ pass' = [pass EXCEPT ![p] = Idle]
  /\ UNCHANGED <<clock, rowVars, result, invoked, covered>>

(* For the bound on the clock only: what p does next needs no more time.   *)
HoldsTimeUp(p) ==
  /\ ~At(p, "idle") /\ pass[p].now < Calm
  /\ At(p, "run") => \A r \in pass[p].run : clock >= startedAt[r] + Deadline

Advance ==
  /\ clock < MaxTime
  /\ clock >= Calm => \A p \in Procs : ~HoldsTimeUp(p)
  /\ clock' = clock + 1
  /\ UNCHANGED <<rowVars, result, invoked, pass, covered, crashes>>

PassStep(p) ==
  \/ PassStart(p) \/ ScanOne(p) \/ RecordMissed(p) \/ ScanEnd(p)
  \/ SelectStale(p) \/ MarkStale(p) \/ StaleEnd(p)
  \/ Claim(p) \/ Start(p) \/ Finish(p) \/ PassEnd(p)

Next ==
  \/ \E p \in Procs : PassStep(p) \/ HandlerEnds(p) \/ Crash(p)
  \/ Advance

Spec == Init /\ [][Next]_vars

(* serve polls on a timer and a pass goes on by itself; a handler need not
   end.                                                                    *)
FairSpec == Spec /\ WF_vars(Advance) /\ \A p \in Procs : WF_vars(PassStep(p))

-----------------------------------------------------------------------------
(* What the scheduler guarantees.                                          *)

Final == {"succeeded", "failed", "missed"}

(* scheduler.ts:17-19: duplicate execution is impossible across ticks,
   processes and reboots.                                                  *)
InvokedOnce == \A r \in Runs : invoked[r] <= 1

(* A row and the ledger tell the same story: the last lifecycle event is
   the one of the row's status, whoever wrote it and in whatever order.    *)
LedgerAgrees ==
  \A r \in Runs : ledger[r] =
    CASE status[r] \in {"none", "pending"}     -> "none"
      [] status[r] = "running"                 -> "job.started"
      [] status[r] \in {"succeeded", "failed"} -> "job.finished"
      [] status[r] = "missed"                  -> "job.missed"

(* No scheduled instant slips between the due window and the missed window
   (scheduler.ts:136, 207): as long as no two completed passes start further
   apart than MissedLookback, whatever was due by then has a row, whatever
   crashed in between.                                                     *)
NothingSlips == \A r \in Runs : For[r] \in 1..covered => status[r] # "none"

(* A claimed run is settled in the end, whatever its process and its
   handler do, because a later pass finds its claim expired.               *)
ClaimsSettle ==
  \A r \in Runs : status[r] \in {"pending", "running"} ~> status[r] \in Final

-----------------------------------------------------------------------------
(* Runs of one job, named by the instants they are scheduled for.          *)
OfOneJob == [r \in Runs |-> r]

=============================================================================
