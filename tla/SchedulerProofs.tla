--------------------------- MODULE SchedulerProofs ---------------------------
(***************************************************************************)
(* Theorems about the scheduler for any set of processes and runs, any     *)
(* windows and deadline, and any number of crashes.                        *)
(***************************************************************************)
EXTENDS Scheduler, TLAPS

USE DEF Never

(* First picks from the runs a loop has left.                              *)
LEMMA FirstIsLeft == \A todo : First(todo) \subseteq todo
  BY DEF First

LEMMA OutcomesAreFinal == \A r : Outcomes(r) \subseteq {"succeeded", "failed"}
  BY DEF Outcomes

(* A window is a set of runs.                                              *)
LEMMA WindowType == \A end, lookback : Window(end, lookback) \subseteq Runs
  BY DEF Window

(* What moving on in the pass does to the passes.                          *)
LEMMA GoToMoves ==
  ASSUME TypeOK, NEW p \in Procs, NEW pc \in Pc, NEW todo \in SUBSET Runs,
         GoTo(p, pc, todo)
  PROVE  /\ pass' \in [Procs -> Pass]
         /\ pass'[p] = [pc |-> pc, now |-> pass[p].now, todo |-> todo, run |-> {}]
         /\ \A q \in Procs : q # p => pass'[q] = pass[q]
  BY DEF GoTo, TypeOK, Pass

LEMMA TakeUpMoves ==
  ASSUME TypeOK, NEW p \in Procs, NEW pc \in Pc, NEW r \in Runs,
         TakeUp(p, pc, r)
  PROVE  /\ pass' \in [Procs -> Pass]
         /\ pass'[p] = [pc |-> pc, now |-> pass[p].now,
                        todo |-> pass[p].todo, run |-> {r}]
         /\ \A q \in Procs : q # p => pass'[q] = pass[q]
  BY DEF TakeUp, TypeOK, Pass

-----------------------------------------------------------------------------
LEMMA TypeStep == TypeOK /\ [Next]_vars => TypeOK'
<1>. SUFFICES ASSUME TypeOK, [Next]_vars PROVE TypeOK'
  OBVIOUS
<1>. USE DEF TypeOK, Pass, Pc, Status
<1>1. ASSUME NEW p \in Procs, PassStart(p) PROVE TypeOK'
  BY <1>1, WindowType DEF PassStart, rowVars
<1>2. ASSUME NEW p \in Procs, ScanOne(p) PROVE TypeOK'
  <2>1. PICK r \in pass[p].todo :
          \/ GoTo(p, "scan", pass[p].todo \ {r})
          \/ TakeUp(p, "record", r)
    BY <1>2 DEF ScanOne
  <2>2. r \in Runs
    BY DEF TypeOK, Pass
  <2>3. pass' \in [Procs -> Pass]
    BY <2>1, <2>2 DEF GoTo, TakeUp
  <2>. QED
    BY <1>2, <2>3 DEF ScanOne, rowVars
<1>3. ASSUME NEW p \in Procs, RecordMissed(p) PROVE TypeOK'
  BY <1>3 DEF RecordMissed, GoTo, At, Idle, Write
<1>4. ASSUME NEW p \in Procs, ScanEnd(p) \/ SelectStale(p) PROVE TypeOK'
  <2>1. PICK todo \in SUBSET Runs, pc \in Pc : GoTo(p, pc, todo)
    BY <1>4 DEF ScanEnd, SelectStale
  <2>2. pass' \in [Procs -> Pass]
    BY <2>1 DEF GoTo
  <2>. QED
    BY <1>4, <2>2 DEF ScanEnd, SelectStale, rowVars
<1>5. ASSUME NEW p \in Procs, MarkStale(p) PROVE TypeOK'
  BY <1>5 DEF MarkStale, GoTo, At, Write
<1>6. ASSUME NEW p \in Procs, StaleEnd(p) PROVE TypeOK'
  <2>. DEFINE due == Window(pass[p].now, DueLookback)
  <2>1. due \in SUBSET Runs
    BY WindowType
  <2>. HIDE DEF due
  <2>2. GoTo(p, "claim", due)
    BY <1>6 DEF StaleEnd, due
  <2>3. pass' \in [Procs -> Pass]
    BY <2>1, <2>2, GoToMoves DEF Pc
  <2>. QED
    BY <1>6, <2>3 DEF StaleEnd, rowVars
<1>7. ASSUME NEW p \in Procs, Claim(p) PROVE TypeOK'
  <2>1. PICK r \in First(pass[p].todo) :
          /\ GoTo(p, "claim", pass[p].todo \ {r}) \/ TakeUp(p, "start", r)
          /\ status' = [status EXCEPT ![r] = "pending"] \/ UNCHANGED status
    BY <1>7 DEF Claim
  <2>2. r \in Runs
    BY FirstIsLeft DEF TypeOK, Pass
  <2>3. pass' \in [Procs -> Pass]
    BY <2>1, <2>2 DEF GoTo, TakeUp
  <2>4. status' \in [Runs -> Status]
    BY <2>1
  <2>. QED
    BY <1>7, <2>3, <2>4 DEF Claim
<1>8. ASSUME NEW p \in Procs, Start(p) PROVE TypeOK'
  <2>0. pass' = [pass EXCEPT ![p].pc = "run"]
    BY <1>8 DEF Start
  <2>1. pass' \in [Procs -> Pass]
    BY <2>0
  <2>2. PICK r \in pass[p].run : Write(r, "running", "job.started")
                  /\ startedAt' = [startedAt EXCEPT ![r] = clock]
                  /\ invoked' = [invoked EXCEPT ![r] = @ + 1]
    BY <1>8 DEF Start
  <2>3. /\ status' \in [Runs -> Status]
        /\ ledger' \in [Runs -> {"none", "job.started", "job.finished", "job.missed"}]
        /\ startedAt' \in [Runs -> Nat \cup {Never}]
        /\ invoked' \in [Runs -> Nat]
    BY <2>2 DEF Write
  <2>. QED
    BY <1>8, <2>1, <2>3 DEF Start
<1>9. ASSUME NEW p \in Procs, Finish(p) PROVE TypeOK'
  BY <1>9, OutcomesAreFinal DEF Finish, Write, GoTo, At
<1>10. ASSUME NEW p \in Procs, PassEnd(p) PROVE TypeOK'
  BY <1>10 DEF PassEnd, Idle, rowVars
<1>11. ASSUME NEW p \in Procs, HandlerEnds(p) PROVE TypeOK'
  BY <1>11 DEF HandlerEnds, rowVars
<1>12. ASSUME NEW p \in Procs, Crash(p) PROVE TypeOK'
  BY <1>12 DEF Crash, Idle, rowVars
<1>13. CASE Advance
  BY <1>13 DEF Advance, rowVars
<1>14. CASE UNCHANGED vars
  BY <1>14 DEF vars, rowVars
<1>. QED
  BY <1>1, <1>2, <1>3, <1>4, <1>5, <1>6, <1>7, <1>8, <1>9, <1>10, <1>11,
     <1>12, <1>13, <1>14 DEF Next, PassStep

(* Every reachable state of the scheduler is well typed.                   *)
THEOREM TypeCorrect == Spec => []TypeOK
<1>1. Init => TypeOK
  BY DEF Init, TypeOK, Pass, Pc, Status, Idle
<1>. QED
  BY <1>1, TypeStep, PTL DEF Spec

-----------------------------------------------------------------------------
(* No duplicate execution.  A process at "start" owns its run: the row is
   there, the handler was not called, and no other process is at "start"
   with the same run.                                                      *)

Unclaimed == \A r \in Runs : status[r] = "none" => invoked[r] = 0

Owned == \A p \in Procs : At(p, "start") =>
           \A r \in pass[p].run : status[r] # "none" /\ invoked[r] = 0

OwnedByOne ==
  \A p, q \in Procs : At(p, "start") /\ At(q, "start") /\ p # q
                        => pass[p].run \cap pass[q].run = {}

OnceInv == Unclaimed /\ Owned /\ OwnedByOne /\ InvokedOnce

(* A row that is there stays.                                              *)
LEMMA RowsStay ==
  ASSUME TypeOK, [Next]_vars, NEW r \in Runs, status[r] # "none"
  PROVE  status'[r] # "none"
<1>. USE DEF TypeOK
<1>1. ASSUME NEW p \in Procs, RecordMissed(p) PROVE status'[r] # "none"
  BY <1>1 DEF RecordMissed, Write
<1>2. ASSUME NEW p \in Procs, MarkStale(p) PROVE status'[r] # "none"
  BY <1>2 DEF MarkStale, Write
<1>3. ASSUME NEW p \in Procs, Claim(p) PROVE status'[r] # "none"
  BY <1>3 DEF Claim
<1>4. ASSUME NEW p \in Procs, Start(p) PROVE status'[r] # "none"
  BY <1>4 DEF Start, Write
<1>5. ASSUME NEW p \in Procs, Finish(p) PROVE status'[r] # "none"
  BY <1>5, OutcomesAreFinal DEF Finish, Write
<1>6. ASSUME NEW p \in Procs,
             PassStart(p) \/ ScanOne(p) \/ ScanEnd(p) \/ SelectStale(p)
             \/ StaleEnd(p) \/ PassEnd(p) \/ HandlerEnds(p) \/ Crash(p)
      PROVE  status'[r] # "none"
  BY <1>6 DEF PassStart, ScanOne, ScanEnd, SelectStale, StaleEnd, PassEnd,
              HandlerEnds, Crash, rowVars
<1>7. CASE Advance \/ UNCHANGED vars
  BY <1>7 DEF Advance, vars, rowVars
<1>. QED
  BY <1>1, <1>2, <1>3, <1>4, <1>5, <1>6, <1>7 DEF Next, PassStep

(* A step that calls no handler and brings no process to "start" keeps the
   ownership.                                                              *)
LEMMA QuietStep ==
  ASSUME TypeOK, OnceInv, [Next]_vars, UNCHANGED invoked,
         \A p \in Procs : pass'[p].pc = "start" => pass'[p] = pass[p]
  PROVE  OnceInv'
<1>1. \A r \in Runs : status[r] # "none" => status'[r] # "none"
  BY RowsStay
<1>2. Unclaimed'
  BY <1>1 DEF OnceInv, Unclaimed
<1>3. Owned'
  BY <1>1 DEF OnceInv, Owned, At, TypeOK, Pass
<1>4. OwnedByOne'
  BY DEF OnceInv, OwnedByOne, At
<1>5. InvokedOnce'
  BY DEF OnceInv, InvokedOnce
<1>. QED
  BY <1>2, <1>3, <1>4, <1>5 DEF OnceInv

LEMMA OnceStep == TypeOK /\ OnceInv /\ [Next]_vars => OnceInv'
<1>. SUFFICES ASSUME TypeOK, OnceInv, [Next]_vars PROVE OnceInv'
  OBVIOUS
<1>. DEFINE Quiet == UNCHANGED invoked
                     /\ \A p \in Procs : pass'[p].pc = "start" => pass'[p] = pass[p]
<1>0. Quiet => OnceInv'
  BY QuietStep
<1>1. ASSUME NEW p \in Procs, PassStart(p) \/ ScanOne(p) PROVE Quiet
  <2>1. UNCHANGED invoked /\ \A q \in Procs \ {p} : pass'[q] = pass[q]
    BY <1>1 DEF PassStart, ScanOne, GoTo, TakeUp, TypeOK
  <2>2. pass'[p].pc # "start"
    BY <1>1 DEF PassStart, ScanOne, GoTo, TakeUp, TypeOK, Pass
  <2>. QED
    BY <2>1, <2>2
<1>2. ASSUME NEW p \in Procs, RecordMissed(p) \/ MarkStale(p) \/ Finish(p)
      PROVE  Quiet
  <2>1. UNCHANGED invoked /\ \A q \in Procs \ {p} : pass'[q] = pass[q]
    BY <1>2 DEF RecordMissed, MarkStale, Finish, GoTo, TypeOK
  <2>2. pass'[p].pc # "start"
    BY <1>2 DEF RecordMissed, MarkStale, Finish, GoTo, Idle, TypeOK, Pass
  <2>. QED
    BY <2>1, <2>2
<1>3. ASSUME NEW p \in Procs, ScanEnd(p) \/ SelectStale(p) \/ StaleEnd(p)
      PROVE  Quiet
  <2>1. UNCHANGED invoked /\ \A q \in Procs \ {p} : pass'[q] = pass[q]
    BY <1>3 DEF ScanEnd, SelectStale, StaleEnd, GoTo, TypeOK
  <2>2. pass'[p].pc # "start"
    BY <1>3 DEF ScanEnd, SelectStale, StaleEnd, GoTo, TypeOK, Pass
  <2>. QED
    BY <2>1, <2>2
<1>4. ASSUME NEW p \in Procs, PassEnd(p) \/ Crash(p) \/ HandlerEnds(p)
      PROVE  Quiet
  BY <1>4 DEF PassEnd, Crash, HandlerEnds, Idle, TypeOK, Pass, At
<1>5. CASE Advance \/ UNCHANGED vars
  <2>1. UNCHANGED <<invoked, pass>>
    BY <1>5 DEF Advance, vars, rowVars
  <2>. QED
    BY <2>1, <1>0
<1>6. ASSUME NEW p \in Procs, Claim(p) PROVE OnceInv'
  <2>1. PICK r \in First(pass[p].todo) :
          \/ /\ MayClaim(r)
             /\ status' = [status EXCEPT ![r] = "pending"]
             /\ TakeUp(p, "start", r)
          \/ /\ ~MayClaim(r)
             /\ GoTo(p, "claim", pass[p].todo \ {r})
             /\ UNCHANGED status
    BY <1>6 DEF Claim
  <2>2. r \in Runs
    BY FirstIsLeft DEF TypeOK, Pass
  <2>3. UNCHANGED invoked
    BY <1>6 DEF Claim
  <2>4. CASE MayClaim(r)
    <3>1. /\ status[r] = "none"
          /\ status' = [status EXCEPT ![r] = "pending"]
          /\ TakeUp(p, "start", r)
      BY <2>1, <2>4 DEF MayClaim
    <3>2. invoked[r] = 0
      BY <3>1, <2>2 DEF OnceInv, Unclaimed
    <3>3. \A q \in Procs : At(q, "start") => r \notin pass[q].run
      BY <3>1 DEF OnceInv, Owned
    <3>4. pass'[p].run = {r} /\ \A q \in Procs \ {p} : pass'[q] = pass[q]
      BY <3>1 DEF TakeUp, TypeOK
    <3>5. Unclaimed' /\ InvokedOnce'
      BY <3>1, <2>2, <2>3 DEF OnceInv, Unclaimed, InvokedOnce, TypeOK
    <3>6. Owned'
      BY <3>1, <3>2, <3>4, <2>2, <2>3
         DEF OnceInv, Owned, At, TypeOK, Pass
    <3>7. OwnedByOne'
      BY <3>3, <3>4 DEF OnceInv, OwnedByOne, At
    <3>. QED
      BY <3>5, <3>6, <3>7 DEF OnceInv
  <2>5. CASE ~MayClaim(r)
    BY <2>1, <2>3, <2>5, <1>0 DEF GoTo, TypeOK, Pass
  <2>. QED
    BY <2>4, <2>5
<1>7. ASSUME NEW p \in Procs, Start(p) PROVE OnceInv'
  <2>1. PICK r \in pass[p].run :
          /\ Write(r, "running", "job.started")
          /\ invoked' = [invoked EXCEPT ![r] = @ + 1]
    BY <1>7 DEF Start
  <2>2. r \in Runs /\ invoked[r] = 0 /\ status[r] # "none" /\ At(p, "start")
    BY <1>7 DEF Start, TypeOK, Pass, OnceInv, Owned
  <2>3. /\ pass'[p].pc = "run"
        /\ \A q \in Procs \ {p} : pass'[q] = pass[q]
    BY <1>7 DEF Start, TypeOK, Pass
  <2>4. \A q \in Procs \ {p} : At(q, "start") => r \notin pass[q].run
    BY <2>2 DEF OnceInv, OwnedByOne
  <2>5. /\ \A s \in Runs : s # r => invoked'[s] = invoked[s]
        /\ invoked'[r] = 1
        /\ \A s \in Runs : status[s] # "none" => status'[s] # "none"
        /\ status'[r] = "running"
        /\ \A s \in Runs : s # r => status'[s] = status[s]
    BY <2>1, <2>2 DEF TypeOK, Write
  <2>6. Unclaimed' /\ InvokedOnce'
    BY <2>5 DEF OnceInv, Unclaimed, InvokedOnce
  <2>7. Owned'
    BY <2>3, <2>4, <2>5 DEF OnceInv, Owned, At, TypeOK, Pass
  <2>8. OwnedByOne'
    BY <2>3 DEF OnceInv, OwnedByOne, At
  <2>. QED
    BY <2>6, <2>7, <2>8 DEF OnceInv
<1>. QED
  BY <1>0, <1>1, <1>2, <1>3, <1>4, <1>5, <1>6, <1>7 DEF Next, PassStep

(* scheduler.ts:17-19: no run is executed twice, whichever processes tick
   and die, in whatever order.                                             *)
THEOREM NoDuplicateExecution == Spec => []InvokedOnce
<1>1. Init => OnceInv
  BY DEF Init, OnceInv, Unclaimed, Owned, OwnedByOne, InvokedOnce, At, Idle
<1>2. OnceInv => InvokedOnce
  BY DEF OnceInv
<1>. QED
  BY <1>1, <1>2, OnceStep, TypeCorrect, PTL DEF Spec

-----------------------------------------------------------------------------
(* The row and the ledger.                                                 *)

LEMMA AgreeStep == TypeOK /\ LedgerAgrees /\ [Next]_vars => LedgerAgrees'
<1>. SUFFICES ASSUME TypeOK, LedgerAgrees, [Next]_vars PROVE LedgerAgrees'
  OBVIOUS
<1>. USE DEF TypeOK, LedgerAgrees
<1>1. ASSUME NEW r \in Runs, Write(r, "missed", "job.missed")
      PROVE  LedgerAgrees'
  BY <1>1 DEF Write
<1>2. ASSUME UNCHANGED <<status, ledger>> PROVE LedgerAgrees'
  BY <1>2
<1>3. ASSUME NEW p \in Procs, RecordMissed(p) PROVE LedgerAgrees'
  BY <1>1, <1>2, <1>3 DEF RecordMissed, Pass
<1>4. ASSUME NEW p \in Procs, MarkStale(p) PROVE LedgerAgrees'
  BY <1>1, <1>4 DEF MarkStale, Pass
<1>5. ASSUME NEW p \in Procs, Claim(p) PROVE LedgerAgrees'
  <2>1. PICK r \in First(pass[p].todo) :
          \/ MayClaim(r) /\ status' = [status EXCEPT ![r] = "pending"]
          \/ UNCHANGED status
    BY <1>5 DEF Claim
  <2>2. r \in Runs
    BY FirstIsLeft DEF Pass
  <2>3. UNCHANGED ledger
    BY <1>5 DEF Claim
  <2>4. CASE UNCHANGED status
    BY <1>2, <2>3, <2>4
  <2>5. CASE MayClaim(r) /\ status' = [status EXCEPT ![r] = "pending"]
    BY <2>2, <2>3, <2>5 DEF MayClaim
  <2>. QED
    BY <2>1, <2>4, <2>5
<1>6. ASSUME NEW p \in Procs, Start(p) PROVE LedgerAgrees'
  <2>1. PICK r \in pass[p].run : Write(r, "running", "job.started")
    BY <1>6 DEF Start
  <2>2. r \in Runs
    BY DEF Pass
  <2>. QED
    BY <2>1, <2>2 DEF Write
<1>7. ASSUME NEW p \in Procs, Finish(p) PROVE LedgerAgrees'
  <2>1. PICK r \in pass[p].run : \E outcome \in Outcomes(r) :
          Write(r, outcome, "job.finished")
    BY <1>7 DEF Finish
  <2>2. PICK outcome \in {"succeeded", "failed"} : Write(r, outcome, "job.finished")
    BY <2>1, OutcomesAreFinal
  <2>3. r \in Runs
    BY DEF Pass
  <2>. QED
    BY <2>2, <2>3 DEF Write
<1>8. ASSUME NEW p \in Procs,
             PassStart(p) \/ ScanOne(p) \/ ScanEnd(p) \/ SelectStale(p)
             \/ StaleEnd(p) \/ PassEnd(p) \/ HandlerEnds(p) \/ Crash(p)
      PROVE  UNCHANGED <<status, ledger>>
  BY <1>8 DEF PassStart, ScanOne, ScanEnd, SelectStale, StaleEnd, PassEnd,
              HandlerEnds, Crash, rowVars
<1>9. CASE Advance \/ UNCHANGED vars
  BY <1>9, <1>2 DEF Advance, vars, rowVars
<1>. QED
  BY <1>2, <1>3, <1>4, <1>5, <1>6, <1>7, <1>8, <1>9 DEF Next, PassStep

(* The last lifecycle event of a run is the one of its row's status, though
   several processes write both.                                           *)
THEOREM RowAndLedgerAgree == Spec => []LedgerAgrees
<1>1. Init => LedgerAgrees
  BY DEF Init, LedgerAgrees
<1>. QED
  BY <1>1, AgreeStep, TypeCorrect, PTL DEF Spec

-----------------------------------------------------------------------------
(* No instant slips through.  What a pass has been through has a row.      *)

Older(p) == Window(pass[p].now - DueLookback, MissedLookback - DueLookback)
Newer(p) == Window(pass[p].now, DueLookback)

HasRow(S) == \A r \in S : status[r] # "none"

(* The runs process p is past.                                             *)
Passed(p) ==
  CASE At(p, "idle")                                -> {}
    [] At(p, "scan") \/ At(p, "record")             -> Older(p) \ pass[p].todo
    [] At(p, "select") \/ At(p, "stale")            -> Older(p)
    [] At(p, "claim") \/ At(p, "start") \/ At(p, "run") ->
         Older(p) \cup ((Newer(p) \ pass[p].todo))

(* A run taken up is dropped from todo only once it has a row.             *)
InHand == \A p \in Procs :
            At(p, "start") \/ At(p, "run") => HasRow(pass[p].run)

SlipInv == NothingSlips /\ InHand /\ \A p \in Procs : HasRow(Passed(p))

LEMMA PassedIsRuns == \A p \in Procs : TypeOK => Passed(p) \subseteq Runs
  BY DEF Passed, Older, Newer, Window, TypeOK, Pass, Pc, At

(* Rows stay, so a pass that has not moved is still past what it was.      *)
LEMMA PassedStays ==
  ASSUME TypeOK, [Next]_vars, SlipInv, NEW p \in Procs, pass'[p] = pass[p]
  PROVE  HasRow(Passed(p))' /\
         (At(p, "start")' \/ At(p, "run")' => HasRow(pass[p].run)')
<1>1. Passed(p)' = Passed(p)
  BY DEF Passed, Older, Newer, At
<1>2. pass[p].run \subseteq Runs
  BY DEF TypeOK, Pass
<1>. QED
  BY <1>1, <1>2, PassedIsRuns, RowsStay DEF HasRow, SlipInv, InHand, At

(* What is left to show of a step of process p that does not end its pass. *)
LEMMA SlipByPass ==
  ASSUME TypeOK, [Next]_vars, SlipInv, UNCHANGED covered, NEW p \in Procs,
         \A q \in Procs \ {p} : pass'[q] = pass[q],
         HasRow(Passed(p))',
         At(p, "start")' \/ At(p, "run")' => HasRow(pass[p].run)'
  PROVE  SlipInv'
<1>1. \A q \in Procs \ {p} :
        /\ HasRow(Passed(q))'
        /\ At(q, "start")' \/ At(q, "run")' => HasRow(pass[q].run)'
  BY PassedStays
<1>2. NothingSlips'
  BY RowsStay DEF SlipInv, NothingSlips
<1>. QED
  BY <1>1, <1>2 DEF SlipInv, InHand

LEMMA SlipStep == TypeOK /\ SlipInv /\ [Next]_vars => SlipInv'
<1>. SUFFICES ASSUME TypeOK, SlipInv, [Next]_vars PROVE SlipInv'
  OBVIOUS
<1>0. \A r \in Runs : status[r] # "none" => status'[r] # "none"
  BY RowsStay
<1>1. ASSUME NEW p \in Procs, PassStart(p) PROVE SlipInv'
  <2>1. /\ pass'[p] = [pc |-> "scan", now |-> clock, run |-> {},
                       todo |-> Window(clock - DueLookback,
                                       MissedLookback - DueLookback)]
        /\ \A q \in Procs \ {p} : pass'[q] = pass[q]
        /\ UNCHANGED covered
    BY <1>1 DEF PassStart, TypeOK
  <2>2. Passed(p)' = {} /\ ~At(p, "start")' /\ ~At(p, "run")'
    BY <2>1 DEF Passed, Older, At
  <2>. QED
    BY <2>1, <2>2, SlipByPass DEF HasRow
<1>2. ASSUME NEW p \in Procs, ScanOne(p) PROVE SlipInv'
  <2>1. PICK r \in pass[p].todo :
          \/ status[r] # "none" /\ GoTo(p, "scan", pass[p].todo \ {r})
          \/ TakeUp(p, "record", r)
    BY <1>2 DEF ScanOne
  <2>2. /\ At(p, "scan") /\ UNCHANGED <<covered, status>>
        /\ \A q \in Procs \ {p} : pass'[q] = pass[q]
        /\ pass'[p].now = pass[p].now
        /\ \/ status[r] # "none" /\ pass'[p].pc = "scan"
              /\ pass'[p].todo = pass[p].todo \ {r}
           \/ pass'[p].pc = "record" /\ pass'[p].todo = pass[p].todo
    BY <1>2, <2>1 DEF ScanOne, GoTo, TakeUp, TypeOK, rowVars
  <2>3. Passed(p)' \subseteq Passed(p) \cup {s \in {r} : status[s] # "none"}
    BY <2>2 DEF Passed, Older, At
  <2>4. HasRow(Passed(p))'
    BY <2>2, <2>3 DEF HasRow, SlipInv
  <2>. QED
    BY <2>2, <2>4, SlipByPass DEF At
<1>3. ASSUME NEW p \in Procs, RecordMissed(p) PROVE SlipInv'
  <2>1. PICK r \in pass[p].run :
          \/ /\ Write(r, "missed", "job.missed")
             /\ GoTo(p, "scan", pass[p].todo \ {r})
          \/ pass' = [pass EXCEPT ![p] = Idle]
    BY <1>3 DEF RecordMissed
  <2>2. /\ At(p, "record") /\ UNCHANGED covered /\ r \in Runs
        /\ \A q \in Procs \ {p} : pass'[q] = pass[q]
        /\ \/ /\ pass'[p].now = pass[p].now /\ status'[r] # "none"
              /\ pass'[p].pc = "scan"
              /\ pass'[p].todo = pass[p].todo \ {r}
           \/ pass'[p].pc = "idle"
    BY <1>3, <2>1 DEF RecordMissed, GoTo, Write, Idle, TypeOK, Pass
  <2>3. Passed(p)' \subseteq Passed(p) \cup {s \in {r} : status'[s] # "none"}
    BY <2>2 DEF Passed, Older, At
  <2>4. HasRow(Passed(p))'
    BY <2>3, <1>0, PassedIsRuns DEF HasRow, SlipInv
  <2>. QED
    BY <2>2, <2>4, SlipByPass DEF At
<1>4. ASSUME NEW p \in Procs,
             ScanEnd(p) \/ SelectStale(p) \/ MarkStale(p) \/ StaleEnd(p)
      PROVE  SlipInv'
  <2>1. /\ UNCHANGED covered /\ pass'[p].now = pass[p].now
        /\ \A q \in Procs \ {p} : pass'[q] = pass[q]
        /\ \/ /\ At(p, "scan") /\ pass[p].todo = {}
              /\ pass'[p].pc = "select"
           \/ At(p, "select") /\ pass'[p].pc = "stale"
           \/ At(p, "stale") /\ pass'[p].pc = "stale"
           \/ /\ At(p, "stale") /\ pass'[p].pc = "claim"
              /\ pass'[p].todo = Newer(p)
    BY <1>4 DEF ScanEnd, SelectStale, MarkStale, StaleEnd, GoTo, TypeOK, At,
                Newer
  <2>2. Passed(p)' \subseteq Passed(p)
    BY <2>1 DEF Passed, Older, Newer, At
  <2>3. HasRow(Passed(p))'
    BY <2>2, <1>0, PassedIsRuns DEF HasRow, SlipInv
  <2>. QED
    BY <2>1, <2>3, SlipByPass DEF At
<1>5. ASSUME NEW p \in Procs, Claim(p) PROVE SlipInv'
  <2>1. PICK r \in First(pass[p].todo) :
          \/ /\ status' = [status EXCEPT ![r] = "pending"]
             /\ TakeUp(p, "start", r)
          \/ /\ ~MayClaim(r) /\ UNCHANGED status
             /\ GoTo(p, "claim", pass[p].todo \ {r})
    BY <1>5 DEF Claim
  <2>2. r \in Runs
    BY FirstIsLeft DEF TypeOK, Pass
  <2>3. /\ At(p, "claim") /\ UNCHANGED covered
        /\ status'[r] # "none"
        /\ \A q \in Procs \ {p} : pass'[q] = pass[q]
        /\ pass'[p].now = pass[p].now
        /\ \/ pass'[p].pc = "start" /\ pass'[p].todo = pass[p].todo
              /\ pass'[p].run = {r}
           \/ pass'[p].pc = "claim" /\ pass'[p].todo = pass[p].todo \ {r}
    BY <1>5, <2>1, <2>2 DEF Claim, MayClaim, GoTo, TakeUp, TypeOK
  <2>4. Passed(p)' \subseteq Passed(p) \cup {r}
    BY <2>3 DEF Passed, Older, Newer, At
  <2>5. HasRow(Passed(p))'
    BY <2>3, <2>4, <1>0, PassedIsRuns DEF HasRow, SlipInv
  <2>6. At(p, "start")' \/ At(p, "run")' => HasRow(pass[p].run)'
    BY <2>3 DEF HasRow, At
  <2>. QED
    BY <2>3, <2>5, <2>6, SlipByPass
<1>6. ASSUME NEW p \in Procs, Start(p) \/ Finish(p) PROVE SlipInv'
  <2>1. PICK r \in pass[p].run :
          \/ pass' = [pass EXCEPT ![p].pc = "run"]
          \/ GoTo(p, "claim", pass[p].todo \ {r})
    BY <1>6 DEF Start, Finish
  <2>2. At(p, "start") \/ At(p, "run")
    BY <1>6 DEF Start, Finish
  <2>3. /\ UNCHANGED covered /\ r \in Runs
        /\ \A q \in Procs \ {p} : pass'[q] = pass[q]
        /\ pass'[p].now = pass[p].now
        /\ \/ /\ pass'[p].pc = "run" /\ pass'[p].todo = pass[p].todo
              /\ pass'[p].run = pass[p].run
           \/ pass'[p].pc = "claim" /\ pass'[p].todo = pass[p].todo \ {r}
    BY <1>6, <2>1 DEF Start, Finish, GoTo, TypeOK, Pass
  <2>4. Passed(p)' \subseteq Passed(p) \cup {r}
    BY <2>2, <2>3 DEF Passed, Older, Newer, At
  <2>5. HasRow(pass[p].run)
    BY <2>2 DEF SlipInv, InHand
  <2>6. \A s \in pass[p].run : status'[s] # "none"
    BY <2>5, <1>0 DEF HasRow, TypeOK, Pass
  <2>7. HasRow(Passed(p))'
    BY <2>4, <2>6, <1>0, PassedIsRuns DEF HasRow, SlipInv
  <2>8. At(p, "start")' \/ At(p, "run")' => HasRow(pass[p].run)'
    BY <2>3, <2>6 DEF HasRow, At
  <2>. QED
    BY <2>3, <2>7, <2>8, SlipByPass
<1>7. ASSUME NEW p \in Procs, PassEnd(p) PROVE SlipInv'
  <2>1. /\ At(p, "claim") /\ pass[p].todo = {} /\ UNCHANGED status
        /\ pass'[p].pc = "idle"
        /\ \A q \in Procs \ {p} : pass'[q] = pass[q]
    BY <1>7 DEF PassEnd, Idle, TypeOK, rowVars
  <2>2. HasRow(Passed(p))'
    BY <2>1 DEF Passed, HasRow, At
  <2>3. HasRow(Older(p) \cup Newer(p))
    BY <2>1 DEF SlipInv, Passed, At
  <2>4. ASSUME NEW r \in Runs, For[r] \in 1..pass[p].now,
               pass[p].now - MissedLookback <= covered
        PROVE  status[r] # "none"
    <3>1. /\ For[r] \in Nat /\ DueLookback \in Nat /\ MissedLookback \in Nat
          /\ pass[p].now \in Nat /\ covered \in Nat
      BY RunsAssumption DEF TypeOK, Pass
    <3>2. \/ For[r] \in 1..covered
          \/ r \in Older(p) \cup Newer(p)
      BY <2>4, <3>1 DEF Older, Newer, Window
    <3>. QED
      BY <3>2, <2>3 DEF HasRow, SlipInv, NothingSlips
  <2>5. NothingSlips'
    BY <1>7, <2>1, <2>4 DEF PassEnd, SlipInv, NothingSlips
  <2>6. \A q \in Procs \ {p} :
          /\ HasRow(Passed(q))'
          /\ At(q, "start")' \/ At(q, "run")' => HasRow(pass[q].run)'
    BY <2>1, PassedStays
  <2>. QED
    BY <2>1, <2>2, <2>5, <2>6 DEF SlipInv, InHand, At
<1>8. ASSUME NEW p \in Procs, Crash(p) PROVE SlipInv'
  <2>1. /\ pass'[p].pc = "idle" /\ UNCHANGED covered
        /\ \A q \in Procs \ {p} : pass'[q] = pass[q]
    BY <1>8 DEF Crash, Idle, TypeOK
  <2>2. HasRow(Passed(p))' /\ ~At(p, "start")' /\ ~At(p, "run")'
    BY <2>1 DEF Passed, HasRow, At
  <2>. QED
    BY <2>1, <2>2, SlipByPass
<1>9. ASSUME UNCHANGED <<status, pass, covered>> PROVE SlipInv'
  BY <1>9 DEF SlipInv, NothingSlips, InHand, HasRow, Passed, Older, Newer, At
<1>10. ASSUME NEW p \in Procs, HandlerEnds(p) PROVE SlipInv'
  BY <1>9, <1>10 DEF HandlerEnds, rowVars
<1>11. CASE Advance \/ UNCHANGED vars
  BY <1>9, <1>11 DEF Advance, vars, rowVars
<1>. QED
  BY <1>1, <1>2, <1>3, <1>4, <1>5, <1>6, <1>7, <1>8, <1>10, <1>11
     DEF Next, PassStep

(* scheduler.ts:136, 207: the due window and the missed window meet, so
   nothing scheduled goes without a row as long as passes complete no
   further apart than the missed lookback.                                 *)
THEOREM NoInstantSlips == Spec => []NothingSlips
<1>1. Init => SlipInv
  BY RunsAssumption DEF Init, SlipInv, NothingSlips, InHand, HasRow, Passed, At, Idle
<1>2. SlipInv => NothingSlips
  BY DEF SlipInv
<1>. QED
  BY <1>1, <1>2, SlipStep, TypeCorrect, PTL DEF Spec

=============================================================================
