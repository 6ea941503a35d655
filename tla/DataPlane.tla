-------------------------------- MODULE DataPlane --------------------------------
(***************************************************************************)
(* The ingest of market data: the serve loop's job and the command line,   *)
(* each a sequence of runs (packages/core/src/ingest/run.ts), over one     *)
(* artifact store and one table of observations, and the verification that *)
(* quarantines what rests on a lost artifact (data/artifacts/verify.ts).   *)
(*                                                                         *)
(* A content is the set of <<symbol, session>> it carries: the bars and    *)
(* the actions of a range are read from the same bytes.                    *)
(***************************************************************************)
EXTENDS ArtifactStore, Ordered

CONSTANTS Symbols,         \* naturals, in the order of the tickers
          ActionDays,      \* the <<symbol, session>> with a corporate action
          MaxSession,      \* bound on the sessions
          Seeded,          \* the symbols whose first session is stored already
          AutoActions,     \* whether the job fetches actions (autoIngestActions)
          Seeds,           \* the <<end, actions>> an operator seeds with
          MaxSeeds,        \* bound on the runs of the command line
          MaxFaults,       \* bound on crashes, failed requests and lost files
          MaxChecks        \* bound on verifications

ASSUME PlanAssumption ==
  /\ Symbols \subseteq Nat /\ Symbols # {} /\ IsFiniteSet(Symbols)
  /\ MaxSession \in Nat \ {0} /\ Seeded \subseteq Symbols /\ Cardinality(Seeded) <= Budget
  /\ ActionDays \subseteq Symbols \X (1..MaxSession)
  /\ AutoActions \in BOOLEAN
  /\ \A seed \in Seeds : seed[1] \in Nat \cup {-1} /\ seed[2] \in {"tiingo", "none"}

-----------------------------------------------------------------------------
(* What an ingest fetches: the incremental plan of the serve job           *)
(* (packages/core/src/serve.ts), whose cursor is the latest instant a      *)
(* symbol has a row for, and the seed of a universe (ingest/run.ts).       *)
(* Instant 2d is after the close of session d and instant 2d + 1 is while  *)
(* session d + 1 trades.                                                   *)
None == -1

PreviousSession(t) == t \div 2

(* The first session that opens after t.                                   *)
NextSession(t) == (t + 1) \div 2 + 1

(* The sessions to fetch for a symbol: none, or one range.                 *)
NextIngestRange(latest, now) ==
  LET start == NextSession(latest)
      end == PreviousSession(now)
  IN {r \in {<<start, end>>} : latest # None /\ end > PreviousSession(latest) /\ start <= end}

(* Symbols that share a range are one group; groups in the order of their  *)
(* starts, and they all end at the latest session.  There is one plan.     *)
PlanIncrementalIngest(latest, now) ==
  LET Needs(s) == NextIngestRange(latest[s], now)
      starts == {r[1] : r \in UNION {Needs(s) : s \in DOMAIN latest}}
      Group(range) == [range |-> range, symbols |-> {s \in DOMAIN latest : range \in Needs(s)}]
  IN {[groups |-> [i \in DOMAIN sorted |-> Group(<<sorted[i], PreviousSession(now)>>)],
       noData |-> {s \in DOMAIN latest : latest[s] = None},
       upToDate |-> {s \in DOMAIN latest : latest[s] # None /\ Needs(s) = {}}] :
        sorted \in Listings(starts)}

Request(kind, symbols, range) == [kind |-> kind, symbols |-> symbols, range |-> range]

(* Slip: the bars of a group are fetched before its actions.               *)
GroupRequestsBarsFirst(group, withActions) ==
  <<Request("bars", group.symbols, group.range)>>
  \o IF withActions THEN <<Request("actions", group.symbols, group.range)>> ELSE <<>>

(* The actions of a group come before its bars: bars move the cursor.      *)
GroupRequests(group, withActions) ==
  (IF withActions THEN <<Request("actions", group.symbols, group.range)>> ELSE <<>>)
  \o <<Request("bars", group.symbols, group.range)>>

(* Those of every group, one group after another.                          *)
JobRequests(plan, withActions) ==
  LET each == IF withActions THEN 2 ELSE 1
  IN [i \in 1..(each * Len(plan.groups)) |->
        GroupRequests(plan.groups[((i - 1) \div each) + 1], withActions)[((i - 1) % each) + 1]]

(* The seed of a universe over the span of the charter's windows, widened  *)
(* by the lookback; None stands for an option that was not given.  An      *)
(* empty set is a usage error.                                             *)
ResolveUniverseIngest(members, windows, start, end, source, actions, lookback) ==
  LET from == IF start # None THEN start ELSE Min({w[1] : w \in windows}) - lookback
      to == IF end # None THEN end ELSE Max({w[2] : w \in windows})
  IN {plan \in {[symbols |-> members, range |-> <<from, to>>, source |-> source, actions |-> actions]} :
        /\ source \in {"tiingo", "alpaca"} /\ actions \in {"tiingo", "none"}
        /\ actions = "tiingo" => source = "tiingo"
        /\ members # {} /\ windows # {} /\ from <= to}

(* The command seeds the bars first.                                       *)
UniverseRequests(plan) ==
  <<Request("bars", plan.symbols, plan.range)>>
  \o IF plan.actions = "tiingo" THEN <<Request("actions", plan.symbols, plan.range)>> ELSE <<>>

-----------------------------------------------------------------------------
VARIABLES clock,
          published,   \* the last session the provider serves, by symbol
          rows,        \* observations of bars and of actions
          ledger,      \* events
          ran,         \* the last session the job has run for
          run,         \* the runs in progress, by process
          check,       \* the verification in progress
          left,        \* what is left of each bound
          seen         \* observers: see Init

vars == <<files, meta, clock, published, rows, ledger, ran, run, check, left, seen>>

Processes == {"serve", "cli"}

(* asked is the actions that were published when the job started (an
   observer).                                                              *)
Idle == [pc |-> "idle", requests |-> <<>>, todo |-> <<>>, obs |-> {}, used |-> Unmeasured,
         content |-> {}, existed |-> FALSE, noData |-> FALSE, asked |-> {}]

NoCheck == [failed |-> {}, marked |-> None]

Event(kind, detail) == <<kind, detail>>

(* A bar is available from its close on, an action from its ex-date on.     *)
Observation(kind, at, art) ==
  [kind |-> kind, sym |-> at[1], session |-> at[2], art |-> art, missing |-> FALSE,
   avail |-> IF kind = "bars" THEN 2 * at[2] ELSE 2 * at[2] - 1]

(* The answer that holds the first session of a symbol.                    *)
First(s) == {<<s, 1>>}

(* seen.bars is the action days among the bars of the job, of what asked
   holds.                                                                  *)
Init ==
  /\ files = [c \in {First(s) : s \in Seeded} |-> "good"] /\ meta = {First(s) : s \in Seeded}
  /\ clock = 2
  /\ published = [s \in Symbols |-> IF s \in Seeded THEN 1 ELSE 0]
  /\ rows = {Observation("bars", <<s, 1>>, First(s)) : s \in Seeded} /\ ledger = {} /\ ran = 0
  /\ run = [p \in Processes |-> Idle]
  /\ check = NoCheck
  /\ left = [seeds |-> MaxSeeds, faults |-> MaxFaults, checks |-> MaxChecks]
  /\ seen = [bars |-> {}]

Spend(what) == left[what] > 0 /\ left' = [left EXCEPT ![what] = @ - 1]

-----------------------------------------------------------------------------
(* The table of observations.                                              *)

(* The hash of the artifact is part of what tells two rows apart.          *)
SameRow(a, b) == [a EXCEPT !.avail = 0] = [b EXCEPT !.avail = 0]

Appended(new) == rows \cup {o \in new : \A r \in rows : ~SameRow(r, o)}

(* Slip: the cursor of the source serves every symbol.                     *)
LatestOfSource(s) == Max({r.avail : r \in {x \in rows : x.kind = "bars"}} \cup {None})

(* latestAvailableAt of the bars, over every row, quarantined ones too.    *)
LatestAvailable(s) == Max({r.avail : r \in {x \in rows : x.kind = "bars" /\ x.sym = s}} \cup {None})

Parsed(kind, content) ==
  {Observation(kind, at, content) : at \in IF kind = "bars" THEN content ELSE content \cap ActionDays}

-----------------------------------------------------------------------------
(* A run, one request after another.                                       *)

Request1(p) == Head(run[p].requests)

Goto(p, pc) == run' = [run EXCEPT ![p].pc = pc]

(* A run that fails ends the job or the command: no request follows.       *)
Fail(p) == run' = [run EXCEPT ![p] = Idle]

Refused(p) == Fail(p) /\ ledger' = ledger \cup {Event("ingest.refused_budget", Request1(p).kind)}

(* The job of a session that has closed, claimed once.                     *)
JobStart ==
  /\ clock % 2 = 0 /\ ran < clock \div 2 /\ run["serve"].pc = "idle"
  /\ ran' = clock \div 2
  /\ \E plan \in PlanIncrementalIngest([s \in Symbols |-> LatestAvailable(s)], clock) :
       IF plan.groups = <<>>
       THEN ledger' = ledger \cup {Event("ingest.skipped", "up_to_date")} /\ UNCHANGED run
       ELSE /\ run' = [run EXCEPT !["serve"] =
                         [Idle EXCEPT !.pc = "open", !.requests = JobRequests(plan, AutoActions),
                                      !.noData = plan.noData # {}, !.asked = {at \in ActionDays : at[2] <= published[at[1]]}]]
            /\ UNCHANGED ledger
  /\ UNCHANGED <<files, meta, clock, published, rows, check, left, seen>>

(* ingest universe, from the first session on.                             *)
SeedStart(seed) ==
  /\ run["cli"].pc = "idle" /\ Spend("seeds")
  /\ \E plan \in ResolveUniverseIngest(Symbols, {<<1, MaxSession>>}, 1, seed[1], "tiingo", seed[2], 0) :
       run' = [run EXCEPT !["cli"] = [Idle EXCEPT !.pc = "open", !.requests = UniverseRequests(plan)]]
  /\ UNCHANGED <<files, meta, clock, published, rows, ledger, ran, check, seen>>

(* A store of its own for each request: it measures the disk.              *)
OpenStore(p) ==
  /\ run[p].pc = "open"
  /\ IF WithinBudget(Unmeasured, 0)
     THEN /\ \E todo \in Listings(Request1(p).symbols) :
               run' = [run EXCEPT ![p].pc = "fetch", ![p].used = DiskUsage, ![p].obs = {}, ![p].todo = todo]
          /\ UNCHANGED ledger
     ELSE Refused(p)
  /\ UNCHANGED <<files, meta, clock, published, rows, ran, check, left, seen>>

Measured(p) == run[p].pc \in {"fetch", "row", "read"}

(* What the provider answers for a symbol.                                 *)
Answer(req, s) == {<<s, d>> : d \in {x \in req.range[1]..req.range[2] : x <= published[s]}}

(* The answer of the provider, and put up to the file.                     *)
Fetch(p) ==
  LET c == Answer(Request1(p), Head(run[p].todo))
  IN /\ run[p].pc = "fetch"
     /\ \/ /\ Deduplicated(c)
           /\ run' = [run EXCEPT ![p].pc = "read", ![p].content = c]
           /\ UNCHANGED <<files, ledger>>
        \/ /\ ~Deduplicated(c) /\ MayWrite(run[p].used)
           /\ WriteFile(c)
           /\ run' = [run EXCEPT ![p].pc = "row", ![p].content = c, ![p].existed = c \in meta,
                             ![p].used = @ + 1]
           /\ UNCHANGED ledger
        \/ ~Deduplicated(c) /\ ~MayWrite(run[p].used) /\ Refused(p) /\ UNCHANGED files
     /\ UNCHANGED <<meta, clock, published, rows, ran, check, left, seen>>

(* The request fails for good.                                             *)
FetchFails(p) ==
  /\ run[p].pc = "fetch" /\ Spend("faults") /\ Fail(p)
  /\ UNCHANGED <<files, meta, clock, published, rows, ledger, ran, check, seen>>

(* A row that another process inserted meanwhile is a conflict.            *)
PutRow(p) ==
  /\ run[p].pc = "row"
  /\ IF ~run[p].existed /\ run[p].content \in meta
     THEN Fail(p) /\ UNCHANGED meta
     ELSE Goto(p, "read") /\ InsertRow(run[p].content)
  /\ UNCHANGED <<files, clock, published, rows, ledger, ran, check, left, seen>>

(* The content is read back and parsed.                                    *)
ReadBack(p) ==
  LET c == run[p].content
      rest == Tail(run[p].todo)
  IN /\ run[p].pc = "read"
     /\ IF Verified(c)
        THEN run' = [run EXCEPT ![p].pc = IF rest = <<>> THEN "commit" ELSE "fetch", ![p].todo = rest,
                                ![p].content = {}, ![p].obs = @ \cup Parsed(Request1(p).kind, c)]
        ELSE Fail(p)
     /\ UNCHANGED <<files, meta, clock, published, rows, ledger, ran, check, left, seen>>

(* Every observation of the request, in one transaction.                   *)
Commit(p) ==
  LET bars == {<<o.sym, o.session>> : o \in {x \in run[p].obs : x.kind = "bars"}}
  IN /\ run[p].pc = "commit"
     /\ rows' = Appended(run[p].obs)
     /\ run' = [run EXCEPT ![p].pc = "event", ![p].obs = {}, ![p].used = Unmeasured]
     /\ seen' = [seen EXCEPT !.bars = @ \cup (bars \cap run[p].asked)]
     /\ UNCHANGED <<files, meta, clock, published, ledger, ran, check, left>>

(* The event of the request, a later transaction, and the next request.    *)
Complete(p) ==
  LET rest == Tail(run[p].requests)
      done == Event("ingest.completed", Request1(p).kind)
  IN /\ run[p].pc = "event"
     /\ run' = [run EXCEPT ![p] = IF rest = <<>> THEN Idle
                                  ELSE [Idle EXCEPT !.pc = "open", !.requests = rest,
                                              !.noData = run[p].noData, !.asked = run[p].asked]]
     /\ ledger' = ledger \cup {done}
          \cup IF rest = <<>> /\ run[p].noData THEN {Event("ingest.skipped", "no_data")} ELSE {}
     /\ UNCHANGED <<files, meta, clock, published, rows, ran, check, left, seen>>

Crash(p) ==
  /\ run[p].pc # "idle" /\ Spend("faults") /\ Fail(p)
  /\ UNCHANGED <<files, meta, clock, published, rows, ledger, ran, check, seen>>

-----------------------------------------------------------------------------
(* The verification of the store.                                          *)

Damaged == {c \in meta : ~Verified(c)}

(* A sample that holds the whole store; one without a failure changes
   nothing.                                                                *)
VerifyStart ==
  /\ check = NoCheck /\ Damaged # {} /\ Spend("checks")
  /\ check' = [NoCheck EXCEPT !.failed = Damaged]
  /\ UNCHANGED <<files, meta, clock, published, rows, ledger, ran, run, seen>>

(* markArtifactMissing: available from the detection, or as the original.  *)
ToMark(c) ==
  {[r EXCEPT !.missing = TRUE, !.avail = IF clock > @ THEN clock ELSE @] :
     r \in {x \in rows : x.art = c /\ ~x.missing}}

Mark(c) ==
  /\ c \in check.failed /\ check.marked = None
  /\ rows' = Appended(ToMark(c))
  /\ check' = [check EXCEPT !.marked = Cardinality(Appended(ToMark(c)) \ rows)]
  /\ UNCHANGED <<files, meta, clock, published, ledger, ran, run, left, seen>>

(* The incident, unless nothing is new about it.                           *)
Report(c) ==
  LET incident == Event("artifact.integrity_failed", c)
  IN /\ c \in check.failed /\ check.marked # None
     /\ ledger' = IF check.marked > 0 \/ incident \notin ledger THEN ledger \cup {incident} ELSE ledger
     /\ check' = [failed |-> check.failed \ {c}, marked |-> None]
     /\ UNCHANGED <<files, meta, clock, published, rows, ran, run, left, seen>>

(* One artifact after another, in the order of the hashes.                 *)
Verify == check.failed # {} /\ LET c == CHOOSE x \in check.failed : TRUE IN Mark(c) \/ Report(c)

-----------------------------------------------------------------------------
(* The world: files are lost or damaged, the provider publishes in order,  *)
(* and a run is over well before the next session.                         *)

Lose(c, how) ==
  /\ c \in OnDisk /\ files[c] = "good" /\ Spend("faults")
  /\ files' = [files EXCEPT ![c] = how]
  /\ UNCHANGED <<meta, clock, published, rows, ledger, ran, run, check, seen>>

Publish(s) ==
  /\ published[s] < PreviousSession(clock)
  /\ published' = [published EXCEPT ![s] = @ + 1]
  /\ UNCHANGED <<files, meta, clock, rows, ledger, ran, run, check, left, seen>>

Advance ==
  /\ clock < 2 * MaxSession /\ check = NoCheck
  /\ \A p \in Processes : run[p].pc = "idle"
  /\ clock' = clock + 1
  /\ UNCHANGED <<files, meta, published, rows, ledger, ran, run, check, left, seen>>

Step(p) == OpenStore(p) \/ Fetch(p) \/ FetchFails(p) \/ PutRow(p) \/ ReadBack(p) \/ Commit(p) \/ Complete(p)

Next ==
  \/ JobStart
  \/ \E seed \in Seeds : SeedStart(seed)
  \/ \E p \in Processes : Step(p) \/ Crash(p)
  \/ VerifyStart \/ Verify
  \/ \E c \in OnDisk, how \in {"bad", "gone"} : Lose(c, how)
  \/ \E s \in Symbols : Publish(s)
  \/ Advance

Spec == Init /\ [][Next]_vars

-----------------------------------------------------------------------------
(* What the data plane guarantees.                                         *)

(* store.ts:130-139, run.ts:88: a write is held against the usage its own
   store instance counts, which the writes of the other process do not
   move.  What that leaves of "a hard cap on every write" (store.ts:12-14)
   is one budget for each process, whatever they write at the same time,
   and whatever is lost, restored or left without a row meanwhile.          *)
OverrunIsBounded == DiskUsage <= Cardinality(Processes) * Budget

(* store.ts:104-107: a file whose row a crash left out, and a row whose
   file was lost, do not keep the content from being ingested: a run never
   reads back an undamaged file that has no row.                           *)
OrphansHeal ==
  \A p \in Processes :
    run[p].pc = "read" /\ files[run[p].content] = "good" => Verified(run[p].content)

StoredBars(s) == {r.session : r \in {x \in rows : x.kind = "bars" /\ x.sym = s}}

NoHole(s) == StoredBars(s) = 1..Cardinality(StoredBars(s))

Quarantined(s) == \E r \in rows : r.kind = "bars" /\ r.sym = s /\ r.missing

(* serve.ts:98-101: whatever fails, is late or is seeded meanwhile, no
   session before the last one stored is skipped for a symbol, as long as
   none of its bars was quarantined.                                       *)
CursorLeavesNoHole == \A s \in Symbols : ~Quarantined(s) => NoHole(s)

(* serve.ts:104-107: where a job that fetches actions has moved the cursor
   over a session, the actions of that session are stored, if they were
   published when the job started.                                         *)
ActionsComeFirst ==
  AutoActions => \A at \in seen.bars :
    \E r \in rows : r.kind = "actions" /\ <<r.sym, r.session>> = at

(* serve.ts:98-101, of every symbol, as the comment says it.               *)
CaughtUpFromEarliestMissing == \A s \in Symbols : NoHole(s)

=============================================================================
