---------------------------- MODULE DataPlaneProofs ----------------------------
(***************************************************************************)
(* Proofs about the data plane: for every universe, span of sessions,      *)
(* budget and number of faults, seeds and verifications, the budget of the *)
(* store, the healing of half-done writes, the cursor without holes and    *)
(* the actions stored before the bars that move it.                        *)
(***************************************************************************)
EXTENDS DataPlane, FiniteSetTheorems, SequenceTheorems, WellFoundedInduction, TLAPS

Sessions == 1..MaxSession

Contents == SUBSET (Symbols \X Sessions)

Kinds == {"bars", "actions"}

Row == [kind : Kinds, sym : Symbols, session : Sessions, art : Contents,
        missing : BOOLEAN, avail : 0..(2 * MaxSession)]

Groups == [range : (Nat \ {0}) \X Nat, symbols : (SUBSET Symbols) \ {{}}]

Requests == [kind : Kinds, symbols : (SUBSET Symbols) \ {{}}, range : (Nat \ {0}) \X Nat]

Run == [pc : {"idle", "open", "fetch", "row", "read", "commit", "event"},
        requests : Seq(Requests), todo : Seq(Symbols), obs : SUBSET Row, used : Int,
        content : Contents, existed : BOOLEAN, noData : BOOLEAN, asked : SUBSET ActionDays]

TypeOK ==
  /\ files \in [DOMAIN files -> {"good", "bad", "gone"}]
  /\ DOMAIN files \subseteq Contents /\ IsFiniteSet(DOMAIN files)
  /\ meta \subseteq Contents
  /\ clock \in 0..(2 * MaxSession)
  /\ published \in [Symbols -> Nat]
  /\ \A s \in Symbols : published[s] <= PreviousSession(clock)
  /\ rows \subseteq Row
  /\ run \in [Processes -> Run]
  /\ seen \in [bars : SUBSET ActionDays]

-----------------------------------------------------------------------------
(* The parts of the invariant about one run, r.                            *)

InRange(d, req) == req.range[1] <= d /\ d <= req.range[2]

BarSessions(obs, s) == {o.session : o \in {x \in obs : x.kind = "bars" /\ x.sym = s}}

Holds(obs, kind, at) == \E o \in obs : o.kind = kind /\ o.sym = at[1] /\ o.session = at[2]

(* What a run works on is of its first request, and its files are there.   *)
RunShape(r) ==
  /\ r.pc # "idle" => r.requests # <<>>
  /\ r.pc \in {"fetch", "row", "read"} => r.todo # <<>> /\ r.used \in Nat
  /\ r.pc \in {"commit", "event"} => r.todo = <<>>
  /\ r.pc = "event" => r.obs = {}
  /\ r.pc \in {"fetch", "row", "read", "commit"} =>
       /\ \A n \in DOMAIN r.todo : r.todo[n] \in Head(r.requests).symbols
       /\ \A o \in r.obs : /\ o.kind = Head(r.requests).kind
                           /\ o.sym \in Head(r.requests).symbols
                           /\ InRange(o.session, Head(r.requests))
                           /\ ~o.missing
                           /\ o.kind = "bars" => o.avail = 2 * o.session
  /\ r.pc \in {"row", "read"} => r.content \in DOMAIN files
  /\ r.pc = "read" => r.content \in meta

(* An answer holds the range up to some session, of one symbol; what was   *)
(* read has no holes within the range.                                     *)
RunContiguous(r) ==
  /\ r.pc \in {"row", "read"} =>
       \E e \in 0..MaxSession : /\ e <= Head(r.requests).range[2]
                                  /\ r.content = {<<Head(r.todo), d>> : d \in Head(r.requests).range[1]..e}
  /\ r.pc \in {"fetch", "row", "read", "commit"} =>
       \A o \in r.obs : o.kind = "bars" =>
         Head(r.requests).range[1]..(o.session - 1) \subseteq BarSessions(r.obs, o.sym)

(* The usage a run knows: a run that has not measured may use the budget.  *)
Used(r) == IF r.pc \in {"fetch", "row", "read"} THEN r.used ELSE Budget

(* No session before a range is missing.                                   *)
RunStarts(r, s) ==
  \A i \in DOMAIN r.requests :
    r.requests[i].kind = "bars" /\ s \in r.requests[i].symbols =>
      1..(r.requests[i].range[1] - 1) \subseteq StoredBars(s)

(* The actions asked for come before the bars of their range.              *)
RunPairs(r) ==
  \A at \in r.asked :
    /\ at[2] <= published[at[1]]
    /\ \A i \in DOMAIN r.requests :
         r.requests[i].kind = "bars" /\ at[1] \in r.requests[i].symbols
           /\ InRange(at[2], r.requests[i]) =>
             IF i = 1 THEN Holds(rows, "actions", at)
             ELSE r.requests[i - 1] = [r.requests[i] EXCEPT !.kind = "actions"]

RunGathers(r) ==
  /\ r.pc \in {"fetch", "row", "read", "commit", "event"} /\ Head(r.requests).kind = "actions" =>
       \A at \in r.asked :
         at[1] \in Head(r.requests).symbols /\ InRange(at[2], Head(r.requests)) =>
           \/ \E n \in DOMAIN r.todo : r.todo[n] = at[1]
           \/ Holds(r.obs, "actions", at)
           \/ Holds(rows, "actions", at)
  /\ r.pc \in {"row", "read"} =>
       \A at \in r.asked :
         at[1] = Head(r.todo) /\ InRange(at[2], Head(r.requests)) => at \in r.content

-----------------------------------------------------------------------------
(* The parts about the store and the table.                                *)

BudgetInv ==
  /\ \A p \in Processes : Used(run[p]) \in 0..Budget
  /\ DiskUsage <= Used(run["serve"]) + Used(run["cli"])

ShapeInv == \A p \in Processes : RunShape(run[p]) /\ RunContiguous(run[p])

CursorInv ==
  /\ \A r \in rows : r.kind = "bars" /\ ~r.missing => r.avail = 2 * r.session
  /\ \A s \in Symbols : ~Quarantined(s) =>
       /\ \A d \in StoredBars(s) : 1..(d - 1) \subseteq StoredBars(s)
       /\ \A p \in Processes : RunStarts(run[p], s)

ActionsInv ==
  AutoActions => /\ ActionsComeFirst
                 /\ \A p \in Processes : RunPairs(run[p]) /\ RunGathers(run[p])

-----------------------------------------------------------------------------
(* What a step does to the rest: files, rows of artifacts, observations    *)
(* and publications are added, and at most one run changes.                *)

Grows ==
  /\ DOMAIN files \subseteq (DOMAIN files)' /\ meta \subseteq meta'
  /\ rows \subseteq rows'
  /\ \A s \in Symbols : published[s] <= published'[s]

OnlyRun(p, r) == r \in Run /\ run' = [q \in Processes |-> IF q = p THEN r ELSE run[q]]

LEMMA OtherRuns ==
  ASSUME TypeOK, NEW p \in Processes, NEW r, OnlyRun(p, r)
  PROVE  /\ run' \in [Processes -> Run] /\ run'[p] = r
         /\ \A q \in Processes \ {p} : run'[q] = run[q]
BY DEF TypeOK, OnlyRun

LEMMA IdleIsRun == Idle \in Run /\ Idle.pc = "idle" /\ Idle.requests = <<>>
                   /\ Idle.todo = <<>> /\ Idle.obs = {} /\ Idle.asked = {}
BY DEF Idle, Run, Contents, Unmeasured

LEMMA FailRun ==
  ASSUME TypeOK, NEW p \in Processes, Fail(p)
  PROVE  OnlyRun(p, Idle)
BY IdleIsRun DEF TypeOK, OnlyRun, Fail

(* A sequence that is not empty.                                           *)
LEMMA HeadAndTail ==
  ASSUME NEW S, NEW q \in Seq(S), q # <<>>
  PROVE  /\ Head(q) \in S /\ Head(q) = q[1] /\ 1 \in DOMAIN q
         /\ Tail(q) \in Seq(S)
         /\ \A n \in DOMAIN Tail(q) : n + 1 \in DOMAIN q /\ Tail(q)[n] = q[n + 1]
         /\ \A n \in DOMAIN q : n # 1 => n - 1 \in DOMAIN Tail(q) /\ Tail(q)[n - 1] = q[n]
OBVIOUS

LEMMA ListingIsSeq ==
  ASSUME NEW S, IsFiniteSet(S), NEW q \in Listings(S)
  PROVE  /\ q \in Seq(S) /\ Len(q) = Cardinality(S) /\ Cardinality(S) \in Nat
         /\ \A x \in S : \E n \in DOMAIN q : q[n] = x
         /\ S # {} => q # <<>>
<1>1. Cardinality(S) \in Nat /\ (Cardinality(S) = 0 <=> S = {})
  BY FS_CardinalityType, FS_EmptySet
<1>2. q \in [1..Cardinality(S) -> S] /\ \A x \in S : \E n \in DOMAIN q : q[n] = x
  BY DEF Listings
<1> QED  BY <1>1, <1>2

-----------------------------------------------------------------------------
(* The shape of a run, over the steps.                                     *)

LEMMA ShapeStays ==
  ASSUME Grows, NEW r, RunShape(r)
  PROVE  RunShape(r)'
BY DEF Grows, RunShape

LEMMA ShapeOfOne ==
  ASSUME TypeOK, ShapeInv, Grows, NEW p \in Processes, NEW r, OnlyRun(p, r),
         RunShape(r)', RunContiguous(r)
  PROVE  ShapeInv'
<1>1. ASSUME NEW q \in Processes
      PROVE  RunShape(run[q])' /\ RunContiguous(run[q])'
  <2>1. PICK x : x = run'[q] /\ (x = r \/ x = run[q])
    BY OtherRuns
  <2>2. RunShape(x)' /\ RunContiguous(x)
    <3>1. CASE x = r
      BY <3>1
    <3>2. CASE x = run[q]
      <4>1. RunShape(x) /\ RunContiguous(x)
        BY <3>2 DEF ShapeInv
      <4> QED  BY <4>1, ShapeStays
    <3> QED  BY <2>1, <3>1, <3>2
  <2> QED  BY <2>1, <2>2 DEF RunShape, RunContiguous
<1> QED
  BY <1>1 DEF ShapeInv

LEMMA ShapeOfNone ==
  ASSUME ShapeInv, Grows, run' = run
  PROVE  ShapeInv'
BY DEF ShapeInv, RunShape, RunContiguous, Grows

LEMMA IdleShape == RunShape(Idle) /\ RunContiguous(Idle)
BY IdleIsRun DEF RunShape, RunContiguous

(* The plan's groups are of symbols that have the range to fetch, from the *)
(* session after the latest stored.                                        *)
PlanOf(latest, plan) ==
  /\ plan.groups \in Seq(Groups)
  /\ \A i \in DOMAIN plan.groups : \A s \in plan.groups[i].symbols :
       latest[s] # None /\ plan.groups[i].range[1] = NextSession(latest[s])

LEMMA PlanHasGroups ==
  ASSUME TypeOK, NEW latest \in [Symbols -> -1..(2 * MaxSession)],
         NEW plan \in PlanIncrementalIngest(latest, clock)
  PROVE  PlanOf(latest, plan) /\ plan.noData \in SUBSET Symbols
<1>1. clock \in Nat /\ PreviousSession(clock) \in 0..MaxSession /\ MaxSession \in Nat
  BY PlanAssumption DEF TypeOK, PreviousSession
<1> DEFINE Needs(s) == NextIngestRange(latest[s], clock)
           starts == {r[1] : r \in UNION {Needs(s) : s \in DOMAIN latest}}
           Group(range) == [range |-> range, symbols |-> {s \in DOMAIN latest : range \in Needs(s)}]
<1>2. ASSUME NEW s \in Symbols, NEW r \in Needs(s)
      PROVE  /\ latest[s] # None /\ r = <<NextSession(latest[s]), PreviousSession(clock)>>
             /\ r[1] = NextSession(latest[s]) /\ r[1] \in 1..MaxSession
  <2>1. latest[s] # None /\ r = <<NextSession(latest[s]), PreviousSession(clock)>>
        /\ NextSession(latest[s]) <= PreviousSession(clock)
    BY DEF NextIngestRange
  <2>2. NextSession(latest[s]) \in Nat \ {0}
    <3>1. latest[s] \in Nat
      BY <2>1 DEF None
    <3> QED  BY <3>1 DEF NextSession
  <2> QED  BY <2>1, <2>2, <1>1
<1>3. PICK sorted \in Listings(starts) :
        /\ plan.groups = [i \in DOMAIN sorted |-> Group(<<sorted[i], PreviousSession(clock)>>)]
        /\ plan.noData = {s \in DOMAIN latest : latest[s] = None}
  <2>1. PICK sorted \in Listings(starts) :
          plan = [groups |-> [i \in DOMAIN sorted |-> Group(<<sorted[i], PreviousSession(clock)>>)],
                  noData |-> {s \in DOMAIN latest : latest[s] = None},
                  upToDate |-> {s \in DOMAIN latest : latest[s] # None /\ Needs(s) = {}}]
    BY DEF PlanIncrementalIngest
  <2> HIDE DEF Needs, starts, Group
  <2> QED  BY <2>1
<1>4. starts \subseteq 1..MaxSession
  BY <1>2
<1>5. IsFiniteSet(starts)
  <2>1. IsFiniteSet(1..MaxSession)
    BY <1>1, FS_Interval
  <2> QED  BY <2>1, <1>4, FS_Subset
<1>6. sorted \in Seq(starts) /\ DOMAIN sorted = 1..Len(sorted) /\ Len(sorted) \in Nat
  BY <1>5, ListingIsSeq
<1>7. ASSUME NEW i \in DOMAIN sorted
      PROVE  /\ Group(<<sorted[i], PreviousSession(clock)>>) \in
                  [range : (Nat \ {0}) \X Nat, symbols : (SUBSET Symbols) \ {{}}]
             /\ \A s \in Group(<<sorted[i], PreviousSession(clock)>>).symbols :
                  latest[s] # None
                  /\ Group(<<sorted[i], PreviousSession(clock)>>).range[1] = NextSession(latest[s])
  <2>1. sorted[i] \in starts
    BY <1>6
  <2>a. PICK s \in Symbols : \E r \in Needs(s) : r[1] = sorted[i]
    BY <2>1
  <2>2. PICK r \in Needs(s) : r[1] = sorted[i]
    BY <2>a
  <2>3. r = <<sorted[i], PreviousSession(clock)>> /\ sorted[i] \in 1..MaxSession
    BY <2>2, <1>2
  <2>4. <<sorted[i], PreviousSession(clock)>> \in (Nat \ {0}) \X Nat
    BY <2>3, <1>1
  <2>5. s \in {x \in DOMAIN latest : <<sorted[i], PreviousSession(clock)>> \in Needs(x)}
    BY <2>2, <2>3
  <2>6. \A x \in Symbols : <<sorted[i], PreviousSession(clock)>> \in Needs(x) =>
          latest[x] # None /\ sorted[i] = NextSession(latest[x])
    BY <1>2
  <2> HIDE DEF Needs
  <2> QED  BY <2>4, <2>5, <2>6
<1>8. PICK G : G = Groups
  OBVIOUS
<1> HIDE DEF Needs, starts, Group
<1>9. plan.groups \in Seq(G)
  BY <1>3, <1>6, <1>7, <1>8 DEF Groups
<1>10. \A i \in DOMAIN plan.groups : i \in DOMAIN sorted
                /\ plan.groups[i] = Group(<<sorted[i], PreviousSession(clock)>>)
  BY <1>3
<1> QED
  BY <1>3, <1>7, <1>8, <1>9, <1>10 DEF PlanOf

LEMMA RequestsOfGroup ==
  ASSUME NEW g
  PROVE  /\ GroupRequests(g, TRUE)[1] = Request("actions", g.symbols, g.range)
         /\ GroupRequests(g, TRUE)[2] = Request("bars", g.symbols, g.range)
         /\ GroupRequests(g, FALSE)[1] = Request("bars", g.symbols, g.range)
<1>1. PICK a : a = Request("actions", g.symbols, g.range)
  OBVIOUS
<1>2. PICK b : b = Request("bars", g.symbols, g.range)
  OBVIOUS
<1>3. PICK S : a \in S /\ b \in S
  <2>1. a \in {a, b} /\ b \in {a, b}
    OBVIOUS
  <2> QED  BY <2>1, Zenon
<1>4. <<a>> \in Seq(S) /\ <<b>> \in Seq(S) /\ <<>> \in Seq(S)
  BY <1>3
<1>5. (<<a>> \o <<b>>)[1] = a /\ (<<a>> \o <<b>>)[2] = b /\ <<>> \o <<b>> = <<b>>
  BY <1>4, ConcatProperties, ConcatEmptySeq
<1> QED
  BY <1>1, <1>2, <1>5 DEF GroupRequests

LEMMA RequestFields ==
  ASSUME NEW k \in Kinds, NEW g \in Groups
  PROVE  /\ Request(k, g.symbols, g.range) \in Requests
         /\ Request(k, g.symbols, g.range).kind = k
         /\ Request(k, g.symbols, g.range).symbols = g.symbols
         /\ Request(k, g.symbols, g.range).range = g.range
         /\ [Request(k, g.symbols, g.range) EXCEPT !.kind = "actions"]
              = Request("actions", g.symbols, g.range)
<1>1. g.symbols \in (SUBSET Symbols) \ {{}} /\ g.range \in (Nat \ {0}) \X Nat
  BY DEF Groups
<1> QED
  BY <1>1 DEF Request, Requests

(* Every request for bars follows the one for the actions.                 *)
Paired(q) ==
  \A i \in DOMAIN q : q[i].kind = "bars" =>
    i # 1 /\ i - 1 \in DOMAIN q /\ q[i - 1] = [q[i] EXCEPT !.kind = "actions"]

(* The requests of the job: every group's, its actions right before its    *)
(* bars.                                                                   *)
LEMMA JobRequestsOfGroups ==
  ASSUME NEW plan, plan.groups \in Seq(Groups), plan.groups # <<>>,
         NEW q, q = JobRequests(plan, AutoActions)
  PROVE  /\ q \in Seq(Requests) /\ q # <<>>
         /\ \A i \in DOMAIN q : \E g \in DOMAIN plan.groups :
              q[i].symbols = plan.groups[g].symbols /\ q[i].range = plan.groups[g].range
         /\ AutoActions => Paired(q)
<1>0. PICK n \in Nat : n = Len(plan.groups) /\ plan.groups \in [1..n -> Groups] /\ n # 0
  BY EmptySeq, LenProperties
<1>1. PICK G : G = plan.groups /\ n = Len(G) /\ G \in [1..n -> Groups] /\ n # 0
  BY <1>0
<1> DEFINE Of(k, g) == Request(k, G[g].symbols, G[g].range)
<1>2. \A k \in Kinds, g \in 1..n :
        /\ Of(k, g) \in Requests
        /\ Of(k, g).kind = k
        /\ Of(k, g).symbols = G[g].symbols
        /\ Of(k, g).range = G[g].range
        /\ [Of(k, g) EXCEPT !.kind = "actions"] = Of("actions", g)
  BY <1>1, RequestFields
<1>k. "bars" \in Kinds /\ "actions" \in Kinds
  BY DEF Kinds
<1>3. CASE AutoActions = TRUE
  <2>1. q = [i \in 1..(2 * n) |-> GroupRequests(G[((i - 1) \div 2) + 1], TRUE)[((i - 1) % 2) + 1]]
    BY <1>1, <1>3 DEF JobRequests
  <2>2. ASSUME NEW i \in 1..(2 * n)
        PROVE  \E g \in 1..n : \/ (i = 2 * g - 1 /\ q[i] = Of("actions", g))
                               \/ (i = 2 * g /\ q[i] = Of("bars", g))
    <3>1. PICK g, m : g = ((i - 1) \div 2) + 1 /\ m = ((i - 1) % 2) + 1
      OBVIOUS
    <3>2. g \in 1..n /\ ((i = 2 * g - 1 /\ m = 1) \/ (i = 2 * g /\ m = 2))
      BY <3>1
    <3>3. q[i] = GroupRequests(G[g], TRUE)[m]
      BY <2>1, <3>1
    <3> QED  BY <3>2, <3>3, RequestsOfGroup
  <2>3. q \in Seq(Requests) /\ DOMAIN q = 1..(2 * n) /\ q # <<>>
    <3>1. ASSUME NEW i \in 1..(2 * n)
          PROVE  q[i] \in Requests
      <4>1. PICK g \in 1..n : q[i] = Of("actions", g) \/ q[i] = Of("bars", g)
        BY <2>2
      <4> HIDE DEF Of
      <4> QED  BY <4>1, <1>2, <1>k
    <3>2. 2 * n \in Nat /\ 1 \in 1..(2 * n)
      BY <1>1
    <3>3. DOMAIN q = 1..(2 * n) /\ q = [i \in 1..(2 * n) |-> q[i]]
      BY <2>1
    <3> QED  BY <3>1, <3>2, <3>3
  <2>4. ASSUME NEW i \in DOMAIN q, q[i].kind = "bars"
        PROVE  i # 1 /\ i - 1 \in DOMAIN q /\ q[i - 1] = [q[i] EXCEPT !.kind = "actions"]
    <3> HIDE DEF Of
    <3>1. PICK g \in 1..n : \/ i = 2 * g - 1 /\ q[i] = Of("actions", g)
                            \/ i = 2 * g /\ q[i] = Of("bars", g)
      BY <2>2, <2>3
    <3>a. i = 2 * g /\ q[i] = Of("bars", g)
      BY <3>1, <2>4, <1>2, <1>k
    <3>2. i # 1 /\ i - 1 \in 1..(2 * n) /\ i - 1 = 2 * g - 1
      BY <3>a, <2>3
    <3>3. q[i - 1] = Of("actions", g)
      <4>1. PICK h \in 1..n :
              \/ i - 1 = 2 * h - 1 /\ q[i - 1] = Of("actions", h)
              \/ i - 1 = 2 * h /\ q[i - 1] = Of("bars", h)
        BY <3>2, <2>2
      <4>2. h = g /\ i - 1 # 2 * h
        BY <4>1, <3>2
      <4> QED  BY <4>1, <4>2
    <3> QED  BY <3>a, <3>2, <3>3, <2>3, <1>2, <1>k
  <2>5. ASSUME NEW i \in DOMAIN q
        PROVE  \E g \in DOMAIN plan.groups :
                 q[i].symbols = plan.groups[g].symbols /\ q[i].range = plan.groups[g].range
    <3> HIDE DEF Of
    <3>1. PICK g \in 1..n : q[i] = Of("actions", g) \/ q[i] = Of("bars", g)
      BY <2>2, <2>3
    <3>2. q[i].symbols = G[g].symbols /\ q[i].range = G[g].range
      BY <3>1, <1>2, <1>k
    <3> QED  BY <3>2, <1>1
  <2>6. Paired(q)
    BY <2>4 DEF Paired
  <2> QED  BY <2>3, <2>5, <2>6
<1>4. CASE AutoActions = FALSE
  <2>1. q = [i \in 1..(1 * n) |-> GroupRequests(G[((i - 1) \div 1) + 1], FALSE)[((i - 1) % 1) + 1]]
    BY <1>1, <1>4 DEF JobRequests
  <2>2. ASSUME NEW i \in 1..n
        PROVE  q[i] = Of("bars", i)
    <3>1. PICK g, m : g = ((i - 1) \div 1) + 1 /\ m = ((i - 1) % 1) + 1
      OBVIOUS
    <3>2. g = i /\ m = 1 /\ i \in 1..(1 * n)
      BY <3>1
    <3>3. q[i] = GroupRequests(G[g], FALSE)[m]
      BY <2>1, <3>1, <3>2
    <3> QED  BY <3>2, <3>3, RequestsOfGroup
  <2>3. q \in Seq(Requests) /\ DOMAIN q = 1..n /\ q # <<>>
    <3>1. \A i \in 1..n : q[i] \in Requests
      <4> HIDE DEF Of
      <4> QED  BY <2>2, <1>2, <1>k
    <3>2. 1 * n = n /\ 1 \in 1..n
      BY <1>1
    <3>3. DOMAIN q = 1..n /\ q = [i \in 1..n |-> q[i]]
      BY <2>1, <3>2
    <3> QED  BY <3>1, <3>2, <3>3
  <2>5. ASSUME NEW i \in DOMAIN q
        PROVE  \E g \in DOMAIN plan.groups :
                 q[i].symbols = plan.groups[g].symbols /\ q[i].range = plan.groups[g].range
    <3> HIDE DEF Of
    <3>1. q[i] = Of("bars", i) /\ i \in 1..n
      BY <2>2, <2>3
    <3>2. q[i].symbols = G[i].symbols /\ q[i].range = G[i].range
      BY <3>1, <1>2, <1>k
    <3> QED  BY <3>1, <3>2, <1>1
  <2> QED  BY <2>3, <2>5, <1>4
<1> QED
  BY <1>3, <1>4, PlanAssumption

-----------------------------------------------------------------------------
(* The cursor of a symbol is the latest instant it has a row for.          *)

LEMMA LeastNat ==
  ASSUME NEW S \in SUBSET Nat, S # {}
  PROVE  \E n \in S : \A m \in S : n <= m
<1>1. PICK n \in S : \A m \in S : ~(<<m, n>> \in OpToRel(<, Nat))
  BY WFMin, NatLessThanWellFounded, Zenon
<1>2. \A m \in S : ~(m < n)
  BY <1>1, Zenon DEF OpToRel
<1> QED  BY <1>2

(* A set of integers between -1 and a bound has a maximum.                 *)
LEMMA MaxOfBounded ==
  ASSUME NEW n \in Nat, NEW S \in SUBSET (-1..n), S # {}
  PROVE  Max(S) \in S /\ \A y \in S : y <= Max(S)
<1>1. PICK T : T = {n - x : x \in S}
  OBVIOUS
<1>2. T \in SUBSET Nat /\ T # {}
  <2>1. \A x \in S : x \in Int /\ x <= n
    OBVIOUS
  <2>2. \A x \in S : n - x \in Nat
    BY <2>1
  <2> QED  BY <1>1, <2>2
<1>3. PICK m \in T : \A k \in T : m <= k
  BY <1>2, LeastNat
<1>4. PICK x \in S : m = n - x
  BY <1>1, <1>3
<1>5. \A y \in S : x >= y
  BY <1>1, <1>3, <1>4
<1> QED  BY <1>5 DEF Max

LEMMA LatestIsARow ==
  ASSUME TypeOK, NEW s \in Symbols
  PROVE  /\ LatestAvailable(s) \in -1..(2 * MaxSession)
         /\ \A r \in rows : r.kind = "bars" /\ r.sym = s => r.avail <= LatestAvailable(s)
         /\ LatestAvailable(s) # None =>
              \E r \in rows : r.kind = "bars" /\ r.sym = s /\ r.avail = LatestAvailable(s)
<1>1. PICK n \in Nat : n = 2 * MaxSession
  BY PlanAssumption
<1>2. PICK S : S = {r.avail : r \in {x \in rows : x.kind = "bars" /\ x.sym = s}} \cup {None}
  OBVIOUS
<1>3. S \in SUBSET (-1..n) /\ S # {}
  BY <1>1, <1>2 DEF TypeOK, Row, None
<1>4. Max(S) \in S /\ \A y \in S : y <= Max(S)
  BY <1>3, MaxOfBounded
<1>5. LatestAvailable(s) = Max(S)
  BY <1>2 DEF LatestAvailable
<1> QED  BY <1>1, <1>2, <1>3, <1>4, <1>5

-----------------------------------------------------------------------------
(* What each step makes of the run that takes it.                          *)

(* A step that changes nothing but a run keeps the types.                  *)
LEMMA RunOnly ==
  ASSUME TypeOK, NEW p \in Processes, NEW r, OnlyRun(p, r),
         UNCHANGED <<files, meta, clock, published, rows, seen>>
  PROVE  TypeOK' /\ Grows
<1>1. run' \in [Processes -> Run]
  BY OtherRuns
<1> QED
  BY <1>1 DEF TypeOK, Grows, PreviousSession

Opened(q, b, a) == [Idle EXCEPT !.pc = "open", !.requests = q, !.noData = b, !.asked = a]

LEMMA RunOpens ==
  ASSUME NEW q \in Seq(Requests), q # <<>>, NEW b \in BOOLEAN, NEW a \in SUBSET ActionDays,
         NEW r, r = Opened(q, b, a)
  PROVE  /\ r \in Run /\ r.pc = "open" /\ r.requests = q /\ r.asked = a
         /\ RunShape(r) /\ RunShape(r)' /\ RunContiguous(r)
<1>1. r = [pc |-> "open", requests |-> q, todo |-> <<>>, obs |-> {}, used |-> Unmeasured,
           content |-> {}, existed |-> FALSE, noData |-> b, asked |-> a]
  BY DEF Opened, Idle
<1>2. r \in Run
  <2>1. <<>> \in Seq(Symbols) /\ {} \in SUBSET Row /\ {} \in Contents /\ Unmeasured \in Int
    BY DEF Contents, Unmeasured
  <2> QED  BY <1>1, <2>1 DEF Run
<1>3. r.pc = "open" /\ r.requests = q /\ r.asked = a
  BY <1>1
<1> QED
  BY <1>2, <1>3 DEF RunShape, RunContiguous

(* The run of the job: its requests are the plan's.                        *)
JobRun(r) ==
  \E plan \in PlanIncrementalIngest([s \in Symbols |-> LatestAvailable(s)], clock) :
    /\ plan.groups # <<>> /\ plan.groups \in Seq(Groups) /\ r.requests = JobRequests(plan, AutoActions)
    /\ r \in Run /\ r.pc = "open" /\ r.asked = {at \in ActionDays : at[2] <= published[at[1]]}
    /\ OnlyRun("serve", r)

LEMMA JobStartRun ==
  ASSUME TypeOK, ShapeInv, JobStart
  PROVE  /\ TypeOK' /\ ShapeInv' /\ Grows
         /\ run' = run \/ \E r : JobRun(r)
<1>1. PICK latest : latest = [s \in Symbols |-> LatestAvailable(s)]
  OBVIOUS
<1>2. latest \in [Symbols -> -1..(2 * MaxSession)]
  BY <1>1, LatestIsARow
<1>a. PICK plan \in PlanIncrementalIngest([s \in Symbols |-> LatestAvailable(s)], clock) :
        IF plan.groups = <<>>
        THEN ledger' = ledger \cup {Event("ingest.skipped", "up_to_date")} /\ UNCHANGED run
        ELSE /\ run' = [run EXCEPT !["serve"] =
                          [Idle EXCEPT !.pc = "open", !.requests = JobRequests(plan, AutoActions),
                                       !.noData = plan.noData # {}, !.asked = {at \in ActionDays : at[2] <= published[at[1]]}]]
             /\ UNCHANGED ledger
  BY Zenon DEF JobStart
<1>b. plan \in PlanIncrementalIngest(latest, clock)
  BY <1>1, <1>a
<1>3. \/ plan.groups = <<>> /\ UNCHANGED run
      \/ /\ plan.groups # <<>>
         /\ run' = [run EXCEPT !["serve"] =
                      [Idle EXCEPT !.pc = "open", !.requests = JobRequests(plan, AutoActions),
                                     !.noData = plan.noData # {}, !.asked = {at \in ActionDays : at[2] <= published[at[1]]}]]
  BY <1>a
<1>4. UNCHANGED <<files, meta, clock, published, rows, seen>>
  BY DEF JobStart
<1>5. PlanOf(latest, plan)
  BY <1>2, <1>b, PlanHasGroups
<1>6. CASE UNCHANGED run
  <2>1. TypeOK' /\ Grows
    BY <1>4, <1>6 DEF TypeOK, Grows, PreviousSession
  <2> QED  BY <1>6, <2>1, ShapeOfNone
<1>7. CASE plan.groups # <<>> /\ ~UNCHANGED run
  <2>1. PICK q : q = JobRequests(plan, AutoActions)
    OBVIOUS
  <2>2. q \in Seq(Requests) /\ q # <<>>
    BY <1>5, <1>7, <2>1, JobRequestsOfGroups DEF PlanOf
  <2>3. PICK a \in SUBSET ActionDays : a = {at \in ActionDays : at[2] <= published[at[1]]}
    OBVIOUS
  <2>4. PICK b \in BOOLEAN : b = (plan.noData # {})
    OBVIOUS
  <2>5. PICK r : r = Opened(q, b, a)
    OBVIOUS
  <2>6. /\ r \in Run /\ r.pc = "open" /\ r.requests = q /\ r.asked = a
        /\ RunShape(r)' /\ RunContiguous(r)
    BY <2>2, <2>5, RunOpens
  <2>7. run' = [run EXCEPT !["serve"] = r]
    BY <1>3, <1>7, <2>1, <2>3, <2>4, <2>5 DEF Opened
  <2>8. OnlyRun("serve", r) /\ "serve" \in Processes
    BY <2>6, <2>7 DEF OnlyRun, TypeOK, Processes
  <2>9. TypeOK' /\ Grows
    BY <1>4, <2>8, RunOnly
  <2>10. ShapeInv'
    BY <2>6, <2>8, <2>9, ShapeOfOne
  <2>11. JobRun(r)
    BY <1>a, <1>5, <1>7, <2>1, <2>3, <2>6, <2>8 DEF JobRun, PlanOf
  <2> QED  BY <2>9, <2>10, <2>11
<1> QED  BY <1>3, <1>6, <1>7

(* A run that fails, whatever it was at.                                   *)
LEMMA FailKeeps ==
  ASSUME TypeOK, ShapeInv, NEW p \in Processes, Fail(p),
         UNCHANGED <<files, meta, clock, published, rows, seen>>
  PROVE  TypeOK' /\ ShapeInv' /\ Grows /\ OnlyRun(p, Idle)
<1>1. PICK r : r = Idle
  OBVIOUS
<1>2. OnlyRun(p, r) /\ RunShape(r)' /\ RunContiguous(r)
  BY <1>1, FailRun, IdleIsRun DEF RunShape, RunContiguous
<1>3. TypeOK' /\ Grows
  BY <1>2, RunOnly
<1> QED
  BY <1>1, <1>2, <1>3, ShapeOfOne

(* The run of a seed: every request is from the first session on.          *)
SeedRun(r) ==
  /\ OnlyRun("cli", r) /\ r.pc = "open" /\ r.asked = {} /\ r.requests \in Seq(Requests)
  /\ \A i \in DOMAIN r.requests : r.requests[i].range[1] = 1

LEMMA UniversePlan ==
  ASSUME NEW seed \in Seeds,
         NEW plan \in ResolveUniverseIngest(Symbols, {<<1, MaxSession>>}, 1, seed[1], "tiingo", seed[2], 0)
  PROVE  \E to \in Nat : plan.symbols = Symbols /\ plan.range = <<1, to>>
<1>1. MaxSession \in Nat /\ seed[1] \in Nat \cup {-1} /\ 1 # None
  BY PlanAssumption DEF None
<1>2. Max({w[2] : w \in {<<1, MaxSession>>}}) = MaxSession
  <2>1. PICK S : S = {w[2] : w \in {<<1, MaxSession>>}}
    OBVIOUS
  <2>2. S = {MaxSession} /\ S \in SUBSET (-1..MaxSession) /\ S # {}
    BY <1>1, <2>1
  <2> QED  BY <1>1, <2>1, <2>2, MaxOfBounded
<1>3. PICK to : to = IF seed[1] # None THEN seed[1] ELSE Max({w[2] : w \in {<<1, MaxSession>>}})
  OBVIOUS
<1>4. to \in Nat
  BY <1>1, <1>2, <1>3 DEF None
<1>5. plan = [symbols |-> Symbols, range |-> <<1, to>>, source |-> "tiingo", actions |-> seed[2]]
  BY <1>1, <1>3 DEF ResolveUniverseIngest
<1> QED
  BY <1>4, <1>5

LEMMA UniverseRequestsType ==
  ASSUME NEW plan, NEW to \in Nat, plan.symbols = Symbols, plan.range = <<1, to>>,
         NEW q, q = UniverseRequests(plan)
  PROVE  q \in Seq(Requests) /\ q # <<>> /\ \A i \in DOMAIN q : q[i].range[1] = 1
<1>1. PICK b : b = Request("bars", plan.symbols, plan.range)
  OBVIOUS
<1>2. PICK a : a = Request("actions", plan.symbols, plan.range)
  OBVIOUS
<1>3. a \in Requests /\ b \in Requests /\ a.range[1] = 1 /\ b.range[1] = 1
  <2>1. <<1, to>> \in (Nat \ {0}) \X Nat
    OBVIOUS
  <2>2. Symbols \in (SUBSET Symbols) \ {{}}
    BY PlanAssumption
  <2> QED  BY <1>1, <1>2, <2>1, <2>2 DEF Request, Requests, Kinds
<1>4. q = <<b>> \o <<a>> \/ q = <<b>> \o <<>>
  BY <1>1, <1>2 DEF UniverseRequests
<1>5. PICK S : S = {x \in Requests : x.range[1] = 1}
  OBVIOUS
<1>6. a \in S /\ b \in S
  BY <1>3, <1>5
<1>7. <<b>> \in Seq(S) /\ <<a>> \in Seq(S) /\ <<>> \in Seq(S) /\ Len(<<b>>) = 1
  BY <1>6
<1>8. q \in Seq(S) /\ Len(q) # 0
  <2>1. PICK u, v \in Seq(S) : q = u \o v /\ Len(u) = 1
    BY <1>4, <1>7
  <2>2. q \in Seq(S) /\ Len(q) = 1 + Len(v) /\ Len(v) \in Nat
    <3>1. Len(u \o v) = Len(u) + Len(v) /\ u \o v \in Seq(S)
      BY ConcatProperties
    <3>2. Len(v) \in Nat
      BY LenProperties
    <3> QED  BY <2>1, <3>1, <3>2
  <2> QED  BY <2>2
<1>9. \A i \in DOMAIN q : q[i] \in S
  BY <1>8
<1>10. q \in Seq(Requests) /\ q # <<>>
  <2>1. S \subseteq Requests
    BY <1>5
  <2> QED  BY <1>8, <2>1
<1> QED
  BY <1>5, <1>9, <1>10

LEMMA SeedStartRun ==
  ASSUME TypeOK, ShapeInv, NEW seed \in Seeds, SeedStart(seed)
  PROVE  TypeOK' /\ ShapeInv' /\ Grows /\ \E r : SeedRun(r)
<1>1. PICK plan \in ResolveUniverseIngest(Symbols, {<<1, MaxSession>>}, 1, seed[1], "tiingo", seed[2], 0) :
        run' = [run EXCEPT !["cli"] = [Idle EXCEPT !.pc = "open", !.requests = UniverseRequests(plan)]]
  BY Zenon DEF SeedStart
<1>2. PICK to \in Nat : plan.symbols = Symbols /\ plan.range = <<1, to>>
  BY UniversePlan
<1>3. PICK q : q = UniverseRequests(plan)
  OBVIOUS
<1>4. q \in Seq(Requests) /\ q # <<>> /\ \A i \in DOMAIN q : q[i].range[1] = 1
  BY <1>2, <1>3, UniverseRequestsType
<1>a. PICK b \in BOOLEAN : b = Idle.noData
  BY IdleIsRun DEF Run
<1>b. PICK a \in SUBSET ActionDays : a = Idle.asked /\ a = {}
  BY IdleIsRun
<1>5. PICK r : r = Opened(q, b, a)
  OBVIOUS
<1>6. /\ r \in Run /\ r.pc = "open" /\ r.requests = q /\ r.asked = {}
      /\ RunShape(r)' /\ RunContiguous(r)
  BY <1>4, <1>b, <1>5, RunOpens
<1>7. r = [Idle EXCEPT !.pc = "open", !.requests = q]
  BY <1>a, <1>b, <1>5, IdleIsRun DEF Opened, Run
<1>8. OnlyRun("cli", r) /\ "cli" \in Processes
  BY <1>1, <1>3, <1>6, <1>7 DEF OnlyRun, TypeOK, Processes
<1>9. UNCHANGED <<files, meta, clock, published, rows, seen>>
  BY DEF SeedStart
<1>10. TypeOK' /\ Grows
  BY <1>8, <1>9, RunOnly
<1>11. ShapeInv'
  BY <1>6, <1>8, <1>10, ShapeOfOne
<1> QED
  BY <1>4, <1>6, <1>8, <1>10, <1>11 DEF SeedRun

(* The run that has opened its store.                                      *)
OpenRun(p, r) ==
  /\ OnlyRun(p, r) /\ run[p].pc = "open" /\ r.pc = "fetch"
  /\ r.requests = run[p].requests /\ r.asked = run[p].asked
  /\ r.used = DiskUsage /\ r.obs = {}
  /\ \A s \in Head(r.requests).symbols : \E n \in DOMAIN r.todo : r.todo[n] = s

LEMMA RequestOfRun ==
  ASSUME TypeOK, ShapeInv, NEW p \in Processes, run[p].pc # "idle"
  PROVE  /\ run[p] \in Run /\ run[p].requests \in Seq(Requests) /\ run[p].requests # <<>>
         /\ Head(run[p].requests) = run[p].requests[1] /\ 1 \in DOMAIN run[p].requests
         /\ Request1(p) = Head(run[p].requests) /\ Request1(p) \in Requests
         /\ Request1(p).symbols \subseteq Symbols /\ Request1(p).symbols # {}
         /\ Request1(p).range[1] \in Nat \ {0} /\ Request1(p).range[2] \in Nat
<1>1. run[p] \in Run /\ RunShape(run[p])
  BY DEF TypeOK, ShapeInv
<1>2. PICK q : q = run[p].requests /\ q \in Seq(Requests) /\ q # <<>>
  BY <1>1 DEF Run, RunShape
<1>3. Head(q) \in Requests /\ Head(q) = q[1] /\ 1 \in DOMAIN q
  BY <1>2, HeadAndTail
<1>4. /\ Head(q).symbols \subseteq Symbols /\ Head(q).symbols # {}
      /\ Head(q).range[1] \in Nat \ {0} /\ Head(q).range[2] \in Nat
  BY <1>3 DEF Requests
<1> QED
  BY <1>1, <1>2, <1>3, <1>4 DEF Request1

LEMMA UsageType ==
  ASSUME TypeOK
  PROVE  IsFiniteSet(OnDisk) /\ DiskUsage \in Nat
<1>1. IsFiniteSet(OnDisk)
  <2>1. IsFiniteSet(DOMAIN files) /\ OnDisk \subseteq DOMAIN files
    BY DEF TypeOK, OnDisk
  <2> QED  BY <2>1, FS_Subset
<1> QED
  BY <1>1, FS_CardinalityType DEF DiskUsage

LEMMA OpenStoreRun ==
  ASSUME TypeOK, ShapeInv, NEW p \in Processes, OpenStore(p)
  PROVE  /\ TypeOK' /\ ShapeInv' /\ Grows
         /\ OnlyRun(p, Idle) \/ (WithinBudget(Unmeasured, 0) /\ \E r : OpenRun(p, r))
<1>1. UNCHANGED <<files, meta, clock, published, rows, seen>> /\ run[p].pc = "open"
  BY DEF OpenStore
<1>2. CASE ~WithinBudget(Unmeasured, 0)
  <2>1. Fail(p)
    BY <1>2 DEF OpenStore, Refused
  <2> QED  BY <1>1, <2>1, FailKeeps
<1>3. CASE WithinBudget(Unmeasured, 0)
  <2>1. PICK todo \in Listings(Request1(p).symbols) :
          run' = [run EXCEPT ![p].pc = "fetch", ![p].used = DiskUsage, ![p].obs = {}, ![p].todo = todo]
    BY <1>3 DEF OpenStore
  <2>2. PICK o : o = run[p] /\ o \in Run /\ o.requests # <<>> /\ Head(o.requests) = Request1(p)
    BY <1>1, RequestOfRun
  <2>3. PICK S : S = Request1(p).symbols /\ S \subseteq Symbols /\ S # {}
    BY <1>1, RequestOfRun
  <2>4. IsFiniteSet(S)
    BY <2>3, FS_Subset, PlanAssumption
  <2>5. todo \in Seq(S) /\ (\A x \in S : \E n \in DOMAIN todo : todo[n] = x) /\ todo # <<>>
    BY <2>1, <2>3, <2>4, ListingIsSeq
  <2>6. PICK u : u = DiskUsage /\ u \in Nat
    BY UsageType
  <2>7. PICK r : r = [o EXCEPT !.pc = "fetch", !.used = u, !.obs = {}, !.todo = todo]
    OBVIOUS
  <2>8. /\ r \in Run /\ r.pc = "fetch" /\ r.used = u /\ r.obs = {} /\ r.todo = todo
        /\ r.requests = o.requests /\ r.asked = o.asked
    <3>1. todo \in Seq(Symbols)
      BY <2>3, <2>5
    <3>2. u \in Int /\ {} \in SUBSET Row
      BY <2>6
    <3>3. r \in Run
      BY <2>2, <2>7, <3>1, <3>2 DEF Run
    <3> QED  BY <2>2, <2>7, <3>3 DEF Run
  <2>9. run' = [run EXCEPT ![p] = r]
    BY <2>1, <2>2, <2>6, <2>7 DEF TypeOK
  <2>10. OnlyRun(p, r)
    BY <2>8, <2>9 DEF OnlyRun, TypeOK
  <2>11. TypeOK' /\ Grows
    BY <1>1, <2>10, RunOnly
  <2>12. RunShape(r) /\ RunContiguous(r)
    <3>1. \A n \in DOMAIN todo : todo[n] \in S
      BY <2>5
    <3> QED  BY <2>2, <2>3, <2>5, <2>6, <2>8, <3>1 DEF RunShape, RunContiguous
  <2>13. RunShape(r)'
    BY <2>11, <2>12, ShapeStays
  <2>14. OpenRun(p, r)
    BY <1>1, <2>2, <2>3, <2>5, <2>6, <2>8, <2>10 DEF OpenRun
  <2> QED  BY <1>3, <2>10, <2>11, <2>12, <2>13, <2>14, ShapeOfOne
<1> QED  BY <1>2, <1>3

(* The run that has the answer for the first symbol of what is to do, with *)
(* its file.                                                               *)
FetchRun(p, r) ==
  /\ OnlyRun(p, r) /\ run[p].pc = "fetch" /\ r.pc \in {"row", "read"}
  /\ r.requests = run[p].requests /\ r.asked = run[p].asked
  /\ r.todo = run[p].todo /\ r.obs = run[p].obs
  /\ r.content = Answer(Request1(p), Head(run[p].todo))
  /\ UNCHANGED seen
  /\ r.pc = "read" => Deduplicated(r.content) /\ r.used = run[p].used /\ UNCHANGED files
  /\ r.pc = "row" => MayWrite(run[p].used) /\ WriteFile(r.content) /\ r.used = run[p].used + 1

LEMMA TodoOfRun ==
  ASSUME TypeOK, ShapeInv, NEW p \in Processes, run[p].pc \in {"fetch", "row", "read"}
  PROVE  /\ run[p].todo \in Seq(Symbols) /\ run[p].todo # <<>>
         /\ Head(run[p].todo) \in Symbols /\ Head(run[p].todo) \in Request1(p).symbols
         /\ run[p].used \in Nat
<1>1. run[p] \in Run /\ RunShape(run[p])
  BY DEF TypeOK, ShapeInv
<1>2. PICK q : q = run[p].todo /\ q \in Seq(Symbols) /\ q # <<>>
  BY <1>1 DEF Run, RunShape
<1>3. Head(q) = q[1] /\ 1 \in DOMAIN q /\ Head(q) \in Symbols
  BY <1>2, HeadAndTail
<1>4. \A n \in DOMAIN run[p].todo : run[p].todo[n] \in Head(run[p].requests).symbols
  BY <1>1 DEF RunShape
<1> QED
  BY <1>1, <1>2, <1>3, <1>4 DEF Request1, Run, RunShape

LEMMA AnswerType ==
  ASSUME TypeOK, NEW req \in Requests, NEW s \in Symbols, NEW c, c = Answer(req, s)
  PROVE  /\ c \in Contents
         /\ \E e \in 0..MaxSession : e <= req.range[2] /\ c = {<<s, d>> : d \in req.range[1]..e}
<1>1. PICK a, b \in Nat : a = req.range[1] /\ b = req.range[2] /\ a # 0
  BY DEF Requests
<1>2. PICK e \in Nat : e = published[s] /\ e <= MaxSession
  BY PlanAssumption DEF TypeOK, PreviousSession
<1>3. PICK f \in 0..MaxSession : f = IF e <= b THEN e ELSE b
  BY <1>2, PlanAssumption
<1>4. {x \in a..b : x <= e} = a..f
  BY <1>1, <1>2, <1>3
<1>5. c = {<<s, d>> : d \in a..f}
  BY <1>1, <1>2, <1>4 DEF Answer
<1>6. a..f \subseteq 1..MaxSession
  BY <1>1, <1>3, PlanAssumption
<1>7. c \in Contents
  BY <1>5, <1>6 DEF Contents, Sessions
<1> QED
  BY <1>1, <1>3, <1>5, <1>7

LEMMA FetchStepRun ==
  ASSUME TypeOK, ShapeInv, NEW p \in Processes, Fetch(p)
  PROVE  /\ UNCHANGED <<meta, clock, published, rows, seen>>
         /\ \/ Fail(p) /\ UNCHANGED files
            \/ \E r : FetchRun(p, r)
<1>1. run[p].pc = "fetch" /\ UNCHANGED <<meta, clock, published, rows, ran, check, left, seen>>
  BY Zenon DEF Fetch
<1>2. PICK o : o = run[p] /\ o \in Run /\ Request1(p) \in Requests
  BY <1>1, RequestOfRun
<1>3. PICK s \in Symbols : s = Head(run[p].todo)
  BY <1>1, TodoOfRun
<1>4. PICK c \in Contents : c = Answer(Request1(p), s)
  BY <1>2, AnswerType
<1>5. PICK u \in Int : u = run[p].used
  BY <1>1, TodoOfRun
<1>6. PICK b \in BOOLEAN : b = (c \in meta)
  <2>1. (c \in meta) \in BOOLEAN
    OBVIOUS
  <2> QED  BY <2>1, Zenon
<1>a. \/ /\ Deduplicated(c)
         /\ run' = [run EXCEPT ![p].pc = "read", ![p].content = c]
         /\ UNCHANGED <<files, ledger>>
      \/ /\ ~Deduplicated(c) /\ MayWrite(run[p].used)
         /\ WriteFile(c)
         /\ run' = [run EXCEPT ![p].pc = "row", ![p].content = c, ![p].existed = c \in meta,
                           ![p].used = @ + 1]
         /\ UNCHANGED ledger
      \/ ~Deduplicated(c) /\ ~MayWrite(run[p].used) /\ Refused(p) /\ UNCHANGED files
  <2>1. c = Answer(Request1(p), Head(run[p].todo))
    BY <1>3, <1>4
  <2> QED  BY <2>1, Zenon DEF Fetch
<1>7. \/ /\ Deduplicated(c)
         /\ run' = [run EXCEPT ![p].pc = "read", ![p].content = c]
         /\ UNCHANGED files
      \/ /\ MayWrite(u) /\ WriteFile(c)
         /\ run' = [run EXCEPT ![p].pc = "row", ![p].content = c, ![p].existed = b, ![p].used = @ + 1]
      \/ Fail(p) /\ UNCHANGED files
  BY <1>5, <1>6, <1>a, Zenon DEF Refused
<1>8. ASSUME Deduplicated(c), run' = [run EXCEPT ![p].pc = "read", ![p].content = c], UNCHANGED files
      PROVE  \E r : FetchRun(p, r)
  <2>1. PICK r : r = [o EXCEPT !.pc = "read", !.content = c]
    OBVIOUS
  <2>2. run' = [run EXCEPT ![p] = r]
    BY <1>2, <1>8, <2>1 DEF TypeOK
  <2>3. r \in Run /\ r.pc = "read" /\ r.content = c /\ r.requests = o.requests /\ r.asked = o.asked
        /\ r.todo = o.todo /\ r.obs = o.obs /\ r.used = o.used
    BY <1>2, <2>1 DEF Run
  <2>4. OnlyRun(p, r)
    BY <2>2, <2>3 DEF OnlyRun, TypeOK
  <2> QED  BY <1>1, <1>2, <1>3, <1>4, <1>8, <2>3, <2>4 DEF FetchRun
<1>9. ASSUME MayWrite(u), WriteFile(c),
             run' = [run EXCEPT ![p].pc = "row", ![p].content = c, ![p].existed = b, ![p].used = @ + 1]
      PROVE  \E r : FetchRun(p, r)
  <2>a. PICK v \in Int : v = u + 1
    OBVIOUS
  <2>1. PICK r : r = [o EXCEPT !.pc = "row", !.content = c, !.existed = b, !.used = v]
    OBVIOUS
  <2>2. run' = [run EXCEPT ![p] = r]
    BY <1>2, <1>5, <1>9, <2>a, <2>1 DEF TypeOK
  <2>3. r \in Run /\ r.pc = "row" /\ r.content = c /\ r.requests = o.requests /\ r.asked = o.asked
        /\ r.todo = o.todo /\ r.obs = o.obs /\ r.used = u + 1
    <3>1. r \in Run
      BY <1>2, <2>1 DEF Run
    <3> QED  BY <1>2, <2>a, <2>1, <3>1 DEF Run
  <2>4. OnlyRun(p, r)
    BY <2>2, <2>3 DEF OnlyRun, TypeOK
  <2> QED  BY <1>1, <1>2, <1>3, <1>4, <1>5, <1>9, <2>3, <2>4 DEF FetchRun
<1> QED
  BY <1>1, <1>7, <1>8, <1>9

LEMMA FetchKeeps ==
  ASSUME TypeOK, ShapeInv, NEW p \in Processes, Fetch(p)
  PROVE  TypeOK' /\ ShapeInv' /\ Grows /\ (OnlyRun(p, Idle) \/ \E r : FetchRun(p, r))
<1>1. UNCHANGED <<meta, clock, published, rows, seen>>
  BY FetchStepRun
<1>2. CASE Fail(p) /\ UNCHANGED files
  BY <1>1, <1>2, FailKeeps
<1>3. ASSUME NEW r, FetchRun(p, r)
      PROVE  TypeOK' /\ ShapeInv' /\ Grows
  <2>1. PICK s \in Symbols : s = Head(run[p].todo) /\ s = Head(r.todo)
    BY <1>3, TodoOfRun DEF FetchRun
  <2>2. PICK req \in Requests : req = Request1(p) /\ req = Head(r.requests) /\ r.requests # <<>>
    BY <1>3, RequestOfRun DEF FetchRun
  <2>3. PICK c \in Contents : c = r.content /\ c = Answer(req, s)
    BY <1>3, <2>1, <2>2, AnswerType DEF FetchRun
  <2>4. PICK e \in 0..MaxSession : e <= req.range[2] /\ c = {<<s, d>> : d \in req.range[1]..e}
    BY <2>3, AnswerType
  <2>5. OnlyRun(p, r) /\ run' \in [Processes -> Run] /\ r \in Run
    BY <1>3, OtherRuns DEF FetchRun, OnlyRun
  <2>6. RunShape(run[p]) /\ RunContiguous(run[p]) /\ run[p].pc = "fetch"
    BY <1>3 DEF ShapeInv, FetchRun
  <2>7. RunContiguous(r)
    <3>1. r.obs = run[p].obs /\ Head(run[p].requests) = req
      BY <1>3, <2>2 DEF FetchRun, Request1
    <3> QED  BY <2>1, <2>2, <2>3, <2>4, <2>6, <3>1 DEF RunContiguous
  <2>8. CASE r.pc = "read"
    <3>1. UNCHANGED files /\ c \in DOMAIN files /\ c \in meta
      BY <1>3, <2>3, <2>8 DEF FetchRun, Deduplicated, OnDisk
    <3>2. TypeOK' /\ Grows
      BY <1>1, <2>5, <3>1, RunOnly
    <3>3. RunShape(r)
      BY <1>3, <2>3, <2>6, <2>8, <3>1 DEF RunShape, FetchRun
    <3>4. RunShape(r)'
      BY <3>2, <3>3, ShapeStays
    <3> QED  BY <2>5, <2>7, <3>2, <3>4, ShapeOfOne
  <2>9. CASE r.pc = "row"
    <3>1. WriteFile(c)
      BY <1>3, <2>3, <2>9 DEF FetchRun
    <3>2. (DOMAIN files)' = DOMAIN files \cup {c}
          /\ \A x \in DOMAIN files \cup {c} : files'[x] = IF x = c THEN "good" ELSE files[x]
      BY <3>1 DEF WriteFile
    <3>3. IsFiniteSet(DOMAIN files \cup {c})
      BY FS_AddElement DEF TypeOK
    <3>4. files' \in [(DOMAIN files)' -> {"good", "bad", "gone"}]
      BY <3>1, <3>2 DEF TypeOK, WriteFile
    <3>5. seen' \in [bars : SUBSET ActionDays]
      BY <1>1 DEF TypeOK
    <3>6. TypeOK' /\ Grows
      BY <1>1, <2>5, <3>2, <3>3, <3>4, <3>5 DEF TypeOK, Grows, PreviousSession
    <3>7. RunShape(r)'
      <4>1. c \in (DOMAIN files)'
        BY <3>2
      <4>2. r.used \in Nat
        <5>1. run[p].used \in Nat
          BY <2>6 DEF RunShape
        <5> QED  BY <1>3, <2>9, <5>1 DEF FetchRun
      <4> QED  BY <1>3, <2>3, <2>6, <2>9, <4>1, <4>2 DEF RunShape, FetchRun
    <3> QED  BY <2>5, <2>7, <3>6, <3>7, ShapeOfOne
  <2> QED  BY <1>3, <2>8, <2>9 DEF FetchRun
<1> QED
  BY <1>2, <1>3, FetchStepRun

(* The run whose content has its row.                                      *)
PutRun(p, r) ==
  /\ OnlyRun(p, r) /\ run[p].pc = "row" /\ r.pc = "read"
  /\ r.requests = run[p].requests /\ r.asked = run[p].asked /\ r.todo = run[p].todo
  /\ r.obs = run[p].obs /\ r.content = run[p].content /\ r.used = run[p].used
  /\ UNCHANGED <<files, clock, published, rows, seen>>

LEMMA PutRowRun ==
  ASSUME TypeOK, ShapeInv, NEW p \in Processes, PutRow(p)
  PROVE  TypeOK' /\ ShapeInv' /\ Grows /\ (OnlyRun(p, Idle) \/ \E r : PutRun(p, r))
<1>1. run[p].pc = "row" /\ UNCHANGED <<files, clock, published, rows, seen>>
  BY DEF PutRow
<1>2. CASE Fail(p) /\ UNCHANGED meta
  BY <1>1, <1>2, FailKeeps
<1>3. CASE Goto(p, "read") /\ InsertRow(run[p].content)
  <2>1. PICK o : o = run[p] /\ o \in Run /\ o.pc = "row" /\ RunShape(o) /\ RunContiguous(o)
    BY <1>1 DEF TypeOK, ShapeInv
  <2>2. PICK c \in Contents : c = o.content /\ c \in DOMAIN files
    BY <2>1 DEF Run, RunShape
  <2>3. meta' = meta \cup {c}
    BY <1>3, <2>1, <2>2 DEF InsertRow
  <2>4. PICK r : r = [o EXCEPT !.pc = "read"]
    OBVIOUS
  <2>5. r \in Run /\ r.pc = "read" /\ r.requests = o.requests /\ r.asked = o.asked /\ r.todo = o.todo
        /\ r.obs = o.obs /\ r.content = o.content /\ r.used = o.used
    BY <2>1, <2>4 DEF Run
  <2>6. run' = [run EXCEPT ![p] = r]
    BY <1>3, <2>1, <2>4 DEF Goto, TypeOK
  <2>7. OnlyRun(p, r)
    BY <2>5, <2>6 DEF OnlyRun, TypeOK
  <2>8. run' \in [Processes -> Run]
    BY <2>7, OtherRuns
  <2>9. TypeOK' /\ Grows
    BY <1>1, <2>3, <2>8 DEF TypeOK, Grows, PreviousSession
  <2>10. RunShape(r)'
    BY <1>1, <2>1, <2>2, <2>3, <2>5 DEF RunShape
  <2>11. RunContiguous(r)
    BY <2>1, <2>5 DEF RunContiguous
  <2> QED  BY <1>1, <2>1, <2>5, <2>7, <2>9, <2>10, <2>11, ShapeOfOne DEF PutRun
<1> QED
  BY <1>2, <1>3 DEF PutRow

(* The run that has read what the answer holds.                            *)
ReadRun(p, r) ==
  /\ OnlyRun(p, r) /\ run[p].pc = "read" /\ r.pc \in {"fetch", "commit"}
  /\ r.requests = run[p].requests /\ r.asked = run[p].asked /\ r.used = run[p].used
  /\ r.todo = Tail(run[p].todo)
  /\ r.obs = run[p].obs \cup Parsed(Request1(p).kind, run[p].content)
  /\ UNCHANGED <<files, meta, clock, published, rows, seen>>

LEMMA ParsedFields ==
  ASSUME NEW c \in Contents, NEW kind \in Kinds, NEW o \in Parsed(kind, c)
  PROVE  /\ o \in Row /\ <<o.sym, o.session>> \in c /\ o.kind = kind /\ ~o.missing
         /\ kind = "actions" => <<o.sym, o.session>> \in ActionDays
         /\ kind = "bars" => o.avail = 2 * o.session
<1>1. PICK at \in c : o = Observation(kind, at, c) /\ (kind = "actions" => at \in ActionDays)
  BY DEF Parsed
<1>2. PICK s \in Symbols, d \in 1..MaxSession : at = <<s, d>>
  BY DEF Contents, Sessions
<1>3. PICK a : a = IF kind = "bars" THEN 2 * d ELSE 2 * d - 1
  OBVIOUS
<1>4. a \in 0..(2 * MaxSession) /\ (kind = "bars" => a = 2 * d)
  BY <1>3, PlanAssumption
<1>5. o = [kind |-> kind, sym |-> s, session |-> d, art |-> c, missing |-> FALSE, avail |-> a]
  BY <1>1, <1>2, <1>3 DEF Observation
<1>6. o.kind = kind /\ o.sym = s /\ o.session = d /\ o.missing = FALSE /\ o.avail = a
  BY <1>5
<1>7. o \in Row
  BY <1>4, <1>5 DEF Row, Sessions
<1> QED
  BY <1>1, <1>2, <1>4, <1>6, <1>7

LEMMA ParsedHasAll ==
  ASSUME NEW kind \in Kinds, NEW c, NEW at \in c, kind = "actions" => at \in ActionDays
  PROVE  \E o \in Parsed(kind, c) : o.kind = kind /\ o.sym = at[1] /\ o.session = at[2]
<1>1. PICK o : o = Observation(kind, at, c)
  OBVIOUS
<1>2. o.kind = kind /\ o.sym = at[1] /\ o.session = at[2]
  BY <1>1 DEF Observation
<1>3. o \in Parsed(kind, c)
  BY <1>1 DEF Parsed, Kinds
<1> QED  BY <1>2, <1>3

LEMMA ReadBackRun ==
  ASSUME TypeOK, ShapeInv, NEW p \in Processes, ReadBack(p)
  PROVE  TypeOK' /\ ShapeInv' /\ Grows /\ (OnlyRun(p, Idle) \/ \E r : ReadRun(p, r))
<1>a. run[p].pc = "read" /\ UNCHANGED <<files, meta, clock, published, rows, ledger, ran, check, left, seen>>
  BY Zenon DEF ReadBack
<1>1. run[p].pc = "read" /\ UNCHANGED <<files, meta, clock, published, rows, seen>>
  BY <1>a
<1>2. PICK o : o = run[p] /\ o \in Run /\ o.pc = "read" /\ RunShape(o) /\ RunContiguous(o)
  BY <1>1 DEF TypeOK, ShapeInv
<1>3. PICK req \in Requests : req = Request1(p) /\ req = Head(o.requests) /\ o.requests # <<>>
  BY <1>1, <1>2, RequestOfRun
<1>4. PICK kind \in Kinds : kind = req.kind
  BY DEF Requests
<1>5. PICK c \in Contents : c = o.content
  BY <1>2 DEF Run
<1>6. PICK todo \in Seq(Symbols) : todo = o.todo /\ todo # <<>>
  BY <1>2 DEF RunShape, Run
<1>7. /\ Head(todo) \in Symbols /\ Head(todo) = todo[1] /\ 1 \in DOMAIN todo /\ Tail(todo) \in Seq(Symbols)
      /\ \A n \in DOMAIN Tail(todo) : n + 1 \in DOMAIN todo /\ Tail(todo)[n] = todo[n + 1]
  BY <1>6, HeadAndTail
<1>8. PICK new : new = o.obs \cup Parsed(kind, c)
  OBVIOUS
<1>9. PICK rest : rest = Tail(todo)
  OBVIOUS
<1>10. CASE Fail(p)
  BY <1>1, <1>10, FailKeeps
<1>11. ASSUME run' = [run EXCEPT ![p].pc = IF rest = <<>> THEN "commit" ELSE "fetch", ![p].todo = rest,
                                ![p].content = {}, ![p].obs = new]
       PROVE  TypeOK' /\ ShapeInv' /\ Grows /\ \E r : ReadRun(p, r)
  <2>1. PICK pc : pc = IF rest = <<>> THEN "commit" ELSE "fetch"
    OBVIOUS
  <2>2. PICK r : r = [o EXCEPT !.pc = pc, !.todo = rest, !.content = {}, !.obs = new]
    OBVIOUS
  <2>3. new \subseteq Row
    <3>1. Parsed(kind, c) \subseteq Row
      BY ParsedFields
    <3> QED  BY <1>2, <1>8, <3>1 DEF Run
  <2>4. r \in Run
    <3>1. {} \in Contents /\ rest \in Seq(Symbols)
      BY <1>7, <1>9 DEF Contents
    <3> QED  BY <1>2, <2>1, <2>2, <2>3, <3>1 DEF Run
  <2>5. /\ r.pc = pc /\ r.todo = rest /\ r.content = {} /\ r.obs = new
        /\ r.requests = o.requests /\ r.asked = o.asked /\ r.used = o.used
    BY <1>2, <2>2 DEF Run
  <2>6. run' = [run EXCEPT ![p] = r]
    BY <1>2, <1>11, <2>1, <2>2 DEF TypeOK
  <2>7. OnlyRun(p, r)
    BY <2>4, <2>6 DEF OnlyRun, TypeOK
  <2>8. TypeOK' /\ Grows
    BY <1>1, <2>7, RunOnly
  <2>9. PICK e \in 0..MaxSession : e <= req.range[2] /\ c = {<<Head(todo), d>> : d \in req.range[1]..e}
    BY <1>2, <1>3, <1>5, <1>6 DEF RunContiguous
  <2>10. Head(todo) \in req.symbols /\ req.range[1] \in Nat /\ req.range[2] \in Nat
    BY <1>2, <1>3, <1>6, <1>7 DEF RunShape, Requests
  <2>11. \A x \in Parsed(kind, c) : /\ x.kind = req.kind /\ x.sym = Head(todo)
                                    /\ x.session \in req.range[1]..e
                                    /\ ~x.missing /\ (x.kind = "bars" => x.avail = 2 * x.session)
    <3>1. ASSUME NEW x \in Parsed(kind, c)
          PROVE  /\ x.kind = req.kind /\ x.sym = Head(todo) /\ x.session \in req.range[1]..e
                 /\ ~x.missing /\ (x.kind = "bars" => x.avail = 2 * x.session)
      <4>1. /\ <<x.sym, x.session>> \in c /\ x.kind = kind /\ ~x.missing
            /\ (kind = "bars" => x.avail = 2 * x.session)
        BY ParsedFields
      <4>2. PICK d \in req.range[1]..e : <<x.sym, x.session>> = <<Head(todo), d>>
        BY <2>9, <4>1
      <4> QED  BY <1>4, <4>1, <4>2
    <3> QED  BY <3>1
  <2>12. RunShape(r)
    <3>1. r.todo # <<>> \/ pc = "commit"
      BY <2>1, <2>5
    <3>2. pc = "commit" => r.todo = <<>>
      BY <2>1, <2>5
    <3>3. \A n \in DOMAIN r.todo : r.todo[n] \in req.symbols
      BY <1>2, <1>3, <1>6, <1>7, <1>9, <2>5 DEF RunShape
    <3>4. ASSUME NEW x \in r.obs
          PROVE  /\ x.kind = req.kind /\ x.sym \in req.symbols /\ InRange(x.session, req)
                 /\ ~x.missing /\ (x.kind = "bars" => x.avail = 2 * x.session)
      <4>1. CASE x \in o.obs
        BY <1>2, <1>3, <4>1 DEF RunShape
      <4>2. CASE x \in Parsed(kind, c)
        BY <2>9, <2>10, <2>11, <4>2 DEF InRange
      <4> QED  BY <1>8, <2>5, <4>1, <4>2
    <3>5. r.used \in Nat /\ pc \in {"fetch", "commit"} /\ Head(r.requests) = req /\ r.requests # <<>>
      BY <1>2, <1>3, <2>1, <2>5 DEF RunShape
    <3> QED  BY <2>5, <3>1, <3>2, <3>3, <3>4, <3>5 DEF RunShape
  <2>13. RunContiguous(r)
    <3>1. ASSUME NEW x \in new, x.kind = "bars"
          PROVE  req.range[1]..(x.session - 1) \subseteq BarSessions(new, x.sym)
      <4>1. CASE x \in o.obs
        <5>1. req.range[1]..(x.session - 1) \subseteq BarSessions(o.obs, x.sym)
          BY <1>2, <1>3, <3>1, <4>1 DEF RunContiguous
        <5> QED  BY <1>8, <5>1 DEF BarSessions
      <4>2. CASE x \in Parsed(kind, c)
        <5>1. x.sym = Head(todo) /\ x.session \in req.range[1]..e /\ kind = "bars"
          BY <1>4, <2>11, <3>1, <4>2
        <5>2. ASSUME NEW d \in req.range[1]..(x.session - 1)
              PROVE  d \in BarSessions(new, x.sym)
          <6>1. d \in req.range[1]..e
            BY <2>10, <5>1
          <6>a. <<Head(todo), d>> \in c
            BY <2>9, <6>1
          <6>2. PICK at \in c : at = <<Head(todo), d>> /\ at[1] = Head(todo) /\ at[2] = d
            BY <6>a
          <6>b. kind = "actions" => at \in ActionDays
            BY <5>1
          <6>3. PICK y \in Parsed(kind, c) : y.kind = kind /\ y.sym = at[1] /\ y.session = at[2]
            BY <6>b, ParsedHasAll
          <6> QED  BY <1>8, <5>1, <6>2, <6>3 DEF BarSessions
        <5> QED  BY <5>2
      <4> QED  BY <1>8, <3>1, <4>1, <4>2
    <3> QED  BY <1>3, <2>1, <2>5, <3>1 DEF RunContiguous
  <2>14. RunShape(r)'
    BY <2>8, <2>12, ShapeStays
  <2>15. ReadRun(p, r)
    BY <1>1, <1>2, <1>3, <1>4, <1>5, <1>6, <1>8, <1>9, <2>1, <2>5, <2>7 DEF ReadRun
  <2> QED  BY <2>7, <2>8, <2>13, <2>14, <2>15, ShapeOfOne
<1>12. \/ Fail(p)
       \/ run' = [run EXCEPT ![p].pc = IF rest = <<>> THEN "commit" ELSE "fetch", ![p].todo = rest,
                                ![p].content = {}, ![p].obs = new]
  <2>1. \/ Fail(p)
        \/ run' = [run EXCEPT ![p].pc = IF rest = <<>> THEN "commit" ELSE "fetch", ![p].todo = rest,
                                ![p].content = {}, ![p].obs = @ \cup Parsed(kind, c)]
    BY <1>2, <1>3, <1>4, <1>5, <1>6, <1>9, Zenon DEF ReadBack
  <2> QED  BY <1>2, <1>8, <2>1 DEF TypeOK
<1> QED
  BY <1>10, <1>11, <1>12

(* Rows are appended, unless the same row is there already.                *)
LEMMA SameRowFields ==
  ASSUME NEW a \in Row, NEW b \in Row, SameRow(a, b)
  PROVE  a.kind = b.kind /\ a.sym = b.sym /\ a.session = b.session /\ a.missing = b.missing
<1>1. [a EXCEPT !.avail = 0].kind = a.kind /\ [b EXCEPT !.avail = 0].kind = b.kind
  BY DEF Row
<1>2. [a EXCEPT !.avail = 0].sym = a.sym /\ [b EXCEPT !.avail = 0].sym = b.sym
  BY DEF Row
<1>3. [a EXCEPT !.avail = 0].session = a.session /\ [b EXCEPT !.avail = 0].session = b.session
  BY DEF Row
<1>4. [a EXCEPT !.avail = 0].missing = a.missing /\ [b EXCEPT !.avail = 0].missing = b.missing
  BY DEF Row
<1> QED
  BY <1>1, <1>2, <1>3, <1>4 DEF SameRow

LEMMA AppendedHasAll ==
  ASSUME TypeOK, NEW new \in SUBSET Row
  PROVE  /\ rows \subseteq Appended(new) /\ Appended(new) \subseteq rows \cup new
         /\ Appended(new) \subseteq Row
         /\ \A o \in new : \E r \in Appended(new) : /\ r.kind = o.kind /\ r.sym = o.sym
                                                    /\ r.session = o.session /\ r.missing = o.missing
<1>1. rows \subseteq Appended(new) /\ Appended(new) \subseteq rows \cup new /\ Appended(new) \subseteq Row
  BY DEF Appended, TypeOK
<1>2. ASSUME NEW o \in new
      PROVE  \E r \in Appended(new) : /\ r.kind = o.kind /\ r.sym = o.sym
                                      /\ r.session = o.session /\ r.missing = o.missing
  <2>1. CASE \A r \in rows : ~SameRow(r, o)
    BY <2>1 DEF Appended
  <2>2. CASE \E r \in rows : SameRow(r, o)
    <3>1. PICK r \in rows : SameRow(r, o)
      BY <2>2
    <3>2. r \in Row /\ o \in Row
      BY DEF TypeOK
    <3> QED  BY <1>1, <3>1, <3>2, SameRowFields
  <2> QED  BY <2>1, <2>2
<1> QED  BY <1>1, <1>2

(* The run whose observations are in the table.                            *)
BarsOf(obs) == {<<o.sym, o.session>> : o \in {x \in obs : x.kind = "bars"}}

CommitRun(p, r) ==
  /\ OnlyRun(p, r) /\ run[p].pc = "commit" /\ r.pc = "event"
  /\ r.requests = run[p].requests /\ r.asked = run[p].asked /\ r.todo = run[p].todo /\ r.obs = {}
  /\ rows' = Appended(run[p].obs) /\ run[p].obs \in SUBSET Row
  /\ seen' = [seen EXCEPT !.bars = @ \cup (BarsOf(run[p].obs) \cap run[p].asked)]
  /\ UNCHANGED <<files, meta, clock, published>>

LEMMA CommitStepRun ==
  ASSUME TypeOK, ShapeInv, NEW p \in Processes, Commit(p)
  PROVE  TypeOK' /\ ShapeInv' /\ Grows /\ \E r : CommitRun(p, r)
<1>1. /\ run[p].pc = "commit" /\ rows' = Appended(run[p].obs)
      /\ run' = [run EXCEPT ![p].pc = "event", ![p].obs = {}, ![p].used = Unmeasured]
      /\ seen' = [seen EXCEPT !.bars = @ \cup (BarsOf(run[p].obs) \cap run[p].asked)]
      /\ UNCHANGED <<files, meta, clock, published, ledger, ran, check, left>>
  BY Zenon DEF Commit, BarsOf
<1>2. PICK o : o = run[p] /\ o \in Run /\ o.pc = "commit" /\ RunShape(o) /\ RunContiguous(o)
  BY <1>1 DEF TypeOK, ShapeInv
<1>3. PICK u \in Int : u = Unmeasured
  BY DEF Unmeasured
<1>4. PICK r : r = [o EXCEPT !.pc = "event", !.obs = {}, !.used = u]
  OBVIOUS
<1>5. r \in Run
  BY <1>2, <1>4 DEF Run
<1>6. r.pc = "event" /\ r.requests = o.requests /\ r.asked = o.asked /\ r.todo = o.todo /\ r.obs = {}
  BY <1>2, <1>4 DEF Run
<1>7. run' = [run EXCEPT ![p] = r]
  BY <1>1, <1>2, <1>3, <1>4 DEF TypeOK
<1>8. OnlyRun(p, r)
  BY <1>5, <1>7 DEF OnlyRun, TypeOK
<1>9. run' \in [Processes -> Run]
  BY <1>8, OtherRuns
<1>10. run[p].obs \in SUBSET Row /\ run[p].asked \in SUBSET ActionDays
  BY <1>2 DEF Run
<1>11. rows \subseteq rows' /\ rows' \subseteq Row
  BY <1>1, <1>10, AppendedHasAll
<1>12. seen' \in [bars : SUBSET ActionDays]
  BY <1>1, <1>10 DEF TypeOK
<1>13. TypeOK' /\ Grows
  BY <1>1, <1>9, <1>11, <1>12 DEF TypeOK, Grows, PreviousSession
<1>14. RunShape(r) /\ RunContiguous(r)
  BY <1>2, <1>6 DEF RunShape, RunContiguous
<1>15. RunShape(r)'
  BY <1>13, <1>14, ShapeStays
<1>16. ShapeInv'
  BY <1>8, <1>13, <1>14, <1>15, ShapeOfOne
<1> QED
  BY <1>1, <1>2, <1>6, <1>8, <1>10, <1>13, <1>16 DEF CommitRun

(* The run that goes on with its next request.                             *)
NextRun(p, r) ==
  /\ OnlyRun(p, r) /\ run[p].pc = "event" /\ r.pc = "open"
  /\ r.requests = Tail(run[p].requests) /\ r.asked = run[p].asked
  /\ UNCHANGED <<files, meta, clock, published, rows, seen>>

LEMMA CompleteRun ==
  ASSUME TypeOK, ShapeInv, NEW p \in Processes, Complete(p)
  PROVE  TypeOK' /\ ShapeInv' /\ Grows /\ (OnlyRun(p, Idle) \/ \E r : NextRun(p, r))
<1>1. /\ run[p].pc = "event"
      /\ run' = [run EXCEPT ![p] = IF Tail(run[p].requests) = <<>> THEN Idle
                                   ELSE [Idle EXCEPT !.pc = "open", !.requests = Tail(run[p].requests),
                                               !.noData = run[p].noData, !.asked = run[p].asked]]
      /\ UNCHANGED <<files, meta, clock, published, rows, ran, check, left, seen>>
  BY Zenon DEF Complete
<1>2. PICK o : o = run[p] /\ o \in Run /\ o.requests \in Seq(Requests) /\ o.requests # <<>>
  BY <1>1, RequestOfRun
<1>3. PICK q \in Seq(Requests) : q = Tail(o.requests)
  BY <1>2, HeadAndTail
<1>4. PICK b \in BOOLEAN : b = o.noData
  BY <1>2 DEF Run
<1>5. PICK a \in SUBSET ActionDays : a = o.asked
  BY <1>2 DEF Run
<1>6. CASE q = <<>>
  <2>1. Fail(p)
    BY <1>1, <1>2, <1>3, <1>6 DEF Fail
  <2> QED  BY <1>1, <2>1, FailKeeps
<1>7. CASE q # <<>>
  <2>1. PICK r : r = Opened(q, b, a)
    OBVIOUS
  <2>2. /\ r \in Run /\ r.pc = "open" /\ r.requests = q /\ r.asked = a
        /\ RunShape(r)' /\ RunContiguous(r)
    BY <1>7, <2>1, RunOpens
  <2>3. run' = [run EXCEPT ![p] = r]
    BY <1>1, <1>2, <1>3, <1>4, <1>5, <1>7, <2>1 DEF Opened
  <2>4. OnlyRun(p, r)
    BY <2>2, <2>3 DEF OnlyRun, TypeOK
  <2>5. TypeOK' /\ Grows
    BY <1>1, <2>4, RunOnly
  <2> QED  BY <1>1, <1>2, <1>3, <1>5, <2>2, <2>4, <2>5, ShapeOfOne DEF NextRun
<1> QED
  BY <1>6, <1>7

LEMMA FailStepsRun ==
  ASSUME TypeOK, ShapeInv, NEW p \in Processes, FetchFails(p) \/ Crash(p)
  PROVE  TypeOK' /\ ShapeInv' /\ Grows /\ OnlyRun(p, Idle) /\ UNCHANGED <<files, rows, published, seen>>
<1>1. Fail(p) /\ UNCHANGED <<files, meta, clock, published, rows, seen>>
  BY DEF FetchFails, Crash
<1> QED
  BY <1>1, FailKeeps

-----------------------------------------------------------------------------
(* What the steps of no run do.                                            *)

LEMMA MarkedRows ==
  ASSUME TypeOK, NEW c
  PROVE  ToMark(c) \in SUBSET Row /\ \A o \in ToMark(c) : o.missing
<1>1. ASSUME NEW o \in ToMark(c)
      PROVE  o \in Row /\ o.missing
  <2>1. PICK r \in rows : o = [r EXCEPT !.missing = TRUE, !.avail = IF clock > @ THEN clock ELSE @]
    BY Zenon DEF ToMark
  <2>2. PICK a \in 0..(2 * MaxSession) : a = IF clock > r.avail THEN clock ELSE r.avail
    BY DEF TypeOK, Row
  <2>3. o = [r EXCEPT !.missing = TRUE, !.avail = a]
    BY <2>1, <2>2 DEF TypeOK, Row
  <2>4. r \in Row
    BY DEF TypeOK
  <2> QED  BY <2>3, <2>4 DEF Row
<1> QED  BY <1>1

LEMMA MarkRows ==
  ASSUME TypeOK, NEW c, Mark(c)
  PROVE  rows' = Appended(ToMark(c)) /\ UNCHANGED <<files, meta, clock, published, ledger, ran, run, left, seen>>
BY Zenon DEF Mark

LEMMA ReportRows ==
  ASSUME TypeOK, NEW c, Report(c)
  PROVE  UNCHANGED <<files, meta, clock, published, rows, ran, run, left, seen>>
BY Zenon DEF Report

LEMMA VerifyRows ==
  ASSUME TypeOK, VerifyStart \/ Verify
  PROVE  /\ UNCHANGED <<files, meta, clock, published, run, seen>>
         /\ rows' = rows \/ \E c : rows' = Appended(ToMark(c))
<1>1. CASE VerifyStart
  BY <1>1 DEF VerifyStart
<1>2. CASE Verify
  <2>1. PICK c : Mark(c) \/ Report(c)
    BY <1>2 DEF Verify
  <2>2. CASE Mark(c)
    BY <2>2, MarkRows
  <2>3. CASE Report(c)
    BY <2>3, ReportRows
  <2> QED  BY <2>1, <2>2, <2>3
<1> QED  BY <1>1, <1>2

LEMMA VerifyKeeps ==
  ASSUME TypeOK, ShapeInv, VerifyStart \/ Verify
  PROVE  TypeOK' /\ ShapeInv' /\ Grows
<1>1. rows \subseteq rows' /\ rows' \subseteq Row
  <2>1. CASE rows' = rows
    BY <2>1 DEF TypeOK
  <2>2. CASE \E c : rows' = Appended(ToMark(c))
    BY <2>2, MarkedRows, AppendedHasAll
  <2> QED  BY <2>1, <2>2, VerifyRows
<1>2. UNCHANGED <<files, meta, clock, published, run, seen>>
  BY VerifyRows
<1>3. TypeOK' /\ Grows
  BY <1>1, <1>2 DEF TypeOK, Grows, PreviousSession
<1> QED  BY <1>2, <1>3, ShapeOfNone

LEMMA LoseKeeps ==
  ASSUME TypeOK, ShapeInv, NEW c \in OnDisk, NEW how \in {"bad", "gone"}, Lose(c, how)
  PROVE  TypeOK' /\ ShapeInv' /\ Grows /\ (OnDisk' \subseteq OnDisk) /\ UNCHANGED <<rows, published, run, seen>>
<1>1. files' = [files EXCEPT ![c] = how] /\ UNCHANGED <<meta, clock, published, rows, run, seen>>
  BY DEF Lose
<1>2. c \in DOMAIN files /\ (DOMAIN files)' = DOMAIN files
      /\ \A x \in DOMAIN files : files'[x] = IF x = c THEN how ELSE files[x]
  BY <1>1 DEF OnDisk, TypeOK
<1>3. files' \in [DOMAIN files -> {"good", "bad", "gone"}]
  BY <1>1, <1>2 DEF TypeOK
<1>4. TypeOK' /\ Grows
  BY <1>1, <1>2, <1>3 DEF TypeOK, Grows, PreviousSession
<1>5. OnDisk' \subseteq OnDisk
  BY <1>2 DEF OnDisk
<1> QED  BY <1>1, <1>4, <1>5, ShapeOfNone

LEMMA WorldKeeps ==
  ASSUME TypeOK, ShapeInv, (\E s \in Symbols : Publish(s)) \/ Advance
  PROVE  TypeOK' /\ ShapeInv' /\ Grows /\ UNCHANGED <<files, rows, run, seen>>
<1>1. CASE \E s \in Symbols : Publish(s)
  <2>1. PICK s \in Symbols : /\ published[s] < PreviousSession(clock)
                             /\ published' = [published EXCEPT ![s] = @ + 1]
                             /\ UNCHANGED <<files, meta, clock, rows, run, seen>>
    BY <1>1 DEF Publish
  <2>2. PICK n \in Nat : n = PreviousSession(clock)
    BY DEF TypeOK, PreviousSession
  <2>3. \A x \in Symbols : published'[x] = (IF x = s THEN published[x] + 1 ELSE published[x]) /\ published[x] \in Nat
    BY <2>1 DEF TypeOK
  <2>4. published' \in [Symbols -> Nat] /\ \A x \in Symbols : published'[x] <= n /\ published[x] <= published'[x]
    BY <2>1, <2>2, <2>3 DEF TypeOK
  <2>5. n = PreviousSession(clock)'
    BY <2>1, <2>2 DEF PreviousSession
  <2>6. TypeOK' /\ Grows
    BY <2>1, <2>4, <2>5 DEF TypeOK, Grows
  <2> QED  BY <2>1, <2>6, ShapeOfNone
<1>2. CASE Advance
  <2>1. clock < 2 * MaxSession /\ clock' = clock + 1 /\ UNCHANGED <<files, meta, published, rows, run, seen>>
    BY <1>2 DEF Advance
  <2>2. clock' \in 0..(2 * MaxSession)
    BY <2>1, PlanAssumption DEF TypeOK
  <2>3. \A s \in Symbols : published[s] <= PreviousSession(clock')
    BY <2>1 DEF TypeOK, PreviousSession
  <2>4. TypeOK' /\ Grows
    BY <2>1, <2>2, <2>3 DEF TypeOK, Grows, PreviousSession
  <2> QED  BY <2>1, <2>4, ShapeOfNone
<1> QED  BY <1>1, <1>2

-----------------------------------------------------------------------------
(* The types and the shapes of the runs, in every behaviour.               *)

LEMMA SeededFiles ==
  ASSUME NEW F, F = {First(s) : s \in Seeded}
  PROVE  IsFiniteSet(F) /\ Cardinality(F) <= Cardinality(Seeded) /\ IsFiniteSet(Seeded)
<1>1. IsFiniteSet(Seeded)
  <2>1. Seeded \subseteq Symbols /\ IsFiniteSet(Symbols)
    BY PlanAssumption
  <2> QED  BY <2>1, FS_Subset
<1>2. PICK f : f = [s \in Seeded |-> First(s)]
  BY Zenon
<1>3. f \in Surjection(Seeded, F)
  BY <1>2 DEF Surjection
<1> QED  BY <1>1, <1>3, FS_Surjection

LEMMA InitShape ==
  ASSUME Init
  PROVE  TypeOK /\ ShapeInv
<1>1. Seeded \subseteq Symbols /\ MaxSession \in Nat \ {0} /\ 1 \in Sessions
  BY PlanAssumption DEF Sessions
<1>2. PICK F : F = {First(s) : s \in Seeded}
  OBVIOUS
<1>3. \A s \in Symbols : First(s) \in Contents
  BY <1>1 DEF First, Contents
<1>4. F \subseteq Contents
  BY <1>1, <1>2, <1>3
<1>5. IsFiniteSet(F)
  BY <1>2, SeededFiles
<1>6. files = [c \in F |-> "good"] /\ meta = F
  BY <1>2 DEF Init
<1>7. rows \subseteq Row
  <2>1. ASSUME NEW r \in rows
        PROVE  r \in Row
    <3>1. PICK s \in Seeded : r = Observation("bars", <<s, 1>>, First(s))
      BY DEF Init
    <3>2. PICK c \in Contents : c = First(s)
      BY <1>1, <1>3
    <3>3. r = [kind |-> "bars", sym |-> s, session |-> 1, art |-> c, missing |-> FALSE, avail |-> 2]
      BY <3>1, <3>2 DEF Observation
    <3>4. 2 \in 0..(2 * MaxSession) /\ s \in Symbols
      BY <1>1
    <3> QED  BY <1>1, <3>3, <3>4 DEF Row, Kinds
  <2> QED  BY <2>1
<1>8. /\ clock = 2 /\ PreviousSession(2) = 1 /\ 2 \in 0..(2 * MaxSession)
      /\ published \in [Symbols -> Nat] /\ \A s \in Symbols : published[s] <= 1
  BY <1>1 DEF Init, PreviousSession
<1>9. run = [p \in Processes |-> Idle] /\ seen = [bars |-> {}]
  BY DEF Init
<1>10. TypeOK
  BY <1>4, <1>5, <1>6, <1>7, <1>8, <1>9, IdleIsRun DEF TypeOK
<1> QED
  BY <1>9, <1>10, IdleShape DEF ShapeInv

LEMMA NextShape ==
  ASSUME TypeOK, ShapeInv, [Next]_vars
  PROVE  TypeOK' /\ ShapeInv' /\ Grows
<1>1. CASE JobStart
  BY <1>1, JobStartRun
<1>2. ASSUME NEW seed \in Seeds, SeedStart(seed)
      PROVE  TypeOK' /\ ShapeInv' /\ Grows
  BY <1>2, SeedStartRun
<1>3. ASSUME NEW p \in Processes, Step(p) \/ Crash(p)
      PROVE  TypeOK' /\ ShapeInv' /\ Grows
  <2>1. CASE OpenStore(p)
    BY <2>1, OpenStoreRun
  <2>2. CASE Fetch(p)
    BY <2>2, FetchKeeps
  <2>3. CASE FetchFails(p) \/ Crash(p)
    BY <2>3, FailStepsRun
  <2>4. CASE PutRow(p)
    BY <2>4, PutRowRun
  <2>5. CASE ReadBack(p)
    BY <2>5, ReadBackRun
  <2>6. CASE Commit(p)
    BY <2>6, CommitStepRun
  <2>7. CASE Complete(p)
    BY <2>7, CompleteRun
  <2> QED  BY <1>3, <2>1, <2>2, <2>3, <2>4, <2>5, <2>6, <2>7 DEF Step
<1>4. CASE VerifyStart \/ Verify
  BY <1>4, VerifyKeeps
<1>5. ASSUME NEW c \in OnDisk, NEW how \in {"bad", "gone"}, Lose(c, how)
      PROVE  TypeOK' /\ ShapeInv' /\ Grows
  BY <1>5, LoseKeeps
<1>6. CASE (\E s \in Symbols : Publish(s)) \/ Advance
  BY <1>6, WorldKeeps
<1>7. CASE UNCHANGED vars
  <2>1. TypeOK' /\ Grows
    BY <1>7 DEF vars, TypeOK, Grows, PreviousSession
  <2>2. run' = run
    BY <1>7 DEF vars
  <2> QED  BY <2>1, <2>2, ShapeOfNone
<1> QED
  BY <1>1, <1>2, <1>3, <1>4, <1>5, <1>6, <1>7 DEF Next

(* Every reachable state is of its types, and what a run works on is of    *)
(* its request.                                                            *)
THEOREM TypeCorrect == Spec => [](TypeOK /\ ShapeInv)
<1>1. Init => TypeOK /\ ShapeInv
  BY InitShape
<1>2. TypeOK /\ ShapeInv /\ [Next]_vars => (TypeOK /\ ShapeInv)'
  BY NextShape
<1> QED  BY <1>1, <1>2, PTL DEF Spec

(* store.ts:104-107: a run never reads back an undamaged file that has no  *)
(* row, whatever crashed or was lost before.                               *)
THEOREM OrphansAreHealed == Spec => []OrphansHeal
<1>1. TypeOK /\ ShapeInv => OrphansHeal
  <2> SUFFICES ASSUME TypeOK, ShapeInv, NEW p \in Processes,
                      run[p].pc = "read", files[run[p].content] = "good"
               PROVE  Verified(run[p].content)
    BY DEF OrphansHeal
  <2>1. RunShape(run[p])
    BY DEF ShapeInv
  <2> QED  BY <2>1 DEF RunShape, Verified
<1> QED  BY <1>1, TypeCorrect, PTL

-----------------------------------------------------------------------------
(* The budget.  What a run counts is the disk it measured and what it      *)
(* wrote since, never above the budget; the writes of the other run are    *)
(* missing from it, and that run counts them.                              *)

LEMMA UsedBoth ==
  ASSUME BudgetInv
  PROVE  /\ \A q \in Processes : Used(run[q]) \in 0..Budget
         /\ DiskUsage <= Used(run["serve"]) + Used(run["cli"])
         /\ Budget \in Nat /\ Processes = {"serve", "cli"}
BY BudgetAssumption DEF BudgetInv, Processes

(* A step of one run: it counts what it adds to the disk, or it has just   *)
(* measured it.                                                            *)
LEMMA BudgetOfOne ==
  ASSUME TypeOK, BudgetInv, NEW p \in Processes, NEW r, OnlyRun(p, r), Used(r) \in 0..Budget,
         DiskUsage \in Nat, DiskUsage' \in Nat,
         DiskUsage' - DiskUsage <= Used(r) - Used(run[p]) \/ DiskUsage' <= Used(r)
  PROVE  BudgetInv'
<1>1. PICK o \in Processes : o # p /\ Processes = {p, o}
  BY UsedBoth
<1>2. run'[p] = r /\ run'[o] = run[o]
  BY <1>1, OtherRuns
<1>3. \A q \in Processes : Used(run[q])' \in 0..Budget
  <2>1. Used(run[p])' = Used(r) /\ Used(run[o])' = Used(run[o])
    BY <1>2 DEF Used
  <2> QED  BY <1>1, <2>1, UsedBoth
<1>4. PICK a \in 0..Budget, b \in 0..Budget, c \in 0..Budget :
        a = Used(run[p]) /\ b = Used(run[o]) /\ c = Used(r) /\ DiskUsage <= a + b
  BY <1>1, UsedBoth
<1>5. DiskUsage' <= c + b
  BY <1>4, UsedBoth
<1>6. DiskUsage' <= Used(run["serve"])' + Used(run["cli"])'
  <2>1. Used(run[p])' = c /\ Used(run[o])' = b
    BY <1>2, <1>4 DEF Used
  <2>2. (p = "serve" /\ o = "cli") \/ (p = "cli" /\ o = "serve")
    BY <1>1, UsedBoth
  <2> QED  BY <1>4, <1>5, <2>1, <2>2, UsedBoth
<1> QED  BY <1>3, <1>6 DEF BudgetInv

(* A step that adds no file and changes no run.                            *)
LEMMA BudgetOfNoFile ==
  ASSUME TypeOK, BudgetInv, OnDisk' \subseteq OnDisk, UNCHANGED run
  PROVE  BudgetInv'
<1>1. DiskUsage \in Nat /\ DiskUsage' \in Nat /\ DiskUsage' <= DiskUsage
  BY UsageType, FS_Subset, FS_CardinalityType DEF DiskUsage
<1>2. \A q \in Processes : Used(run[q])' = Used(run[q])
  BY DEF Used
<1>3. DiskUsage' <= Used(run["serve"])' + Used(run["cli"])'
  BY <1>1, <1>2, UsedBoth
<1> QED  BY <1>2, <1>3, UsedBoth DEF BudgetInv

(* A run that writes a file: it counts it, within its budget.              *)
LEMMA BudgetOfFetch ==
  ASSUME TypeOK, ShapeInv, BudgetInv, NEW p \in Processes, NEW r, FetchRun(p, r), r.pc = "row"
  PROVE  BudgetInv'
<1>1. PICK c : c = r.content /\ WriteFile(c) /\ MayWrite(run[p].used) /\ r.used = run[p].used + 1
  BY DEF FetchRun
<1>2. PICK u \in Nat : u = run[p].used /\ r.used = u + 1
  BY <1>1, TodoOfRun DEF FetchRun
<1>3. IsFiniteSet(OnDisk) /\ DiskUsage \in Nat
  BY UsageType
<1>4. OnDisk' \subseteq OnDisk \cup {c}
  BY <1>1 DEF WriteFile, OnDisk
<1>5. DiskUsage' \in Nat /\ DiskUsage' <= DiskUsage + 1
  <2>1. IsFiniteSet(OnDisk \cup {c}) /\ Cardinality(OnDisk \cup {c}) <= Cardinality(OnDisk) + 1
    BY <1>3, FS_AddElement DEF DiskUsage
  <2>2. IsFiniteSet(OnDisk') /\ Cardinality(OnDisk') <= Cardinality(OnDisk \cup {c})
    BY <1>4, <2>1, FS_Subset
  <2>3. Cardinality(OnDisk') \in Nat /\ Cardinality(OnDisk \cup {c}) \in Nat
    BY <2>1, <2>2, FS_CardinalityType
  <2> QED  BY <1>3, <2>1, <2>2, <2>3 DEF DiskUsage
<1>6. u + 1 <= Budget /\ Budget \in Nat
  <2>1. u # Unmeasured
    BY DEF Unmeasured
  <2> QED  BY <1>1, <1>2, <2>1, BudgetAssumption DEF MayWrite, WithinBudget, UsageBytes
<1>7. Used(r) = u + 1 /\ Used(run[p]) = u /\ OnlyRun(p, r)
  BY <1>2 DEF Used, FetchRun
<1>8. Used(r) \in 0..Budget
  BY <1>6, <1>7
<1>9. DiskUsage' - DiskUsage <= Used(r) - Used(run[p])
  <2>1. PICK d, e, a, b \in Nat : d = DiskUsage /\ e = DiskUsage' /\ a = Used(r) /\ b = Used(run[p])
    BY <1>3, <1>5, <1>7
  <2>2. e <= d + 1 /\ a = b + 1
    BY <1>5, <1>7, <2>1
  <2>3. e - d <= a - b
    BY <2>2
  <2> QED  BY <2>1, <2>3
<1>10. DiskUsage' - DiskUsage <= Used(r) - Used(run[p]) \/ DiskUsage' <= Used(r)
  BY <1>9
<1> QED  BY <1>3, <1>5, <1>7, <1>8, <1>10, BudgetOfOne

(* A step of a run that adds no file: it counts nothing any more, or the   *)
(* disk it finds within the budget, or what it counted.                    *)
LEMMA BudgetOfRun ==
  ASSUME TypeOK, BudgetInv, NEW p \in Processes, NEW r, OnlyRun(p, r), OnDisk' = OnDisk,
         \/ r.pc \notin {"fetch", "row", "read"}
         \/ r.used = DiskUsage /\ DiskUsage <= Budget /\ r.pc \in {"fetch", "row", "read"}
         \/ /\ r.used = run[p].used
            /\ r.pc \in {"fetch", "row", "read"} /\ run[p].pc \in {"fetch", "row", "read"}
  PROVE  BudgetInv'
<1>1. DiskUsage' = DiskUsage /\ DiskUsage \in Nat
  BY UsageType DEF DiskUsage
<1>2. PICK a \in 0..Budget : a = Used(run[p])
  BY UsedBoth
<1>3. CASE r.pc \notin {"fetch", "row", "read"}
  <2>1. Used(r) = Budget /\ Budget \in Nat
    BY <1>3, UsedBoth DEF Used
  <2> QED  BY <1>1, <1>2, <2>1, BudgetOfOne
<1>4. CASE r.used = DiskUsage /\ DiskUsage <= Budget /\ r.pc \in {"fetch", "row", "read"}
  <2>1. Used(r) = DiskUsage /\ Used(r) \in 0..Budget
    BY <1>1, <1>4, UsedBoth DEF Used
  <2> QED  BY <1>1, <2>1, BudgetOfOne
<1>5. CASE /\ r.used = run[p].used
           /\ r.pc \in {"fetch", "row", "read"} /\ run[p].pc \in {"fetch", "row", "read"}
  <2>1. Used(r) = a
    BY <1>2, <1>5 DEF Used
  <2> QED  BY <1>1, <1>2, <2>1, BudgetOfOne
<1> QED  BY <1>3, <1>4, <1>5

LEMMA BudgetOfIdle ==
  ASSUME TypeOK, BudgetInv, NEW p \in Processes, OnlyRun(p, Idle), OnDisk' = OnDisk
  PROVE  BudgetInv'
<1>1. PICK r : r = Idle /\ r.pc = "idle"
  BY IdleIsRun
<1> QED  BY <1>1, BudgetOfRun

(* A step that changes no file.                                            *)
LEMMA FilesOfSteps ==
  ASSUME TypeOK, ShapeInv, NEW p \in Processes,
         OpenStore(p) \/ FetchFails(p) \/ Crash(p) \/ PutRow(p) \/ ReadBack(p) \/ Commit(p) \/ Complete(p)
  PROVE  OnDisk' = OnDisk
<1>1. files' = files => OnDisk' = OnDisk
  BY DEF OnDisk
<1>2. CASE OpenStore(p)
  BY <1>1, <1>2 DEF OpenStore
<1>3. CASE FetchFails(p) \/ Crash(p)
  BY <1>1, <1>3, FailStepsRun
<1>4. CASE PutRow(p)
  BY <1>1, <1>4 DEF PutRow
<1>5. CASE ReadBack(p)
  <2>1. UNCHANGED <<files, meta, clock, published, rows, ledger, ran, check, left, seen>>
    BY <1>5, Zenon DEF ReadBack
  <2> QED  BY <1>1, <2>1
<1>6. CASE Commit(p)
  <2>1. PICK r : CommitRun(p, r)
    BY <1>6, CommitStepRun
  <2> QED  BY <1>1, <2>1 DEF CommitRun
<1>7. CASE Complete(p)
  <2>1. UNCHANGED <<files, meta, clock, published, rows, ran, check, left, seen>>
    BY <1>7, Zenon DEF Complete
  <2> QED  BY <1>1, <2>1
<1> QED  BY <1>2, <1>3, <1>4, <1>5, <1>6, <1>7

LEMMA NextBudget ==
  ASSUME TypeOK, ShapeInv, BudgetInv, [Next]_vars
  PROVE  BudgetInv'
<1>2. files' = files => OnDisk' = OnDisk
  BY DEF OnDisk
<1>3. ASSUME UNCHANGED <<files, run>>
      PROVE  BudgetInv'
  BY <1>2, <1>3, BudgetOfNoFile
<1>4. CASE JobStart
  <2>1. UNCHANGED <<files, meta, clock, published, rows, check, left, seen>>
    BY <1>4, Zenon DEF JobStart
  <2>2. CASE UNCHANGED run
    BY <1>3, <2>1, <2>2
  <2>3. CASE \E r : JobRun(r)
    <3>1. PICK r : OnlyRun("serve", r) /\ r.pc = "open" /\ "serve" \in Processes
      BY <2>3 DEF JobRun, Processes
    <3> QED  BY <1>2, <2>1, <3>1, BudgetOfRun
  <2> QED  BY <1>4, <2>2, <2>3, JobStartRun
<1>5. ASSUME NEW seed \in Seeds, SeedStart(seed)
      PROVE  BudgetInv'
  <2>1. UNCHANGED <<files, meta, clock, published, rows, ledger, ran, check, seen>>
    BY <1>5, Zenon DEF SeedStart
  <2>2. PICK r : OnlyRun("cli", r) /\ r.pc = "open" /\ "cli" \in Processes
    BY <1>5, SeedStartRun DEF SeedRun, Processes
  <2> QED  BY <1>2, <2>1, <2>2, BudgetOfRun
<1>6. ASSUME NEW p \in Processes, Fetch(p)
      PROVE  BudgetInv'
  <2>1. CASE Fail(p) /\ UNCHANGED files
    BY <1>2, <2>1, FailRun, BudgetOfIdle
  <2>2. ASSUME NEW r, FetchRun(p, r)
        PROVE  BudgetInv'
    <3>1. CASE r.pc = "row"
      BY <2>2, <3>1, BudgetOfFetch
    <3>2. CASE r.pc = "read"
      <4>1. OnlyRun(p, r) /\ OnDisk' = OnDisk
        BY <1>2, <2>2, <3>2 DEF FetchRun
      <4>2. r.used = run[p].used /\ run[p].pc \in {"fetch", "row", "read"}
        BY <2>2, <3>2 DEF FetchRun
      <4> QED  BY <3>2, <4>1, <4>2, BudgetOfRun
    <3> QED  BY <2>2, <3>1, <3>2 DEF FetchRun
  <2> QED  BY <1>6, <2>1, <2>2, FetchStepRun
<1>7. ASSUME NEW p \in Processes,
             OpenStore(p) \/ FetchFails(p) \/ Crash(p) \/ PutRow(p) \/ ReadBack(p) \/ Commit(p) \/ Complete(p)
      PROVE  BudgetInv'
  <2>1. OnDisk' = OnDisk
    BY <1>7, FilesOfSteps
  <2>2. \/ OnlyRun(p, Idle)
        \/ \E r : /\ OnlyRun(p, r)
                  /\ \/ r.pc \notin {"fetch", "row", "read"}
                     \/ r.used = DiskUsage /\ DiskUsage <= Budget /\ r.pc \in {"fetch", "row", "read"}
                     \/ /\ r.used = run[p].used
                        /\ r.pc \in {"fetch", "row", "read"} /\ run[p].pc \in {"fetch", "row", "read"}
    <3>1. CASE OpenStore(p)
      <4>1. WithinBudget(Unmeasured, 0) => DiskUsage <= Budget
        BY DEF WithinBudget, UsageBytes
      <4> QED  BY <3>1, <4>1, OpenStoreRun DEF OpenRun
    <3>2. CASE FetchFails(p) \/ Crash(p)
      BY <3>2, FailStepsRun
    <3>3. CASE PutRow(p)
      BY <3>3, PutRowRun DEF PutRun
    <3>4. CASE ReadBack(p)
      BY <3>4, ReadBackRun DEF ReadRun
    <3>5. CASE Commit(p)
      BY <3>5, CommitStepRun DEF CommitRun
    <3>6. CASE Complete(p)
      BY <3>6, CompleteRun DEF NextRun
    <3> QED  BY <1>7, <3>1, <3>2, <3>3, <3>4, <3>5, <3>6
  <2> QED  BY <2>1, <2>2, BudgetOfRun, BudgetOfIdle
<1>8. CASE VerifyStart \/ Verify
  BY <1>3, <1>8, VerifyRows
<1>9. ASSUME NEW c \in OnDisk, NEW how \in {"bad", "gone"}, Lose(c, how)
      PROVE  BudgetInv'
  <2>1. OnDisk' \subseteq OnDisk /\ UNCHANGED <<rows, published, run, seen>>
    BY <1>9, LoseKeeps
  <2> QED  BY <2>1, BudgetOfNoFile
<1>10. CASE (\E s \in Symbols : Publish(s)) \/ Advance
  BY <1>3, <1>10, WorldKeeps
<1>11. CASE UNCHANGED vars
  BY <1>3, <1>11 DEF vars
<1> QED
  BY <1>4, <1>5, <1>6, <1>7, <1>8, <1>9, <1>10, <1>11 DEF Next, Step

LEMMA InitBudget ==
  ASSUME Init
  PROVE  BudgetInv
<1>1. PICK F : F = {First(s) : s \in Seeded} /\ files = [c \in F |-> "good"]
  BY DEF Init
<1>2. OnDisk = F
  BY <1>1 DEF OnDisk
<1>3. DiskUsage <= Cardinality(Seeded) /\ Cardinality(Seeded) <= Budget
  BY <1>1, <1>2, SeededFiles, PlanAssumption DEF DiskUsage
<1>4. DiskUsage \in Nat /\ Cardinality(Seeded) \in Nat /\ Budget \in Nat
  BY <1>1, <1>2, SeededFiles, FS_CardinalityType, BudgetAssumption DEF DiskUsage
<1>5. \A p \in Processes : Used(run[p]) = Budget
  BY IdleIsRun DEF Init, Used
<1> QED  BY <1>3, <1>4, <1>5 DEF BudgetInv, Processes

(* store.ts:130-139, run.ts:88: whatever the two processes write at the    *)
(* same time, and whatever crashes or is lost, the disk holds at most a     *)
(* budget for each of them.                                                *)
THEOREM BudgetIsHeld == Spec => []OverrunIsBounded
<1>1. Init => TypeOK /\ ShapeInv /\ BudgetInv
  BY InitShape, InitBudget
<1>2. TypeOK /\ ShapeInv /\ BudgetInv /\ [Next]_vars => (TypeOK /\ ShapeInv /\ BudgetInv)'
  BY NextShape, NextBudget
<1>3. TypeOK /\ BudgetInv => OverrunIsBounded
  <2> SUFFICES ASSUME TypeOK, BudgetInv PROVE OverrunIsBounded
    OBVIOUS
  <2>2. Cardinality(Processes) = 2
    <3>1. IsFiniteSet({"serve"}) /\ Cardinality({"serve"}) = 1 /\ "cli" \notin {"serve"}
      BY FS_Singleton
    <3>2. Cardinality({"serve"} \cup {"cli"}) = 2
      BY <3>1, FS_AddElement
    <3>3. Processes = {"serve"} \cup {"cli"}
      BY DEF Processes
    <3> QED  BY <3>2, <3>3
  <2>3. PICK a \in 0..Budget, b \in 0..Budget : a = Used(run["serve"]) /\ b = Used(run["cli"])
    BY UsedBoth
  <2>4. DiskUsage <= a + b /\ Budget \in Nat
    BY <2>3, UsedBoth
  <2>5. DiskUsage <= 2 * Budget
    BY <2>4, UsageType
  <2> QED  BY <2>2, <2>5 DEF OverrunIsBounded
<1> QED  BY <1>1, <1>2, <1>3, PTL DEF Spec

-----------------------------------------------------------------------------
(* The cursor.  A run's requests start right after what is stored without  *)
(* a hole, and what they read has none.                                    *)

LEMMA RowsStay ==
  ASSUME rows' = rows, NEW s
  PROVE  StoredBars(s)' = StoredBars(s) /\ Quarantined(s)' = Quarantined(s)
BY DEF StoredBars, Quarantined

LEMMA CursorOfRun ==
  ASSUME TypeOK, CursorInv, rows' = rows, NEW p \in Processes, NEW r, OnlyRun(p, r),
         \A s \in Symbols : ~Quarantined(s) => RunStarts(r, s)
  PROVE  CursorInv'
<1>1. \A x \in rows' : x.kind = "bars" /\ ~x.missing => x.avail = 2 * x.session
  BY DEF CursorInv
<1>2. ASSUME NEW s \in Symbols, ~Quarantined(s)'
      PROVE  /\ \A d \in StoredBars(s)' : 1..(d - 1) \subseteq StoredBars(s)'
             /\ \A q \in Processes : RunStarts(run[q], s)'
  <2>1. StoredBars(s)' = StoredBars(s) /\ ~Quarantined(s)
    BY <1>2, RowsStay
  <2>2. \A d \in StoredBars(s) : 1..(d - 1) \subseteq StoredBars(s)
    BY <2>1 DEF CursorInv
  <2>3. ASSUME NEW q \in Processes
        PROVE  RunStarts(run[q], s)'
    <3>1. PICK x : x = run'[q] /\ (x = r \/ x = run[q])
      BY OtherRuns
    <3>2. RunStarts(x, s)
      BY <2>1, <3>1 DEF CursorInv
    <3> QED  BY <2>1, <3>1, <3>2 DEF RunStarts
  <2> QED  BY <2>1, <2>2, <2>3
<1> QED  BY <1>1, <1>2 DEF CursorInv

LEMMA CursorOfNone ==
  ASSUME TypeOK, CursorInv, rows' = rows, run' = run
  PROVE  CursorInv'
<1>1. \A x \in rows' : x.kind = "bars" /\ ~x.missing => x.avail = 2 * x.session
  BY DEF CursorInv
<1>2. ASSUME NEW s \in Symbols, ~Quarantined(s)'
      PROVE  /\ \A d \in StoredBars(s)' : 1..(d - 1) \subseteq StoredBars(s)'
             /\ \A q \in Processes : RunStarts(run[q], s)'
  <2>1. StoredBars(s)' = StoredBars(s) /\ ~Quarantined(s)
    BY <1>2, RowsStay
  <2>2. \A d \in StoredBars(s) : 1..(d - 1) \subseteq StoredBars(s)
    BY <2>1 DEF CursorInv
  <2>3. \A q \in Processes : RunStarts(run[q], s)
    BY <2>1 DEF CursorInv
  <2>4. \A q \in Processes : RunStarts(run[q], s)'
    BY <2>1, <2>3 DEF RunStarts
  <2> QED  BY <2>1, <2>2, <2>4
<1> QED  BY <1>1, <1>2 DEF CursorInv

(* The requests of a job start where its symbols' bars end.                *)
LEMMA JobStartsAtCursor ==
  ASSUME TypeOK, CursorInv, NEW r, JobRun(r), NEW s \in Symbols, ~Quarantined(s)
  PROVE  RunStarts(r, s)
<1>1. PICK latest : latest = [x \in Symbols |-> LatestAvailable(x)]
  OBVIOUS
<1>2. latest \in [Symbols -> -1..(2 * MaxSession)] /\ latest[s] = LatestAvailable(s)
  BY <1>1, LatestIsARow
<1>3. PICK plan \in PlanIncrementalIngest(latest, clock) :
        plan.groups # <<>> /\ plan.groups \in Seq(Groups) /\ r.requests = JobRequests(plan, AutoActions)
  BY <1>1 DEF JobRun
<1>4. PlanOf(latest, plan)
  BY <1>2, PlanHasGroups
<1>5. PICK q : q = r.requests /\ q = JobRequests(plan, AutoActions)
  BY <1>3
<1>6. \A i \in DOMAIN q : \E g \in DOMAIN plan.groups :
        q[i].symbols = plan.groups[g].symbols /\ q[i].range = plan.groups[g].range
  BY <1>3, <1>5, JobRequestsOfGroups
<1>7. ASSUME NEW i \in DOMAIN q, s \in q[i].symbols
      PROVE  1..(q[i].range[1] - 1) \subseteq StoredBars(s)
  <2>1. latest[s] # None /\ q[i].range[1] = NextSession(latest[s])
    BY <1>4, <1>6, <1>7 DEF PlanOf
  <2>2. PICK x \in rows : x.kind = "bars" /\ x.sym = s /\ x.avail = latest[s]
    BY <1>2, <2>1, LatestIsARow
  <2>3. PICK d \in 1..MaxSession : d = x.session
    BY DEF TypeOK, Row, Sessions
  <2>4. latest[s] = 2 * d
    BY <2>2, <2>3 DEF CursorInv, Quarantined
  <2>5. q[i].range[1] - 1 = d
    BY <2>1, <2>3, <2>4 DEF NextSession
  <2>6. d \in StoredBars(s)
    BY <2>2, <2>3 DEF StoredBars
  <2>7. 1..(d - 1) \subseteq StoredBars(s)
    BY <2>6 DEF CursorInv
  <2> QED  BY <2>3, <2>5, <2>6, <2>7
<1> QED  BY <1>5, <1>7 DEF RunStarts

(* What is committed has no hole, and goes on where the stored bars end.   *)
LEMMA CursorOfCommit ==
  ASSUME TypeOK, ShapeInv, CursorInv, NEW p \in Processes, NEW r, CommitRun(p, r)
  PROVE  CursorInv'
<1>1. PICK obs \in SUBSET Row : obs = run[p].obs /\ rows' = Appended(obs)
  BY DEF CommitRun
<1>2. OnlyRun(p, r) /\ run[p].pc = "commit" /\ r.requests = run[p].requests
  BY DEF CommitRun
<1>3. PICK req \in Requests : req = Request1(p) /\ req = Head(run[p].requests)
                              /\ req = run[p].requests[1] /\ 1 \in DOMAIN run[p].requests
  BY <1>2, RequestOfRun
<1>4. /\ rows \subseteq rows' /\ rows' \subseteq rows \cup obs
      /\ \A o \in obs : \E x \in rows' : /\ x.kind = o.kind /\ x.sym = o.sym
                                         /\ x.session = o.session /\ x.missing = o.missing
  BY <1>1, AppendedHasAll
<1>5. RunShape(run[p]) /\ RunContiguous(run[p])
  BY DEF ShapeInv
<1>6. \A o \in obs : /\ o.kind = req.kind /\ o.sym \in req.symbols /\ o.session \in Nat
                     /\ ~o.missing /\ (o.kind = "bars" => o.avail = 2 * o.session)
  BY <1>1, <1>2, <1>3, <1>5 DEF RunShape, Row, Sessions
<1>7. \A x \in rows' : x.kind = "bars" /\ ~x.missing => x.avail = 2 * x.session
  BY <1>4, <1>6 DEF CursorInv
<1>8. ASSUME NEW s \in Symbols, ~Quarantined(s)'
      PROVE  /\ \A d \in StoredBars(s)' : 1..(d - 1) \subseteq StoredBars(s)'
             /\ \A q \in Processes : RunStarts(run[q], s)'
  <2>1. ~Quarantined(s)
    BY <1>4, <1>8 DEF Quarantined
  <2>2. StoredBars(s) \subseteq StoredBars(s)' /\ BarSessions(obs, s) \subseteq StoredBars(s)'
    BY <1>4 DEF StoredBars, BarSessions
  <2>3. StoredBars(s)' \subseteq StoredBars(s) \cup BarSessions(obs, s)
    BY <1>4 DEF StoredBars, BarSessions
  <2>4. ASSUME NEW d \in StoredBars(s)'
        PROVE  1..(d - 1) \subseteq StoredBars(s)'
    <3>1. CASE d \in StoredBars(s)
      BY <2>1, <2>2, <3>1 DEF CursorInv
    <3>2. CASE d \in BarSessions(obs, s)
      <4>1. PICK o \in obs : o.kind = "bars" /\ o.sym = s /\ o.session = d
        BY <3>2 DEF BarSessions
      <4>2. req.range[1]..(d - 1) \subseteq BarSessions(obs, s)
        BY <1>1, <1>2, <1>3, <1>5, <4>1 DEF RunContiguous
      <4>3. req.kind = "bars" /\ s \in req.symbols
        BY <1>6, <4>1
      <4>4. 1..(req.range[1] - 1) \subseteq StoredBars(s)
        BY <1>3, <2>1, <4>3 DEF CursorInv, RunStarts
      <4>5. d \in Nat /\ req.range[1] \in Nat
        BY <1>6, <4>1 DEF Requests
      <4> QED  BY <2>2, <4>2, <4>4, <4>5
    <3> QED  BY <2>3, <3>1, <3>2
  <2>5. ASSUME NEW q \in Processes
        PROVE  RunStarts(run[q], s)'
    <3>1. run'[q].requests = run[q].requests
      BY <1>2, OtherRuns
    <3>2. RunStarts(run[q], s)
      BY <2>1 DEF CursorInv
    <3> QED  BY <2>2, <3>1, <3>2 DEF RunStarts
  <2> QED  BY <2>4, <2>5
<1> QED  BY <1>7, <1>8 DEF CursorInv

(* A row that is marked quarantines its symbol.                            *)
LEMMA CursorOfMark ==
  ASSUME TypeOK, CursorInv, NEW c, rows' = Appended(ToMark(c)), run' = run
  PROVE  CursorInv'
<1>1. PICK new \in SUBSET Row : new = ToMark(c) /\ \A o \in new : o.missing
  BY MarkedRows
<1>2. /\ rows \subseteq rows' /\ rows' \subseteq rows \cup new
      /\ rows' \subseteq Row
  BY <1>1, AppendedHasAll
<1>3. \A x \in rows' : x.kind = "bars" /\ ~x.missing => x.avail = 2 * x.session
  BY <1>1, <1>2 DEF CursorInv
<1>4. ASSUME NEW s \in Symbols, ~Quarantined(s)'
      PROVE  /\ \A d \in StoredBars(s)' : 1..(d - 1) \subseteq StoredBars(s)'
             /\ \A q \in Processes : RunStarts(run[q], s)'
  <2>1. ~Quarantined(s)
    BY <1>2, <1>4 DEF Quarantined
  <2>2. \A x \in rows' : x.kind = "bars" /\ x.sym = s => x \in rows
    BY <1>1, <1>2, <1>4 DEF Quarantined
  <2>3. StoredBars(s)' = StoredBars(s)
    BY <1>2, <2>2 DEF StoredBars
  <2>4. \A d \in StoredBars(s) : 1..(d - 1) \subseteq StoredBars(s)
    BY <2>1 DEF CursorInv
  <2>5. \A q \in Processes : RunStarts(run[q], s)
    BY <2>1 DEF CursorInv
  <2>6. \A q \in Processes : RunStarts(run[q], s)'
    BY <2>3, <2>5 DEF RunStarts
  <2> QED  BY <2>3, <2>4, <2>6
<1> QED  BY <1>3, <1>4 DEF CursorInv

LEMMA SameRequestsStart ==
  ASSUME TypeOK, CursorInv, NEW p \in Processes, NEW r, NEW s \in Symbols, ~Quarantined(s),
         \/ r.requests = run[p].requests
         \/ r.requests = <<>>
         \/ run[p].requests \in Seq(Requests) /\ run[p].requests # <<>> /\ r.requests = Tail(run[p].requests)
         \/ \A i \in DOMAIN r.requests : r.requests[i].range[1] = 1
  PROVE  RunStarts(r, s)
<1>1. RunStarts(run[p], s)
  BY DEF CursorInv
<1>2. CASE r.requests = run[p].requests
  BY <1>1, <1>2 DEF RunStarts
<1>3. CASE r.requests = <<>>
  BY <1>3 DEF RunStarts
<1>4. CASE run[p].requests \in Seq(Requests) /\ run[p].requests # <<>> /\ r.requests = Tail(run[p].requests)
  <2>1. PICK q \in Seq(Requests) : q = run[p].requests /\ q # <<>>
    BY <1>4
  <2>2. \A i \in DOMAIN Tail(q) : i + 1 \in DOMAIN q /\ Tail(q)[i] = q[i + 1]
    BY <2>1, HeadAndTail
  <2> QED  BY <1>1, <1>4, <2>1, <2>2 DEF RunStarts
<1>5. CASE \A i \in DOMAIN r.requests : r.requests[i].range[1] = 1
  BY <1>5 DEF RunStarts
<1> QED  BY <1>2, <1>3, <1>4, <1>5

(* Every step of a run but the commit leaves the table alone and works on  *)
(* the same requests, or on the rest of them.                              *)
LEMMA RequestsOfSteps ==
  ASSUME TypeOK, ShapeInv, NEW p \in Processes,
         OpenStore(p) \/ Fetch(p) \/ FetchFails(p) \/ Crash(p) \/ PutRow(p) \/ ReadBack(p) \/ Complete(p)
  PROVE  /\ rows' = rows
         /\ \E r : /\ OnlyRun(p, r)
                   /\ \/ r.requests = run[p].requests
                      \/ r.requests = <<>>
                      \/ /\ run[p].requests \in Seq(Requests) /\ run[p].requests # <<>>
                         /\ r.requests = Tail(run[p].requests)
<1>1. ASSUME OnlyRun(p, Idle)
      PROVE  \E r : OnlyRun(p, r) /\ r.requests = <<>>
  BY <1>1, IdleIsRun
<1>2. CASE OpenStore(p)
  <2>1. rows' = rows
    BY <1>2 DEF OpenStore
  <2> QED  BY <1>1, <1>2, <2>1, OpenStoreRun DEF OpenRun
<1>3. CASE Fetch(p)
  <2>1. rows' = rows
    BY <1>3, FetchStepRun
  <2> QED  BY <1>1, <1>3, <2>1, FetchKeeps DEF FetchRun
<1>4. CASE FetchFails(p) \/ Crash(p)
  BY <1>1, <1>4, FailStepsRun
<1>5. CASE PutRow(p)
  <2>1. rows' = rows
    BY <1>5 DEF PutRow
  <2> QED  BY <1>1, <1>5, <2>1, PutRowRun DEF PutRun
<1>6. CASE ReadBack(p)
  <2>1. UNCHANGED <<files, meta, clock, published, rows, ledger, ran, check, left, seen>>
    BY <1>6, Zenon DEF ReadBack
  <2> QED  BY <1>1, <1>6, <2>1, ReadBackRun DEF ReadRun
<1>7. CASE Complete(p)
  <2>1. run[p].pc = "event" /\ UNCHANGED <<files, meta, clock, published, rows, ran, check, left, seen>>
    BY <1>7, Zenon DEF Complete
  <2>2. run[p].requests \in Seq(Requests) /\ run[p].requests # <<>>
    BY <2>1, RequestOfRun
  <2> QED  BY <1>1, <1>7, <2>1, <2>2, CompleteRun DEF NextRun
<1> QED  BY <1>2, <1>3, <1>4, <1>5, <1>6, <1>7

LEMMA NextCursor ==
  ASSUME TypeOK, ShapeInv, CursorInv, [Next]_vars
  PROVE  CursorInv'
<1>1. ASSUME UNCHANGED <<rows, run>>
      PROVE  CursorInv'
  BY <1>1, CursorOfNone
<1>2. CASE JobStart
  <2>1. UNCHANGED <<files, meta, clock, published, rows, check, left, seen>>
    BY <1>2, Zenon DEF JobStart
  <2>2. CASE UNCHANGED run
    BY <1>1, <2>1, <2>2
  <2>3. CASE \E r : JobRun(r)
    <3>1. PICK r : JobRun(r) /\ OnlyRun("serve", r) /\ "serve" \in Processes
      BY <2>3 DEF JobRun, Processes
    <3> QED  BY <2>1, <3>1, CursorOfRun, JobStartsAtCursor
  <2> QED  BY <1>2, <2>2, <2>3, JobStartRun
<1>3. ASSUME NEW seed \in Seeds, SeedStart(seed)
      PROVE  CursorInv'
  <2>1. UNCHANGED <<files, meta, clock, published, rows, ledger, ran, check, seen>>
    BY <1>3, Zenon DEF SeedStart
  <2>2. PICK r : OnlyRun("cli", r) /\ "cli" \in Processes /\ \A i \in DOMAIN r.requests : r.requests[i].range[1] = 1
    BY <1>3, SeedStartRun DEF SeedRun, Processes
  <2>3. \A s \in Symbols : ~Quarantined(s) => RunStarts(r, s)
    BY <2>2, SameRequestsStart
  <2> QED  BY <2>1, <2>2, <2>3, CursorOfRun
<1>4. ASSUME NEW p \in Processes,
             OpenStore(p) \/ Fetch(p) \/ FetchFails(p) \/ Crash(p) \/ PutRow(p) \/ ReadBack(p) \/ Complete(p)
      PROVE  CursorInv'
  <2>1. PICK r : /\ OnlyRun(p, r)
                 /\ \/ r.requests = run[p].requests
                    \/ r.requests = <<>>
                    \/ /\ run[p].requests \in Seq(Requests) /\ run[p].requests # <<>>
                       /\ r.requests = Tail(run[p].requests)
    BY <1>4, RequestsOfSteps
  <2>2. \A s \in Symbols : ~Quarantined(s) => RunStarts(r, s)
    BY <2>1, SameRequestsStart
  <2>3. rows' = rows
    BY <1>4, RequestsOfSteps
  <2> QED  BY <2>1, <2>2, <2>3, CursorOfRun
<1>5. ASSUME NEW p \in Processes, Commit(p)
      PROVE  CursorInv'
  BY <1>5, CommitStepRun, CursorOfCommit
<1>6. CASE VerifyStart \/ Verify
  BY <1>1, <1>6, VerifyRows, CursorOfMark
<1>7. ASSUME NEW c \in OnDisk, NEW how \in {"bad", "gone"}, Lose(c, how)
      PROVE  CursorInv'
  BY <1>1, <1>7, LoseKeeps
<1>8. CASE (\E s \in Symbols : Publish(s)) \/ Advance
  BY <1>1, <1>8, WorldKeeps
<1>9. CASE UNCHANGED vars
  BY <1>1, <1>9 DEF vars
<1> QED
  BY <1>2, <1>3, <1>4, <1>5, <1>6, <1>7, <1>8, <1>9 DEF Next, Step

LEMMA InitCursor ==
  ASSUME Init
  PROVE  CursorInv
<1>1. \A r \in rows : r.kind = "bars" /\ r.session = 1 /\ r.avail = 2
  BY DEF Init, Observation
<1>2. \A s \in Symbols : StoredBars(s) \subseteq {1}
  BY <1>1 DEF StoredBars
<1>3. run = [p \in Processes |-> Idle]
  BY DEF Init
<1>4. \A p \in Processes, s \in Symbols : RunStarts(run[p], s)
  BY <1>3, IdleIsRun DEF RunStarts
<1> QED  BY <1>1, <1>2, <1>4 DEF CursorInv

(* A set of sessions that holds every earlier session has no hole.         *)
LEMMA ClosedBelow ==
  ASSUME NEW n \in Nat, NEW S \in SUBSET (1..n), \A d \in S : 1..(d - 1) \subseteq S
  PROVE  S = 1..Cardinality(S)
<1>1. CASE S = {}
  BY <1>1, FS_EmptySet
<1>2. CASE S # {}
  <2>1. S \in SUBSET (-1..n)
    OBVIOUS
  <2>2. PICK m \in S : \A y \in S : y <= m
    BY <1>2, <2>1, MaxOfBounded
  <2>3. S = 1..m
    <3>1. 1..(m - 1) \subseteq S /\ m \in 1..n
      BY <2>2
    <3>2. \A d \in 1..m : d = m \/ d \in 1..(m - 1)
      BY <3>1
    <3>3. S \subseteq 1..m
      BY <2>2
    <3> QED  BY <3>1, <3>2, <3>3
  <2>4. Cardinality(1..m) = m
    BY FS_Interval
  <2> QED  BY <2>3, <2>4
<1> QED  BY <1>1, <1>2

(* serve.ts:98-101: no session before the last one stored is skipped for a *)
(* symbol none of whose bars was quarantined.                              *)
THEOREM CursorIsSound == Spec => []CursorLeavesNoHole
<1>1. Init => TypeOK /\ ShapeInv /\ CursorInv
  BY InitShape, InitCursor
<1>2. TypeOK /\ ShapeInv /\ CursorInv /\ [Next]_vars => (TypeOK /\ ShapeInv /\ CursorInv)'
  BY NextShape, NextCursor
<1>3. TypeOK /\ CursorInv => CursorLeavesNoHole
  <2> SUFFICES ASSUME TypeOK, CursorInv, NEW s \in Symbols, ~Quarantined(s)
               PROVE  NoHole(s)
    BY DEF CursorLeavesNoHole
  <2>1. PICK S : S = StoredBars(s)
    OBVIOUS
  <2>2. S \in SUBSET (1..MaxSession) /\ MaxSession \in Nat
    BY <2>1, PlanAssumption DEF StoredBars, TypeOK, Row, Sessions
  <2>3. \A d \in S : 1..(d - 1) \subseteq S
    BY <2>1 DEF CursorInv
  <2>4. S = 1..Cardinality(S)
    BY <2>2, <2>3, ClosedBelow
  <2> QED  BY <2>1, <2>4 DEF NoHole
<1> QED  BY <1>1, <1>2, <1>3, PTL DEF Spec

-----------------------------------------------------------------------------
(* The actions come before the bars.                                       *)

LEMMA HoldsStays ==
  ASSUME NEW S, NEW T, S \subseteq T, NEW kind, NEW at, Holds(S, kind, at)
  PROVE  Holds(T, kind, at)
BY DEF Holds

LEMMA PairsStay ==
  ASSUME TypeOK, TypeOK', Grows, NEW r \in Run, RunPairs(r)
  PROVE  RunPairs(r)'
<1>1. ASSUME NEW at \in r.asked
      PROVE  at[2] <= published'[at[1]]
  <2>1. at[1] \in Symbols /\ at[2] \in Nat
    BY PlanAssumption DEF Run
  <2>2. at[2] <= published[at[1]]
    BY DEF RunPairs
  <2>3. published[at[1]] <= published'[at[1]]
    BY <2>1 DEF Grows
  <2>4. published[at[1]] \in Nat /\ published'[at[1]] \in Nat
    BY <2>1 DEF TypeOK
  <2> QED  BY <2>1, <2>2, <2>3, <2>4
<1>2. \A at : Holds(rows, "actions", at) => Holds(rows', "actions", at)
  BY HoldsStays DEF Grows
<1> QED  BY <1>1, <1>2 DEF RunPairs, Holds

LEMMA GathersStay ==
  ASSUME Grows, NEW r, RunGathers(r)
  PROVE  RunGathers(r)'
<1>1. \A at : Holds(rows, "actions", at) => Holds(rows', "actions", at)
  BY HoldsStays DEF Grows
<1> QED  BY <1>1 DEF RunGathers, Holds

LEMMA ActionsStay ==
  ASSUME Grows, ActionsComeFirst, seen' = seen
  PROVE  ActionsComeFirst'
BY DEF Grows, ActionsComeFirst

LEMMA ActionsOfRun ==
  ASSUME TypeOK, TypeOK', AutoActions, ActionsInv, Grows, NEW p \in Processes, NEW r, OnlyRun(p, r),
         ActionsComeFirst', RunPairs(r)', RunGathers(r)'
  PROVE  ActionsInv'
<1>1. ASSUME NEW q \in Processes
      PROVE  RunPairs(run[q])' /\ RunGathers(run[q])'
  <2>1. PICK x : x = run'[q] /\ (x = r \/ x = run[q])
    BY OtherRuns
  <2>2. RunPairs(x)' /\ RunGathers(x)'
    <3>1. CASE x = r
      BY <3>1
    <3>2. CASE x = run[q]
      <4>1. RunPairs(x) /\ RunGathers(x) /\ x \in Run
        BY <3>2 DEF ActionsInv, TypeOK
      <4> QED  BY <4>1, PairsStay, GathersStay
    <3> QED  BY <2>1, <3>1, <3>2
  <2> QED  BY <2>1, <2>2 DEF RunPairs, RunGathers, Holds
<1> QED  BY <1>1 DEF ActionsInv

LEMMA ActionsOfNone ==
  ASSUME TypeOK, TypeOK', AutoActions, ActionsInv, Grows, run' = run, seen' = seen
  PROVE  ActionsInv'
<1>1. ASSUME NEW q \in Processes
      PROVE  RunPairs(run[q])' /\ RunGathers(run[q])'
  <2>1. PICK x : x = run[q] /\ x = run'[q]
    OBVIOUS
  <2>2. RunPairs(x) /\ RunGathers(x) /\ x \in Run
    BY <2>1 DEF ActionsInv, TypeOK
  <2>3. RunPairs(x)' /\ RunGathers(x)'
    BY <2>2, PairsStay, GathersStay
  <2> QED  BY <2>1, <2>3 DEF RunPairs, RunGathers, Holds
<1>2. ActionsComeFirst'
  BY ActionsStay DEF ActionsInv
<1> QED  BY <1>1, <1>2 DEF ActionsInv

(* A run that asked for nothing has nothing to wait for.                   *)
LEMMA NothingAsked ==
  ASSUME NEW r, r.asked = {}
  PROVE  RunPairs(r) /\ RunPairs(r)' /\ RunGathers(r) /\ RunGathers(r)'
BY DEF RunPairs, RunGathers

(* The job asks for the actions of every group right before its bars.      *)
LEMMA ActionsOfJob ==
  ASSUME TypeOK, AutoActions, NEW r, JobRun(r)
  PROVE  RunPairs(r) /\ RunGathers(r)
<1>1. PICK latest : latest = [x \in Symbols |-> LatestAvailable(x)]
  OBVIOUS
<1>2. latest \in [Symbols -> -1..(2 * MaxSession)]
  BY <1>1, LatestIsARow
<1>3. PICK plan \in PlanIncrementalIngest(latest, clock) :
        plan.groups # <<>> /\ plan.groups \in Seq(Groups) /\ r.requests = JobRequests(plan, AutoActions)
  BY <1>1 DEF JobRun
<1>4. PICK q : q = r.requests /\ q = JobRequests(plan, AutoActions)
  BY <1>3
<1>5. Paired(q)
  BY <1>3, <1>4, JobRequestsOfGroups
<1>6. r.pc = "open" /\ \A at \in r.asked : at[2] <= published[at[1]]
  BY DEF JobRun
<1> QED
  BY <1>4, <1>5, <1>6 DEF RunPairs, RunGathers, Paired

LEMMA ActionsOfOpen ==
  ASSUME TypeOK, AutoActions, ActionsInv, NEW p \in Processes, NEW r, OpenRun(p, r)
  PROVE  RunPairs(r) /\ RunGathers(r)
<1>1. RunPairs(r)
  BY DEF RunPairs, OpenRun, ActionsInv
<1>2. RunGathers(r)
  BY DEF RunGathers, OpenRun
<1> QED  BY <1>1, <1>2

(* The answer holds every action that was asked for.                       *)
LEMMA ActionsOfFetch ==
  ASSUME TypeOK, ShapeInv, AutoActions, ActionsInv, NEW p \in Processes, NEW r, FetchRun(p, r)
  PROVE  RunPairs(r) /\ RunGathers(r)
<1>1. RunPairs(run[p]) /\ RunGathers(run[p]) /\ run[p].pc = "fetch"
  BY DEF ActionsInv, FetchRun
<1>2. RunPairs(r)
  BY <1>1 DEF RunPairs, FetchRun
<1>3. PICK req \in Requests : req = Request1(p) /\ req = Head(r.requests)
  BY <1>1, RequestOfRun DEF FetchRun
<1>4. PICK s \in Symbols : s = Head(r.todo) /\ r.content = Answer(req, s)
  BY <1>1, <1>3, TodoOfRun DEF FetchRun
<1>5. ASSUME NEW at \in r.asked, at[1] = s, InRange(at[2], req)
      PROVE  at \in r.content
  <2>1. at \in Symbols \X (1..MaxSession)
    BY PlanAssumption DEF FetchRun, OnlyRun, Run
  <2>2. PICK d \in Nat : at = <<s, d>> /\ d = at[2]
    BY <1>5, <2>1
  <2>3. d <= published[s]
    BY <1>2, <1>5, <2>2 DEF RunPairs
  <2>4. req.range[1] \in Nat /\ req.range[2] \in Nat
    BY DEF Requests
  <2> QED  BY <1>4, <1>5, <2>2, <2>3, <2>4 DEF Answer, InRange
<1>6. RunGathers(r)
  BY <1>1, <1>3, <1>4, <1>5 DEF RunGathers, FetchRun
<1> QED  BY <1>2, <1>6

(* What is read holds the actions of the symbol that is done.              *)
LEMMA ActionsOfRead ==
  ASSUME TypeOK, ShapeInv, AutoActions, ActionsInv, NEW p \in Processes, NEW r, ReadRun(p, r)
  PROVE  RunPairs(r) /\ RunGathers(r)
<1>1. RunPairs(run[p]) /\ RunGathers(run[p]) /\ run[p].pc = "read" /\ RunShape(run[p])
  BY DEF ActionsInv, ReadRun, ShapeInv
<1>2. RunPairs(r)
  BY <1>1 DEF RunPairs, ReadRun
<1>3. PICK req \in Requests : req = Request1(p) /\ req = Head(r.requests)
  BY <1>1, RequestOfRun DEF ReadRun
<1>4. PICK todo \in Seq(Symbols) : todo = run[p].todo /\ todo # <<>>
  BY <1>1, TodoOfRun
<1>5. /\ Head(todo) = todo[1]
      /\ \A n \in DOMAIN todo : n # 1 => n - 1 \in DOMAIN Tail(todo) /\ Tail(todo)[n - 1] = todo[n]
  BY <1>4, HeadAndTail
<1>6. PICK c : c = run[p].content
  OBVIOUS
<1>7. r.obs = run[p].obs \cup Parsed(req.kind, c) /\ r.todo = Tail(todo) /\ r.asked = run[p].asked
  BY <1>3, <1>4, <1>6 DEF ReadRun
<1>8. ASSUME NEW at \in r.asked, req.kind = "actions", at[1] \in req.symbols, InRange(at[2], req)
      PROVE  \/ \E n \in DOMAIN r.todo : r.todo[n] = at[1]
             \/ Holds(r.obs, "actions", at)
             \/ Holds(rows, "actions", at)
  <2>1. \/ \E n \in DOMAIN todo : todo[n] = at[1]
        \/ Holds(run[p].obs, "actions", at)
        \/ Holds(rows, "actions", at)
    BY <1>1, <1>3, <1>4, <1>7, <1>8 DEF RunGathers, Request1
  <2>2. CASE at[1] = Head(todo)
    <3>1. at \in c
      BY <1>1, <1>3, <1>4, <1>6, <1>7, <1>8, <2>2 DEF RunGathers, Request1
    <3>2. at \in ActionDays
      BY DEF ReadRun, OnlyRun, Run
    <3>3. "actions" \in Kinds
      BY DEF Kinds
    <3>4. \E o \in Parsed("actions", c) : o.kind = "actions" /\ o.sym = at[1] /\ o.session = at[2]
      BY <3>1, <3>2, <3>3, ParsedHasAll
    <3> QED  BY <1>7, <1>8, <3>4 DEF Holds
  <2>3. CASE at[1] # Head(todo) /\ \E n \in DOMAIN todo : todo[n] = at[1]
    BY <1>5, <1>7, <2>3
  <2>4. CASE Holds(run[p].obs, "actions", at)
    BY <1>7, <2>4 DEF Holds
  <2> QED  BY <2>1, <2>2, <2>3, <2>4
<1>9. RunGathers(r)
  BY <1>3, <1>8 DEF RunGathers, ReadRun
<1> QED  BY <1>2, <1>9

(* The bars that are committed have their actions in the table already.    *)
LEMMA ActionsOfCommit ==
  ASSUME TypeOK, TypeOK', ShapeInv, AutoActions, ActionsInv, Grows, NEW p \in Processes, NEW r, CommitRun(p, r)
  PROVE  RunPairs(r)' /\ RunGathers(r)' /\ ActionsComeFirst'
<1>1. RunPairs(run[p]) /\ RunGathers(run[p]) /\ run[p].pc = "commit" /\ RunShape(run[p])
  BY DEF ActionsInv, CommitRun, ShapeInv
<1>2. PICK obs \in SUBSET Row : obs = run[p].obs /\ rows' = Appended(obs)
  BY DEF CommitRun
<1>3. PICK req \in Requests : req = Request1(p) /\ req = Head(r.requests) /\ req = run[p].requests[1]
                              /\ 1 \in DOMAIN run[p].requests /\ req = Head(run[p].requests)
  BY <1>1, RequestOfRun DEF CommitRun
<1>4. /\ rows \subseteq rows'
      /\ \A o \in obs : \E x \in rows' : /\ x.kind = o.kind /\ x.sym = o.sym
                                         /\ x.session = o.session /\ x.missing = o.missing
  BY <1>2, AppendedHasAll
<1>5. \A at : Holds(rows, "actions", at) \/ Holds(obs, "actions", at) => Holds(rows', "actions", at)
  BY <1>4 DEF Holds
<1>6. r.asked = run[p].asked /\ r.todo = run[p].todo /\ r.requests = run[p].requests
      /\ r.pc = "event" /\ r.todo = <<>> /\ r \in Run
  BY <1>1 DEF CommitRun, RunShape, OnlyRun
<1>7. RunPairs(r)
  BY <1>1, <1>6 DEF RunPairs
<1>8. RunPairs(r)'
  BY <1>6, <1>7, PairsStay
<1>9. ASSUME NEW at \in r.asked, req.kind = "actions", at[1] \in req.symbols, InRange(at[2], req)
      PROVE  Holds(rows', "actions", at)
  <2>1. \/ \E n \in DOMAIN run[p].todo : run[p].todo[n] = at[1]
        \/ Holds(obs, "actions", at)
        \/ Holds(rows, "actions", at)
    BY <1>1, <1>2, <1>3, <1>6, <1>9 DEF RunGathers
  <2>2. DOMAIN run[p].todo = {}
    BY <1>6
  <2> QED  BY <1>5, <2>1, <2>2
<1>10. RunGathers(r)'
  BY <1>3, <1>6, <1>9 DEF RunGathers, Holds
<1>11. seen'.bars = seen.bars \cup (BarsOf(obs) \cap r.asked)
  BY <1>2, <1>6 DEF CommitRun, TypeOK
<1>12. ASSUME NEW at \in BarsOf(obs), at \in r.asked
       PROVE  Holds(rows, "actions", at)
  <2>1. PICK o \in obs : o.kind = "bars" /\ at = <<o.sym, o.session>>
    BY DEF BarsOf
  <2>2. at[1] = o.sym /\ at[2] = o.session
    BY <2>1
  <2>3. req.kind = "bars" /\ o.sym \in req.symbols /\ InRange(o.session, req)
    BY <1>1, <1>2, <1>3, <2>1 DEF RunShape
  <2> QED  BY <1>1, <1>3, <1>6, <1>12, <2>2, <2>3 DEF RunPairs
<1>13. ASSUME NEW at \in seen'.bars
       PROVE  \E x \in rows' : x.kind = "actions" /\ <<x.sym, x.session>> = at
  <2>1. CASE at \in seen.bars
    <3>1. \E x \in rows : x.kind = "actions" /\ <<x.sym, x.session>> = at
      BY <2>1 DEF ActionsInv, ActionsComeFirst
    <3> QED  BY <1>4, <3>1
  <2>2. CASE at \in BarsOf(obs) /\ at \in r.asked
    <3>1. PICK x \in rows' : x.kind = "actions" /\ x.sym = at[1] /\ x.session = at[2]
      BY <1>5, <1>12, <2>2 DEF Holds
    <3>2. at = <<at[1], at[2]>>
      BY <2>2 DEF BarsOf
    <3> QED  BY <3>1, <3>2
  <2> QED  BY <1>11, <1>13, <2>1, <2>2
<1>14. ActionsComeFirst'
  BY <1>13 DEF ActionsComeFirst
<1> QED  BY <1>8, <1>10, <1>14

(* What the next request is paired with has been stored.                   *)
LEMMA ActionsOfNext ==
  ASSUME TypeOK, ShapeInv, AutoActions, ActionsInv, NEW p \in Processes, NEW r, NextRun(p, r)
  PROVE  RunPairs(r) /\ RunGathers(r)
<1>1. RunPairs(run[p]) /\ RunGathers(run[p]) /\ run[p].pc = "event" /\ RunShape(run[p])
  BY DEF ActionsInv, NextRun, ShapeInv
<1>2. PICK q \in Seq(Requests) : q = run[p].requests /\ q # <<>> /\ r.requests = Tail(q) /\ Head(q) = q[1]
  BY <1>1, RequestOfRun DEF NextRun
<1>3. \A i \in DOMAIN Tail(q) : i + 1 \in DOMAIN q /\ Tail(q)[i] = q[i + 1] /\ i \in Nat \ {0}
  BY HeadAndTail, <1>2
<1>4. \A i \in DOMAIN Tail(q) : i # 1 => Tail(q)[i - 1] = q[i]
  BY <1>2
<1>5. r.asked = run[p].asked /\ run[p].todo = <<>> /\ run[p].obs = {}
  BY <1>1 DEF NextRun, RunShape
<1>6. ASSUME NEW at \in r.asked, NEW i \in DOMAIN Tail(q),
             Tail(q)[i].kind = "bars", at[1] \in Tail(q)[i].symbols, InRange(at[2], Tail(q)[i])
      PROVE  IF i = 1 THEN Holds(rows, "actions", at)
             ELSE Tail(q)[i - 1] = [Tail(q)[i] EXCEPT !.kind = "actions"]
  <2>1. PICK b \in Requests : b = q[i + 1] /\ b = Tail(q)[i] /\ i + 1 \in DOMAIN q /\ i + 1 # 1
    BY <1>3
  <2>2. q[i] = [b EXCEPT !.kind = "actions"]
    <3>1. (i + 1) - 1 = i
      BY <1>3
    <3>2. q[(i + 1) - 1] = [q[i + 1] EXCEPT !.kind = "actions"]
      BY <1>1, <1>2, <1>5, <1>6, <2>1 DEF RunPairs
    <3> QED  BY <2>1, <3>1, <3>2
  <2>3. CASE i # 1
    BY <1>4, <2>1, <2>2, <2>3
  <2>4. CASE i = 1
    <3>1. PICK a : a = Head(q) /\ a = [b EXCEPT !.kind = "actions"]
      BY <1>2, <2>2, <2>4
    <3>2. a.kind = "actions" /\ a.symbols = b.symbols /\ a.range = b.range
      BY <2>1, <3>1 DEF Requests
    <3>3. at[1] \in a.symbols /\ InRange(at[2], a)
      BY <1>6, <2>1, <3>2 DEF InRange
    <3>4. \/ \E n \in DOMAIN run[p].todo : run[p].todo[n] = at[1]
          \/ Holds(run[p].obs, "actions", at)
          \/ Holds(rows, "actions", at)
      BY <1>1, <1>2, <1>5, <3>1, <3>2, <3>3 DEF RunGathers
    <3>5. DOMAIN run[p].todo = {} /\ ~Holds(run[p].obs, "actions", at)
      BY <1>5 DEF Holds
    <3> QED  BY <2>4, <3>4, <3>5
  <2> QED  BY <2>3, <2>4
<1>7. RunPairs(r)
  <2>1. \A at \in r.asked : at[2] <= published[at[1]]
    BY <1>1, <1>5 DEF RunPairs
  <2>2. \A at \in r.asked : \A i \in DOMAIN r.requests :
          r.requests[i].kind = "bars" /\ at[1] \in r.requests[i].symbols /\ InRange(at[2], r.requests[i]) =>
            IF i = 1 THEN Holds(rows, "actions", at)
            ELSE r.requests[i - 1] = [r.requests[i] EXCEPT !.kind = "actions"]
    <3>1. PICK t : t = Tail(q) /\ t = r.requests
      BY <1>2
    <3> QED  BY <1>6, <3>1, Zenon
  <2> QED  BY <2>1, <2>2, Zenon DEF RunPairs
<1>8. RunGathers(r)
  BY DEF RunGathers, NextRun
<1> QED  BY <1>7, <1>8

LEMMA NextActions ==
  ASSUME TypeOK, ShapeInv, AutoActions, ActionsInv, [Next]_vars
  PROVE  ActionsInv'
<1>1. TypeOK' /\ Grows
  BY NextShape
<1>2. ActionsComeFirst
  BY DEF ActionsInv
<1>3. ASSUME UNCHANGED <<run, seen>>
      PROVE  ActionsInv'
  BY <1>1, <1>3, ActionsOfNone
<1>4. ASSUME NEW p \in Processes, OnlyRun(p, Idle), seen'.bars = seen.bars
      PROVE  ActionsInv'
  <2>1. PICK r : r = Idle /\ r.asked = {}
    BY IdleIsRun
  <2>2. ActionsComeFirst'
    BY <1>1, <1>2, <1>4 DEF ActionsComeFirst, Grows
  <2> QED  BY <1>1, <1>4, <2>1, <2>2, NothingAsked, ActionsOfRun
<1>5. ASSUME NEW p \in Processes, NEW r, OnlyRun(p, r), RunPairs(r), RunGathers(r), seen'.bars = seen.bars
      PROVE  ActionsInv'
  <2>1. RunPairs(r)' /\ RunGathers(r)'
    BY <1>1, <1>5, PairsStay, GathersStay DEF OnlyRun
  <2>2. ActionsComeFirst'
    BY <1>1, <1>2, <1>5 DEF ActionsComeFirst, Grows
  <2> QED  BY <1>1, <1>5, <2>1, <2>2, ActionsOfRun
<1>6. CASE JobStart
  <2>1. UNCHANGED <<files, meta, clock, published, rows, check, left, seen>>
    BY <1>6, Zenon DEF JobStart
  <2>2. CASE UNCHANGED run
    BY <1>3, <2>1, <2>2
  <2>3. CASE \E r : JobRun(r)
    <3>1. PICK r : JobRun(r) /\ OnlyRun("serve", r) /\ "serve" \in Processes
      BY <2>3 DEF JobRun, Processes
    <3> QED  BY <1>5, <2>1, <3>1, ActionsOfJob
  <2> QED  BY <1>6, <2>2, <2>3, JobStartRun
<1>7. ASSUME NEW seed \in Seeds, SeedStart(seed)
      PROVE  ActionsInv'
  <2>1. UNCHANGED <<files, meta, clock, published, rows, ledger, ran, check, seen>>
    BY <1>7, Zenon DEF SeedStart
  <2>2. PICK r : OnlyRun("cli", r) /\ "cli" \in Processes /\ r.asked = {}
    BY <1>7, SeedStartRun DEF SeedRun, Processes
  <2> QED  BY <1>5, <2>1, <2>2, NothingAsked
<1>8. ASSUME NEW p \in Processes, OpenStore(p)
      PROVE  ActionsInv'
  <2>1. seen' = seen
    BY <1>8 DEF OpenStore
  <2> QED  BY <1>4, <1>5, <1>8, <2>1, OpenStoreRun, ActionsOfOpen DEF OpenRun
<1>9. ASSUME NEW p \in Processes, Fetch(p)
      PROVE  ActionsInv'
  <2>1. CASE Fail(p) /\ UNCHANGED files
    <3>1. seen'.bars = seen.bars
      BY <1>9, FetchStepRun
    <3> QED  BY <1>4, <2>1, <3>1, FailRun
  <2>2. ASSUME NEW r, FetchRun(p, r)
        PROVE  ActionsInv'
    <3>1. OnlyRun(p, r) /\ seen'.bars = seen.bars
      BY <2>2 DEF FetchRun, TypeOK
    <3> QED  BY <1>5, <2>2, <3>1, ActionsOfFetch
  <2> QED  BY <1>9, <2>1, <2>2, FetchStepRun
<1>10. ASSUME NEW p \in Processes, FetchFails(p) \/ Crash(p)
       PROVE  ActionsInv'
  BY <1>4, <1>10, FailStepsRun
<1>11. ASSUME NEW p \in Processes, PutRow(p)
       PROVE  ActionsInv'
  <2>1. seen' = seen
    BY <1>11 DEF PutRow
  <2>2. ASSUME NEW r, PutRun(p, r)
        PROVE  RunPairs(r) /\ RunGathers(r) /\ OnlyRun(p, r)
    <3>1. RunPairs(run[p]) /\ RunGathers(run[p])
      BY DEF ActionsInv
    <3> QED  BY <2>2, <3>1 DEF PutRun, RunPairs, RunGathers
  <2> QED  BY <1>4, <1>5, <1>11, <2>1, <2>2, PutRowRun
<1>12. ASSUME NEW p \in Processes, ReadBack(p)
       PROVE  ActionsInv'
  <2>1. UNCHANGED <<files, meta, clock, published, rows, ledger, ran, check, left, seen>>
    BY <1>12, Zenon DEF ReadBack
  <2>2. ASSUME NEW r, ReadRun(p, r)
        PROVE  ActionsInv'
    BY <1>5, <2>1, <2>2, ActionsOfRead DEF ReadRun
  <2> QED  BY <1>4, <1>12, <2>1, <2>2, ReadBackRun
<1>13. ASSUME NEW p \in Processes, Commit(p)
       PROVE  ActionsInv'
  <2>1. PICK r : CommitRun(p, r) /\ OnlyRun(p, r)
    BY <1>13, CommitStepRun DEF CommitRun
  <2> QED  BY <1>1, <2>1, ActionsOfCommit, ActionsOfRun
<1>14. ASSUME NEW p \in Processes, Complete(p)
       PROVE  ActionsInv'
  <2>1. UNCHANGED <<files, meta, clock, published, rows, ran, check, left, seen>>
    BY <1>14, Zenon DEF Complete
  <2>2. ASSUME NEW r, NextRun(p, r)
        PROVE  ActionsInv'
    BY <1>5, <2>1, <2>2, ActionsOfNext DEF NextRun
  <2> QED  BY <1>4, <1>14, <2>1, <2>2, CompleteRun
<1>15. CASE VerifyStart \/ Verify
  BY <1>3, <1>15, VerifyRows
<1>16. ASSUME NEW c \in OnDisk, NEW how \in {"bad", "gone"}, Lose(c, how)
       PROVE  ActionsInv'
  BY <1>3, <1>16, LoseKeeps
<1>17. CASE (\E s \in Symbols : Publish(s)) \/ Advance
  BY <1>3, <1>17, WorldKeeps
<1>18. CASE UNCHANGED vars
  BY <1>3, <1>18 DEF vars
<1> QED
  BY <1>6, <1>7, <1>8, <1>9, <1>10, <1>11, <1>12, <1>13, <1>14, <1>15, <1>16, <1>17, <1>18 DEF Next, Step

LEMMA InitActions ==
  ASSUME Init
  PROVE  ActionsInv
<1>1. seen.bars = {} /\ run = [p \in Processes |-> Idle]
  BY DEF Init
<1>2. \A p \in Processes : RunPairs(run[p]) /\ RunGathers(run[p])
  BY <1>1, IdleIsRun, NothingAsked
<1> QED  BY <1>1, <1>2 DEF ActionsInv, ActionsComeFirst

(* serve.ts:104-107: where a job that fetches actions has moved the cursor *)
(* over a session, the actions of that session are stored, if they were    *)
(* published when the job started.                                         *)
THEOREM ActionsAreFirst == Spec => []ActionsComeFirst
<1>1. Init => TypeOK /\ ShapeInv /\ ActionsInv
  BY InitShape, InitActions
<1>2. TypeOK /\ ShapeInv /\ ActionsInv /\ [Next]_vars => (TypeOK /\ ShapeInv /\ ActionsInv)'
  <2> SUFFICES ASSUME TypeOK, ShapeInv, ActionsInv, [Next]_vars
               PROVE  TypeOK' /\ ShapeInv' /\ ActionsInv'
    OBVIOUS
  <2>1. CASE AutoActions
    BY <2>1, NextShape, NextActions
  <2>2. CASE ~AutoActions
    BY <2>2, NextShape DEF ActionsInv
  <2> QED  BY <2>1, <2>2
<1>3. ActionsInv => ActionsComeFirst
  BY DEF ActionsInv, ActionsComeFirst
<1> QED  BY <1>1, <1>2, <1>3, PTL DEF Spec

=============================================================================
