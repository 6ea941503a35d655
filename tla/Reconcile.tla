-------------------------------- MODULE Reconcile --------------------------------
(***************************************************************************)
(* The reconciliation of corporate actions across sources (packages/core/  *)
(* src/data/corporate-actions-reconcile.ts): records and curated structural*)
(* actions in, an unsigned vendored file and a report out.                 *)
(*                                                                         *)
(* A record is [source, entity, kind, date, value, pay, announced], a      *)
(* selector [source, kind, date] and a structural entry [action, sources,  *)
(* announced, supersedes, keeps].  The options are [windows, entities,     *)
(* misspelled, preferred, tolerance, near], misspelled being the names that*)
(* differ from one of entities in case alone.                              *)
(***************************************************************************)
EXTENDS CorporateActions, Ordered

InAny(windows, d) == \E w \in windows : w[1] <= d /\ d <= w[2]

DayOf(r) == <<r.entity, r.date>>

RecordId(r) == <<r.entity, r.source, r.kind, r.date>>

Agrees(a, b, tolerance) ==
  LET d == a.value - b.value
  IN IF a.kind = "CASH_DIVIDEND" THEN -tolerance <= d /\ d <= tolerance ELSE d = 0

StoredAction(r) ==
  [kind |-> r.kind, entity |-> r.entity, date |-> r.date, value |-> r.value, stock |-> Absent, unread |-> {},
   pay |-> IF r.pay = Absent THEN r.date ELSE r.pay]

-----------------------------------------------------------------------------
(* The curated structural actions.                                         *)

InEntities(structural, opts) == {i \in DOMAIN structural : structural[i].action.entity \in opts.entities}

InScope(structural, opts) == {i \in InEntities(structural, opts) : InAny(opts.windows, structural[i].action.date)}

(* The ends of an entity, written to the file or not.                      *)
EndsOf(structural, opts, entity) ==
  {i \in InEntities(structural, opts) : Terminal(structural[i].action) /\ structural[i].action.entity = entity}

Beyond(structural, opts, r) ==
  {i \in EndsOf(structural, opts, r.entity) : r.date > SeriesLastDate(structural[i].action)}

(* What a list of selectors names: on the day of the action by default.    *)
Named(s, list) ==
  {[entity |-> s.action.entity, source |-> r.source, kind |-> r.kind,
    date |-> IF r.date = Absent THEN s.action.date ELSE r.date] : r \in list}

Supersedes(structural, i) == {RecordId(n) : n \in Named(structural[i], structural[i].supersedes)}

Keeps(structural, i) == {RecordId(n) : n \in Named(structural[i], structural[i].keeps)}

(* Slip: a record past the end can be kept.                                *)
SelectorsAllowedLate(s) ==
  LET late(n) == Terminal(s.action) /\ n.date > SeriesLastDate(s.action)
  IN /\ \A n \in Named(s, s.supersedes \cup s.keeps) : n.date = s.action.date \/ late(n)
     /\ Named(s, s.supersedes) \cap Named(s, s.keeps) = {}

(* A list reaches another day only past the end its action sets, where     *)
(* nothing can be kept.                                                    *)
SelectorsAllowed(s) ==
  LET late(n) == Terminal(s.action) /\ n.date > SeriesLastDate(s.action)
  IN /\ \A n \in Named(s, s.supersedes \cup s.keeps) : n.date = s.action.date \/ late(n)
     /\ Named(s, s.supersedes) \cap Named(s, s.keeps) = {}
     /\ \A n \in Named(s, s.keeps) : ~late(n)

StructuralAccepted(structural, opts) ==
  LET a(i) == structural[i].action
  IN /\ \A i \in DOMAIN structural : a(i).kind \in Structural /\ Curable(a(i)) /\ a(i).entity \notin opts.misspelled
     /\ \A i \in InEntities(structural, opts) : Cardinality(EndsOf(structural, opts, a(i).entity)) <= 1
     /\ \A i, j \in InScope(structural, opts) : i # j => KeyOf(a(i)) # KeyOf(a(j))
     /\ \A i \in InScope(structural, opts) :
          /\ SelectorsAllowed(structural[i])
          /\ a(i).kind = "SPINOFF" => Beyond(structural, opts, a(i)) = {}

-----------------------------------------------------------------------------
(* The records.                                                            *)

SourcesOf(records) == {r.source : r \in records}

InWindow(records, opts) == {r \in records : r.entity \in opts.entities /\ InAny(opts.windows, r.date)}

SupersededIds(structural, opts) == UNION {Supersedes(structural, i) : i \in InScope(structural, opts)}

KeptIds(structural, opts) == UNION {Keeps(structural, i) : i \in InScope(structural, opts)}

(* A record on the day of a structural action, or past an end, must be     *)
(* classified by the curator.                                              *)
MustClassify(structural, opts, r) ==
  \/ Beyond(structural, opts, r) # {}
  \/ \E i \in InScope(structural, opts) : DayOf(structural[i].action) = DayOf(r)

(* Slip: everything on the day of a structural action is set aside.        *)
ReconciledOnQuietDays(records, structural, opts) ==
  {r \in InWindow(records, opts) : ~MustClassify(structural, opts, r)}

(* The records that are reconciled.                                        *)
Reconciled(records, structural, opts) ==
  {r \in InWindow(records, opts) :
     MustClassify(structural, opts, r) => RecordId(r) \notin SupersededIds(structural, opts)}

SetAside(records, structural, opts) == InWindow(records, opts) \ Reconciled(records, structural, opts)

Accepted(records, structural, opts) ==
  /\ Cardinality(SourcesOf(records)) >= 2
  /\ \E i \in DOMAIN opts.preferred : opts.preferred[i] \in SourcesOf(records)
  /\ opts.windows # {} /\ \A w \in opts.windows : w[1] <= w[2]
  /\ StructuralAccepted(structural, opts)
  /\ SupersededIds(structural, opts) \cap KeptIds(structural, opts) = {}
  /\ \A r, o \in InWindow(records, opts) : RecordId(r) = RecordId(o) => r = o
  /\ \A r \in InWindow(records, opts) :
       /\ Beyond(structural, opts, r) \subseteq InScope(structural, opts)
       /\ MustClassify(structural, opts, r) =>
            RecordId(r) \in SupersededIds(structural, opts) \cup KeptIds(structural, opts)

-----------------------------------------------------------------------------
(* The file.                                                               *)

(* The first preferred source that reports the action, or the first one.   *)
Chosen(group, preferred) ==
  LET named == {i \in DOMAIN preferred : preferred[i] \in SourcesOf(group)}
  IN IF named = {} THEN CHOOSE r \in group : \A o \in group : r.source <= o.source
     ELSE CHOOSE r \in group : \E i \in named : r.source = preferred[i] /\ \A j \in named : i <= j

Agreeing(group, opts) == {r \in group : Agrees(Chosen(group, opts.preferred), r, opts.tolerance)}

(* Slip: every source that reports the action confirms it.                 *)
EntryOfAll(group, opts) ==
  LET chosen == Chosen(group, opts.preferred)
  IN [action |-> StoredAction(chosen), announced |-> chosen.announced, sources |-> SourcesOf(group)]

EntryOf(group, opts) ==
  LET chosen == Chosen(group, opts.preferred)
      agreeing == Agreeing(group, opts)
  IN [action |-> StoredAction(chosen), announced |-> chosen.announced,
      sources |-> IF Cardinality(agreeing) >= 2 THEN SourcesOf(agreeing) ELSE {chosen.source}]

Groups(records) == {{r \in records : KeyOf(r) = k} : k \in {KeyOf(r) : r \in records}}

StructuralEntries(structural, opts) ==
  {[action |-> structural[i].action, announced |-> structural[i].announced, sources |-> structural[i].sources] :
     i \in InScope(structural, opts)}

Entries(records, structural, opts) ==
  StructuralEntries(structural, opts)
  \cup {EntryOf(g, opts) : g \in Groups(Reconciled(records, structural, opts))}

(* Keys are compared as text: the entity, the kind, the date.              *)
KindRank == [k \in {"CASH_DIVIDEND", "DELISTING", "MERGER", "SPINOFF", "SPLIT"} |->
  CASE k = "CASH_DIVIDEND" -> 1 [] k = "DELISTING" -> 2 [] k = "MERGER" -> 3 [] k = "SPINOFF" -> 4 [] OTHER -> 5]

KeyBefore(a, b) ==
  \/ a[1] < b[1]
  \/ a[1] = b[1] /\ KindRank[a[2]] < KindRank[b[2]]
  \/ a[1] = b[1] /\ a[2] = b[2] /\ a[3] < b[3]

(* One order for the whole file, whatever the order of the records.        *)
InKeyOrder(entries) ==
  Ranked(entries, {p \in entries \X entries : KeyBefore(KeyOf(p[1].action), KeyOf(p[2].action))})

(* An action that would not be stored refuses the run.                     *)
ReconcileAccepted(records, structural, opts) ==
  /\ Accepted(records, structural, opts)
  /\ \A e \in Entries(records, structural, opts) : WellFormed(e.action)

ReconciledFile(records, structural, opts) ==
  LET actions == InKeyOrder(Entries(records, structural, opts))
  IN [dataset |-> "reconciled", signed |-> FALSE, approvedAt |-> Absent,
      hash |-> CorporateActionsHash(actions), actions |-> actions]

-----------------------------------------------------------------------------
(* The report.                                                             *)

NearMatches(r, records, opts) ==
  LET present == SourcesOf({o \in records : KeyOf(o) = KeyOf(r)})
  IN {o \in records : /\ o.source \notin present /\ o.entity = r.entity /\ o.kind = r.kind
                      /\ o.date # r.date /\ r.date - opts.near <= o.date /\ o.date <= r.date + opts.near}

Finding(group, records, opts) ==
  LET chosen == Chosen(group, opts.preferred)
  IN [key |-> KeyOf(chosen), values |-> {<<r.source, r.value>> : r \in group},
      near |-> {<<o.source, o.date, o.value>> : o \in NearMatches(chosen, records, opts)},
      written |-> <<chosen.source, chosen.value>>]

Verified(e) == Cardinality(e.sources) >= 2

Report(records, structural, opts) ==
  LET reconciled == Reconciled(records, structural, opts)
      found == {g \in Groups(reconciled) : Cardinality(Agreeing(g, opts)) < 2 \/ Agreeing(g, opts) # g}
      entries == Entries(records, structural, opts)
      mine(e) == {x \in entries : x.action.entity = e}
  IN [disagreements |-> {Finding(g, reconciled, opts) : g \in {x \in found : Cardinality(x) >= 2}},
      oneSided |-> {Finding(g, reconciled, opts) : g \in {x \in found : Cardinality(x) = 1}},
      setAside |-> SetAside(records, structural, opts),
      outOfScope |-> DOMAIN structural \ InScope(structural, opts),
      verified |-> {e \in entries : Verified(e)},
      perEntity |-> [e \in opts.entities |-> <<Cardinality({x \in mine(e) : Verified(x)}),
                                               Cardinality({x \in mine(e) : ~Verified(x)})>>]]

=============================================================================
