------------------------- MODULE CorporateActions -------------------------
(***************************************************************************)
(* Corporate actions: what one is, what a vendor says of it and what the   *)
(* owner signed (packages/core/src/data).                                  *)
(***************************************************************************)
EXTENDS Integers, FiniteSets, Sequences

-----------------------------------------------------------------------------
(***************************************************************************)
(* Corporate actions as they are stored and read (packages/core/src/market/*)
(* types.ts).  An action is [kind, entity, date, value, pay, stock, unread]*)
(* where date is the day it takes effect and value the ratio of a split,   *)
(* the amount of a dividend, the cash of a merger, the first close of what *)
(* is spun off or the last price of a delisting; stock is the stock leg of *)
(* a merger and unread the keys its kind does not have.                    *)
(***************************************************************************)

Absent == -100

Structural == {"SPINOFF", "MERGER", "DELISTING"}

Terminal(a) == a.kind \in {"MERGER", "DELISTING"}

(* What corporateActionFromValue accepts.                                  *)
WellFormed(a) ==
  \/ a.kind = "SPLIT" /\ a.value > 0
  \/ a.kind = "CASH_DIVIDEND" /\ a.value >= 0 /\ a.pay >= a.date
  \/ /\ a.kind = "MERGER" /\ {a.value, a.stock} # {Absent}
     /\ (a.value = Absent \/ a.value >= 0) /\ (a.stock = Absent \/ a.stock > 0)
  \/ a.kind = "SPINOFF" /\ (a.value = Absent \/ a.value > 0)
  \/ a.kind = "DELISTING" /\ (a.value = Absent \/ a.value >= 0)
  \/ a.kind \in {"SYMBOL_CHANGE", "STALE_BAR", "CORRECTED_BAR"}

(* What the total-return series would pass over with a warning.            *)
Unvalued(a) ==
  \/ a.kind \in {"SPINOFF", "DELISTING"} /\ a.value = Absent
  \/ a.kind = "MERGER" /\ a.stock # Absent

(* The last day the series applies anything to what a terminal action ends.*)
SeriesLastDate(a) == IF a.kind = "DELISTING" THEN a.date ELSE a.date - 1

(* What a hand-written action must be to be worth an approval.             *)
Curable(a) == WellFormed(a) /\ a.unread = {} /\ ~Unvalued(a)

KeyOf(r) == <<r.entity, r.kind, r.date>>

(* Rows of one entity and kind: one action a day, the reconciled row before*)
(* the single-sourced one, and then the later.                             *)
DedupeRows(rows) ==
  {r \in rows : \A o \in rows \ {r} : o.action.date = r.action.date =>
     \/ o.single /\ ~r.single
     \/ o.single = r.single /\ o.id < r.id}

(* Not before the day the action takes effect.                             *)
CorporateActionObservation(a, locator, announced, flags) ==
  [source |-> a.kind, locator |-> locator, entity |-> a.entity, effective |-> a.date,
   avail |-> IF announced # Absent /\ announced >= a.date THEN announced ELSE a.date, value |-> a, flags |-> flags]

-----------------------------------------------------------------------------
(***************************************************************************)
(* The vendored file of corporate actions and its ingest (packages/core/   *)
(* src/data/adapters/corporate-actions.ts).  A file is [dataset, signed,   *)
(* approvedAt, hash, actions] and an entry [action, announced, sources].   *)
(* The hash of a sequence of entries is the sequence.                      *)
(***************************************************************************)

CorporateActionsHash(actions) == actions

(* Slip: the hash is not compared with the actions.                        *)
ApprovedUnhashed(file, now) == file.signed /\ file.approvedAt # Absent /\ file.approvedAt <= now

(* Signed, by the time of the ingest, and for the actions it holds.        *)
Approved(file, now) ==
  /\ file.signed /\ file.approvedAt # Absent /\ file.approvedAt <= now
  /\ file.hash = CorporateActionsHash(file.actions)

Ending(actions, entity) == {i \in DOMAIN actions : Terminal(actions[i].action) /\ actions[i].action.entity = entity}

(* Dated after the end of its series: it would never be applied.           *)
PastEnd(actions, a) ==
  /\ a.kind \in {"CASH_DIVIDEND", "SPLIT", "SPINOFF"}
  /\ \E i \in Ending(actions, a.entity) : a.date > SeriesLastDate(actions[i].action)

Parsable(actions) ==
  /\ \A i \in DOMAIN actions : Curable(actions[i].action) /\ ~PastEnd(actions, actions[i].action)
  /\ \A i \in DOMAIN actions : Cardinality(Ending(actions, actions[i].action.entity)) <= 1
  /\ \A i, j \in DOMAIN actions : i # j => KeyOf(actions[i].action) # KeyOf(actions[j].action)

(* The whole file or nothing.  Fewer than two sources are flagged.         *)
ParseCorporateActions(file, now) ==
  IF Approved(file, now) /\ Parsable(file.actions)
  THEN {CorporateActionObservation(e.action, <<file.dataset, KeyOf(e.action)>>, e.announced,
          IF Cardinality(e.sources) < 2 THEN {"UNVERIFIED_SINGLE_SOURCE"} ELSE {}) :
          e \in {file.actions[i] : i \in DOMAIN file.actions}}
  ELSE {}

(* The file is stored once it has parsed: a refused one leaves nothing.    *)
IngestCorporateActions(files, file, now) ==
  [observations |-> ParseCorporateActions(file, now),
   files |-> IF Approved(file, now) /\ Parsable(file.actions) THEN files \cup {file} ELSE files,
   event |-> IF ~Approved(file, now) THEN "ingest.refused_unapproved"
             ELSE IF Parsable(file.actions) THEN "ingest.completed" ELSE "none"]

-----------------------------------------------------------------------------
(***************************************************************************)
(* The files the owner types (packages/core/src/data/curated-corporate-    *)
(* actions.ts).  A row of the CSV is its line and its fields as they read: *)
(* [line, width, source, entity, kind, date, value, pay, document], Absent *)
(* for a field that is blank and Unreadable for one that does not parse.   *)
(***************************************************************************)

CONSTANTS PublisherSources,   \* issuer:<name> and exchange:<name>
          AutomatedSources    \* the names the adapters write

ASSUME AutomatedAssumption == AutomatedSources \subseteq PublisherSources

Unreadable == -200

Width == 7

(* A typed row never passes for a fetched one.                             *)
SourceAllowed(source) == source \in PublisherSources \ AutomatedSources

RowReads(row) ==
  /\ row.width = Width
  /\ SourceAllowed(row.source) /\ row.entity # Absent /\ row.document # Absent
  /\ row.kind \in {"CASH_DIVIDEND", "SPLIT"}
  /\ row.date \notin {Absent, Unreadable} /\ row.value \notin {Absent, Unreadable} /\ row.value > 0
  /\ row.pay # Absent => row.kind = "CASH_DIVIDEND" /\ row.pay # Unreadable /\ row.pay >= row.date

RowKey(row) == <<row.source, row.entity, row.kind, row.date>>

(* The lines with a problem: unreadable, or listed already by a line that  *)
(* reads.                                                                  *)
BadLines(rows) ==
  {rows[i].line : i \in {j \in DOMAIN rows :
     \/ ~RowReads(rows[j])
     \/ \E k \in 1..(j - 1) : RowReads(rows[k]) /\ RowKey(rows[k]) = RowKey(rows[j])}}

CuratedRecord(row) ==
  [source |-> row.source, entity |-> row.entity, kind |-> row.kind, date |-> row.date, value |-> row.value,
   pay |-> row.pay, announced |-> Absent]

(* Every problem is reported at once, and then there is no record.         *)
ParseCuratedActions(rows) ==
  [problems |-> BadLines(rows),
   records |-> IF BadLines(rows) = {} THEN {CuratedRecord(rows[i]) : i \in DOMAIN rows} ELSE {}]

(* The envelope of the structural actions; the reconciler checks each.     *)
SelectorReads(sel) == sel.kind \in {"CASH_DIVIDEND", "SPLIT"} /\ sel.date # Unreadable

StructuralReads(entries) ==
  \A i \in DOMAIN entries :
    /\ entries[i].sources # {} /\ entries[i].sources \subseteq PublisherSources
    /\ entries[i].announced # Unreadable
    /\ \A sel \in entries[i].supersedes \cup entries[i].keeps : SelectorReads(sel)

=============================================================================
