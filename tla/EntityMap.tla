------------------------------ MODULE EntityMap ------------------------------
(***************************************************************************)
(* The bitemporal map from symbols to entities (packages/core/src/market/  *)
(* entity-map.ts), and the weekly sync that feeds it the corporate actions *)
(* a decision may read (decision/shadow-job.ts).                           *)
(*                                                                         *)
(* A date and the instant it starts at are one number; a processing delay  *)
(* is part of the instant an action is known from.  A sync is a            *)
(* transaction: it works on a copy, one action at a time, that is          *)
(* committed or dropped as a whole.                                        *)
(***************************************************************************)
EXTENDS Integers, Sequences

CONSTANTS Symbols, Entities,
          Actions,     \* the identity actions the owner may ingest
          MaxTime,     \* bound on the clock
          MaxRows      \* bound on the actions ingested

Floor == -1000         \* MATERIALIZED_RANGE_FLOOR: before every date
Open == 1000           \* effectiveTo is null: after every date

ASSUME ActionsAssumption ==
  /\ Actions \subseteq
       [kind : {"SYMBOL_CHANGE", "MERGER", "DELISTING", "SPINOFF"}, entity : Entities,
        old : Symbols, new : Symbols, date : 0..MaxTime, known : 0..MaxTime]
  /\ \A a \in Actions : a.date <= a.known
ASSUME BoundsAssumption == MaxTime \in 0..(Open - 1) /\ MaxRows \in Nat

VARIABLES clock,
          rows,      \* the actions the repository holds, by id
          ranges,    \* entity_symbols, by id
          work,      \* the same, as the sync in progress sees it
          todo,      \* the actions it has still to apply
          sync,      \* the decision instant it is for, None when there is none
          synced     \* the decisions synced for: [at, seen], rows known then

vars == <<clock, rows, ranges, work, todo, sync, synced>>

None == -1

RangeRow(symbol, entity, from, to, known) ==
  [symbol |-> symbol, entity |-> entity, from |-> from, to |-> to, known |-> known,
   closeKnown |-> IF to = Open THEN None ELSE known]

Init ==
  /\ clock = 0 /\ rows = <<>> /\ ranges = <<>>
  /\ work = <<>> /\ todo = {} /\ sync = None /\ synced = {}

-----------------------------------------------------------------------------
(* Ranges, in a table t.                                                   *)

OfSymbol(t, symbol) == {i \in DOMAIN t : t[i].symbol = symbol}

OfEntity(t, entity) == {i \in DOMAIN t : t[i].entity = entity}

(* Slip: a range that starts inside the new one is not seen.               *)
OverlapsStart(a, b) == a.from <= b.from /\ a.to >= b.from

Overlaps(a, b) == a.from <= b.to /\ a.to >= b.from

(* close: only an open range changes, and only to be closed.               *)
Close(t, ids, last, known) ==
  [i \in DOMAIN t |-> IF i \in ids /\ t[i].to = Open
                      THEN [t[i] EXCEPT !.to = last, !.closeKnown = known] ELSE t[i]]

Identical(t, r) ==
  {i \in OfSymbol(t, r.symbol) :
     t[i].entity = r.entity /\ t[i].from = r.from /\ t[i].to = r.to}

(* The ranges the loop of register gets to, in the order of their starts:  *)
(* those of other entities before the first identical one.                 *)
Reached(t, r) ==
  {i \in OfSymbol(t, r.symbol) :
     /\ t[i].entity # r.entity /\ Overlaps(t[i], r)
     /\ \A j \in Identical(t, r) : t[i].from < t[j].from \/ (t[i].from = t[j].from /\ i < j)}

(* Another entity's open range, started before, gives way to the new one.  *)
GivesWay(e, r) == e.to = Open /\ e.from < r.from

RegisterRefuses(t, r) ==
  \/ r.to < r.from
  \/ \E i \in Reached(t, r) : ~GivesWay(t[i], r)

Register(t, r) ==
  LET closed == Close(t, Reached(t, r), r.from - 1, r.known)
  IN IF Identical(t, r) # {} THEN closed ELSE Append(closed, r)

CloseEntityRefuses(t, entity, last) ==
  \E i \in OfEntity(t, entity) : t[i].to = Open /\ t[i].from > last

CloseEntity(t, entity, last, known) == Close(t, OfEntity(t, entity), last, known)

-----------------------------------------------------------------------------
(* Resolution, as far as it was knowable at the instant k.                 *)

(* Slip: a close counts before it is known.                                *)
HeldOnByNow(e, date, k) == e.from <= date /\ e.to >= date /\ e.known <= k

HeldOn(e, date, k) ==
  e.from <= date /\ (e.to >= date \/ e.closeKnown > k) /\ e.known <= k

Holders(t, symbol, date, k) ==
  {t[i].entity : i \in {j \in OfSymbol(t, symbol) : HeldOn(t[j], date, k)}}

(* The one entity of the symbol; none, or two, are no answer.              *)
Resolve(t, symbol, date, k) ==
  LET holders == Holders(t, symbol, date, k)
  IN IF \E e \in holders : holders = {e} THEN holders ELSE {}

SymbolsFor(t, entity, k) == {t[i].symbol : i \in {j \in OfEntity(t, entity) : t[j].known <= k}}

-----------------------------------------------------------------------------
(* applyAction.                                                            *)

OldOpen(t, a) ==
  {i \in OfSymbol(t, a.old) : t[i].entity = a.entity /\ t[i].to = Open /\ t[i].from < a.date}

OldKnown(t, a) == \E i \in OfSymbol(t, a.old) : t[i].entity = a.entity

OldRange(a) == RangeRow(a.old, a.entity, Floor, a.date - 1, a.known)

NewRange(a) == RangeRow(a.new, a.entity, a.date, Open, a.known)

(* The old symbol as the change leaves it; what nobody registered is made  *)
(* up from the action, back to the floor.                                  *)
Unnamed(t, a) ==
  IF OldKnown(t, a) THEN Close(t, OldOpen(t, a), a.date - 1, a.known) ELSE Register(t, OldRange(a))

LastDate(a) == IF a.kind = "DELISTING" THEN a.date ELSE a.date - 1

ApplyRefuses(t, a) ==
  CASE a.kind = "SYMBOL_CHANGE" ->
         \/ ~OldKnown(t, a) /\ RegisterRefuses(t, OldRange(a))
         \/ RegisterRefuses(Unnamed(t, a), NewRange(a))
    [] a.kind = "SPINOFF" -> RegisterRefuses(t, NewRange(a))
    [] OTHER -> CloseEntityRefuses(t, a.entity, LastDate(a))

ApplyAction(t, a) ==
  CASE a.kind = "SYMBOL_CHANGE" -> Register(Unnamed(t, a), NewRange(a))
    [] a.kind = "SPINOFF" -> Register(t, NewRange(a))
    [] OTHER -> CloseEntity(t, a.entity, LastDate(a), a.known)

-----------------------------------------------------------------------------
(* The actions the decision at the instant k may read, by row.             *)
Visible(k) == {i \in DOMAIN rows : rows[i].known <= k}

(* They are applied by the date they take effect, then as ingested.        *)
(* Slip: as they were ingested.                                            *)
SoonerIngested(i, j) == i < j

Sooner(i, j) == rows[i].date < rows[j].date \/ (rows[i].date = rows[j].date /\ i < j)

Soonest == {i \in todo : \A j \in todo \ {i} : Sooner(i, j)}

(* The owner ingests an action, when it becomes known or long after.       *)
Ingest(a) ==
  /\ sync = None /\ Len(rows) < MaxRows
  /\ rows' = Append(rows, a)
  /\ UNCHANGED <<clock, ranges, work, todo, sync, synced>>

(* Decisions are synced for in their order.                                *)
SyncStart ==
  /\ sync = None
  /\ \A s \in synced : s.at < clock
  /\ sync' = clock /\ work' = ranges /\ todo' = Visible(clock)
  /\ UNCHANGED <<clock, rows, ranges, synced>>

SyncApply ==
  /\ sync # None
  /\ \E i \in Soonest :
       /\ ~ApplyRefuses(work, rows[i])
       /\ work' = ApplyAction(work, rows[i]) /\ todo' = todo \ {i}
  /\ UNCHANGED <<clock, rows, ranges, sync, synced>>

(* A conflict throws, and the whole transaction with it.                   *)
SyncThrow ==
  /\ sync # None
  /\ \E i \in Soonest : ApplyRefuses(work, rows[i])
  /\ work' = <<>> /\ todo' = {} /\ sync' = None
  /\ UNCHANGED <<clock, rows, ranges, synced>>

SyncCommit ==
  /\ sync # None /\ todo = {}
  /\ ranges' = work /\ work' = <<>> /\ sync' = None
  /\ synced' = synced \cup {[at |-> sync, seen |-> Visible(sync)]}
  /\ UNCHANGED <<clock, rows, todo>>

Advance ==
  /\ sync = None /\ clock < MaxTime
  /\ clock' = clock + 1
  /\ UNCHANGED <<rows, ranges, work, todo, sync, synced>>

Next ==
  \/ \E a \in Actions : Ingest(a)
  \/ SyncStart \/ SyncApply \/ SyncThrow \/ SyncCommit
  \/ Advance

Spec == Init /\ [][Next]_vars

-----------------------------------------------------------------------------
(* What the map promises.                                                  *)

(* With all that is known now, a symbol is never two entities' on a date,  *)
(* in a sync or out of it, however symbols are reused.                     *)
OneHolder(t) ==
  \A i, j \in DOMAIN t :
    t[i].symbol = t[j].symbol /\ t[i].entity # t[j].entity
      => t[i].to < t[j].from \/ t[j].to < t[i].from

SymbolsHaveOneHolder == OneHolder(ranges) /\ OneHolder(work)

(* Nothing came to be known under a decision since it was synced for, and  *)
(* what is known since takes effect before or after all it had seen: not   *)
(* between two of those actions.                                           *)
Undisturbed(s) ==
  /\ Visible(s.at) = s.seen
  /\ \A i \in DOMAIN rows \ s.seen : ~\E j, k \in s.seen : Sooner(j, i) /\ Sooner(i, k)

(* A sync for a later decision does not disturb an earlier one that is     *)
(* left undisturbed: it resolves symbols and entities for ever as it did.  *)
EarlierDecisionsStand ==
  [][\A s \in synced :
       Undisturbed(s) =>
         /\ \A symbol \in Symbols, date \in 0..MaxTime :
              Resolve(ranges', symbol, date, s.at) = Resolve(ranges, symbol, date, s.at)
         /\ \A entity \in Entities :
              SymbolsFor(ranges', entity, s.at) = SymbolsFor(ranges, entity, s.at)]_vars

(* An entity that is known to have ended resolves under no symbol after,   *)
(* however often its actions are applied again, unless one of a later day  *)
(* names it again.                                                         *)
Ends(s, entity) ==
  {i \in s.seen : rows[i].entity = entity /\ rows[i].kind \in {"MERGER", "DELISTING"}}

Namings(s, entity) == {i \in s.seen : rows[i].entity = entity} \ Ends(s, entity)

EndedStaysEnded ==
  \A s \in synced, entity \in Entities :
    LET last == {LastDate(rows[i]) : i \in Ends(s, entity)}
    IN sync = None /\ Undisturbed(s) /\ last # {}
       /\ (\A i \in Namings(s, entity), d \in last : rows[i].date < d)
       => \A symbol \in Symbols, date \in 0..MaxTime :
            (\A d \in last : date > d) => entity \notin Resolve(ranges, symbol, date, s.at)

-----------------------------------------------------------------------------
(* An instance: two entities that pass a symbol between them, on days that *)
(* make ranges meet, and are known when they take effect or later.         *)
Act(kind, entity, old, new, date, known) ==
  [kind |-> kind, entity |-> entity, old |-> old, new |-> new, date |-> date, known |-> known]

PassedAround ==
  {Act("SYMBOL_CHANGE", "e", "A", "B", 2, k) : k \in {2, 4}}
  \cup {Act("SYMBOL_CHANGE", "f", x[1], x[2], 3, 3) : x \in {<<"C", "A">>, <<"A", "C">>}}
  \cup {Act("SYMBOL_CHANGE", "e", "C", "A", 3, 3)}
  \cup {Act("SPINOFF", "f", "A", s, d, 3) : s \in {"A", "B"}, d \in {1, 2}}
  \cup {Act("MERGER", "e", "A", "A", d, 4) : d \in {3, 4}}
  \cup {Act("DELISTING", "e", "A", "A", 3, k) : k \in {3, 4}}
  \cup {Act("DELISTING", "f", "A", "A", 3, 3)}

=============================================================================
