--------------------------- MODULE EntityMapProofs ---------------------------
(***************************************************************************)
(* Proofs about EntityMap, for all symbols, entities, actions and bounds:  *)
(* no date of a symbol ever has two holders, a later sync does not disturb *)
(* an earlier decision, and an entity that ended resolves no more.         *)
(***************************************************************************)
EXTENDS EntityMap, SequenceTheorems, TLAPS

RangeRecord ==
  [symbol : Symbols, entity : Entities, from : Int, to : Int, known : Int, closeKnown : Int]

(* Every range of a table ends by Open.                                    *)
Table(t) == t \in Seq(RangeRecord) /\ \A i \in DOMAIN t : t[i].to <= Open

TypeInv ==
  /\ clock \in 0..MaxTime
  /\ rows \in Seq(Actions)
  /\ Table(ranges) /\ Table(work)
  /\ todo \subseteq DOMAIN rows

(* A row of the sort the actions make, ending by Open.                     *)
Sound(r) == r \in RangeRecord /\ r.to <= Open /\ r.from <= Open

-----------------------------------------------------------------------------
(* Closing open ranges no later than Open keeps a table and its holders.   *)
LEMMA CloseKeeps ==
  ASSUME NEW t, Table(t), NEW ids, NEW last \in Int, last <= Open, NEW known \in Int
  PROVE  /\ Table(Close(t, ids, last, known))
         /\ Len(Close(t, ids, last, known)) = Len(t)
         /\ DOMAIN Close(t, ids, last, known) = DOMAIN t
         /\ OneHolder(t) => OneHolder(Close(t, ids, last, known))
<1> DEFINE c == Close(t, ids, last, known)
<1>1. t \in Seq(RangeRecord) /\ DOMAIN t = 1..Len(t) /\ Len(t) \in Nat
  BY DEF Table
<1>2. \A i \in DOMAIN t : t[i] \in RangeRecord
  BY <1>1
<1>3. c = [i \in 1..Len(t) |-> IF i \in ids /\ t[i].to = Open
                               THEN [t[i] EXCEPT !.to = last, !.closeKnown = known] ELSE t[i]]
  BY <1>1 DEF Close
<1>4. \A i \in DOMAIN t : [t[i] EXCEPT !.to = last, !.closeKnown = known] \in RangeRecord
  BY <1>2 DEF RangeRecord
<1>5. \A i \in DOMAIN t : c[i] \in RangeRecord
  BY <1>1, <1>2, <1>3, <1>4
<1>6. c \in Seq(RangeRecord) /\ Len(c) = Len(t) /\ DOMAIN c = DOMAIN t
  <2> HIDE DEF c
  <2>1. c \in [1..Len(t) -> RangeRecord]
    BY <1>1, <1>3, <1>5
  <2>2. c \in Seq(RangeRecord)
    BY <1>1, <2>1, SeqDef
  <2>. QED  BY <1>1, <2>1, <2>2, LenProperties
<1>7. \A i \in DOMAIN t :
        /\ c[i].symbol = t[i].symbol /\ c[i].entity = t[i].entity /\ c[i].from = t[i].from
        /\ c[i].to \in Int /\ c[i].to <= t[i].to
  <2>1. SUFFICES ASSUME NEW i \in DOMAIN t
                 PROVE  /\ c[i].symbol = t[i].symbol /\ c[i].entity = t[i].entity
                        /\ c[i].from = t[i].from /\ c[i].to \in Int /\ c[i].to <= t[i].to
    OBVIOUS
  <2>2. t[i] \in RangeRecord
    BY <1>2
  <2>3. CASE i \in ids /\ t[i].to = Open
    <3>1. c[i] = [t[i] EXCEPT !.to = last, !.closeKnown = known]
      BY <1>1, <1>3, <2>3
    <3>. QED  BY <2>2, <2>3, <3>1 DEF RangeRecord
  <2>4. CASE ~(i \in ids /\ t[i].to = Open)
    <3>1. c[i] = t[i]
      BY <1>1, <1>3, <2>4
    <3>. QED  BY <2>2, <3>1 DEF RangeRecord
  <2>. QED  BY <2>3, <2>4
<1>8. \A i \in DOMAIN t : c[i].to <= Open
  <2> HIDE DEF c
  <2>1. SUFFICES ASSUME NEW i \in DOMAIN t
                 PROVE  c[i].to <= Open
    OBVIOUS
  <2>2. t[i].to \in Int /\ t[i].to <= Open
    BY <1>2 DEF Table, RangeRecord
  <2>. QED  BY <1>7, <2>2 DEF Open
<1>9. OneHolder(t) => OneHolder(c)
  <2> HIDE DEF c
  <2>1. SUFFICES ASSUME OneHolder(t), NEW i \in DOMAIN t, NEW j \in DOMAIN t,
                        c[i].symbol = c[j].symbol, c[i].entity # c[j].entity
                 PROVE  c[i].to < c[j].from \/ c[j].to < c[i].from
    BY <1>6 DEF OneHolder
  <2>2. t[i].to < t[j].from \/ t[j].to < t[i].from
    BY <1>7, <2>1 DEF OneHolder
  <2>3. t[i].to \in Int /\ t[j].to \in Int /\ t[i].from \in Int /\ t[j].from \in Int
    BY <1>2 DEF RangeRecord
  <2>. QED  BY <1>7, <2>2, <2>3
<1>. QED
  <2> HIDE DEF c
  <2>1. Table(c) /\ Len(c) = Len(t) /\ DOMAIN c = DOMAIN t /\ (OneHolder(t) => OneHolder(c))
    BY <1>6, <1>8, <1>9 DEF Table
  <2>. QED  BY <2>1 DEF c

(* Registering a range that is not refused keeps a table and its holders:  *)
(* whoever held the symbol over it gives way, or the range was there.      *)
LEMMA RegisterKeeps ==
  ASSUME NEW t, Table(t), NEW r, Sound(r), ~RegisterRefuses(t, r)
  PROVE  /\ Table(Register(t, r))
         /\ OneHolder(t) => OneHolder(Register(t, r))
<1> DEFINE c == Close(t, Reached(t, r), r.from - 1, r.known)
<1>1. r \in RangeRecord /\ r.from \in Int /\ r.to \in Int /\ r.known \in Int
  BY DEF Sound, RangeRecord
<1>2. r.from - 1 \in Int /\ r.from - 1 <= Open
  BY <1>1 DEF Sound, Open
<1>3. /\ Table(c) /\ Len(c) = Len(t) /\ DOMAIN c = DOMAIN t
      /\ OneHolder(t) => OneHolder(c)
  BY <1>1, <1>2, CloseKeeps
<1>4. CASE Identical(t, r) # {}
  BY <1>3, <1>4 DEF Register
<1>5. CASE Identical(t, r) = {}
  <2> DEFINE d == Append(c, r)
  <2>1. Register(t, r) = d
    BY <1>5 DEF Register
  <2>2. c \in Seq(RangeRecord) /\ t \in Seq(RangeRecord) /\ DOMAIN t = 1..Len(t) /\ Len(t) \in Nat
    BY <1>3 DEF Table
  <2>3. /\ d \in Seq(RangeRecord) /\ Len(d) = Len(t) + 1 /\ d[Len(t) + 1] = r
        /\ DOMAIN d = 1..(Len(t) + 1)
        /\ \A i \in 1..Len(t) : d[i] = c[i]
    BY <1>1, <1>3, <2>2
  <2>4. Table(d)
    BY <1>3, <2>2, <2>3 DEF Table, Sound
  <2>5. \A i \in DOMAIN t : t[i] \in RangeRecord /\ c[i] \in RangeRecord
    BY <1>3, <2>2
  <2>6. \A i \in DOMAIN t :
          t[i].symbol = r.symbol /\ t[i].entity # r.entity => c[i].to < r.from \/ r.to < c[i].from
    <3>1. SUFFICES ASSUME NEW i \in DOMAIN t, t[i].symbol = r.symbol, t[i].entity # r.entity
                   PROVE  c[i].to < r.from \/ r.to < c[i].from
      OBVIOUS
    <3>2. c[i] = IF i \in Reached(t, r) /\ t[i].to = Open
                 THEN [t[i] EXCEPT !.to = r.from - 1, !.closeKnown = r.known] ELSE t[i]
      BY DEF Close
    <3>3. CASE Overlaps(t[i], r)
      <4>1. i \in Reached(t, r)
        BY <1>5, <3>1, <3>3 DEF Reached, OfSymbol
      <4>2. t[i].to = Open
        BY <4>1 DEF RegisterRefuses, GivesWay
      <4>3. c[i].to = r.from - 1
        BY <2>5, <3>2, <4>1, <4>2 DEF RangeRecord
      <4>. QED  BY <1>1, <4>3
    <3>4. CASE ~Overlaps(t[i], r)
      <4>1. i \notin Reached(t, r)
        BY <3>4 DEF Reached
      <4>2. c[i] = t[i]
        BY <3>2, <4>1
      <4>. QED  BY <1>1, <2>5, <3>4, <4>2 DEF Overlaps, RangeRecord
    <3>. QED  BY <3>3, <3>4
  <2>7. \A i \in DOMAIN t : c[i].symbol = t[i].symbol /\ c[i].entity = t[i].entity
    BY <2>5 DEF Close, RangeRecord
  <2>8. OneHolder(t) => OneHolder(d)
    <3>1. SUFFICES ASSUME OneHolder(c),
                          NEW i \in 1..(Len(t) + 1), NEW j \in 1..(Len(t) + 1),
                          d[i].symbol = d[j].symbol, d[i].entity # d[j].entity
                   PROVE  d[i].to < d[j].from \/ d[j].to < d[i].from
      BY <1>3, <2>3 DEF OneHolder
    <3>2. CASE i \in 1..Len(t) /\ j \in 1..Len(t)
      BY <1>3, <2>2, <2>3, <3>1, <3>2 DEF OneHolder
    <3>3. CASE i \in 1..Len(t) /\ j = Len(t) + 1
      BY <2>2, <2>3, <2>6, <2>7, <3>1, <3>3
    <3>4. CASE i = Len(t) + 1 /\ j \in 1..Len(t)
      BY <2>2, <2>3, <2>6, <2>7, <3>1, <3>4
    <3>5. CASE i = Len(t) + 1 /\ j = Len(t) + 1
      BY <3>1, <3>5
    <3> HIDE DEF d
    <3>. QED  BY <2>2, <3>2, <3>3, <3>4, <3>5
  <2>. QED  BY <2>1, <2>4, <2>8
<1>. QED  BY <1>4, <1>5

(* An action that is not refused keeps a table and its holders.            *)
LEMMA ApplyKeeps ==
  ASSUME NEW t, Table(t), NEW a \in Actions, ~ApplyRefuses(t, a)
  PROVE  /\ Table(ApplyAction(t, a))
         /\ OneHolder(t) => OneHolder(ApplyAction(t, a))
<1>1. /\ a.kind \in {"SYMBOL_CHANGE", "MERGER", "DELISTING", "SPINOFF"}
      /\ a.entity \in Entities /\ a.old \in Symbols /\ a.new \in Symbols
      /\ a.date \in 0..MaxTime /\ a.known \in 0..MaxTime
  BY ActionsAssumption
<1>2. /\ a.date \in Int /\ a.known \in Int
      /\ a.date - 1 \in Int /\ a.date <= Open /\ a.date - 1 <= Open
  BY <1>1, BoundsAssumption DEF Open
<1>3. Sound(NewRange(a)) /\ Sound(OldRange(a))
  BY <1>1, <1>2 DEF Sound, NewRange, OldRange, RangeRow, RangeRecord, Open, Floor, None
<1>4. CASE a.kind = "SYMBOL_CHANGE"
  <2>1. /\ ~(~OldKnown(t, a) /\ RegisterRefuses(t, OldRange(a)))
        /\ ~RegisterRefuses(Unnamed(t, a), NewRange(a))
        /\ ApplyAction(t, a) = Register(Unnamed(t, a), NewRange(a))
    BY <1>4 DEF ApplyRefuses, ApplyAction
  <2>2. Table(Unnamed(t, a)) /\ (OneHolder(t) => OneHolder(Unnamed(t, a)))
    <3>1. CASE OldKnown(t, a)
      BY <1>2, <3>1, CloseKeeps DEF Unnamed
    <3>2. CASE ~OldKnown(t, a)
      BY <1>3, <2>1, <3>2, RegisterKeeps DEF Unnamed
    <3>. QED  BY <3>1, <3>2
  <2>. QED  BY <1>3, <2>1, <2>2, RegisterKeeps
<1>5. CASE a.kind = "SPINOFF"
  <2>1. ~RegisterRefuses(t, NewRange(a)) /\ ApplyAction(t, a) = Register(t, NewRange(a))
    BY <1>5 DEF ApplyRefuses, ApplyAction
  <2>. QED  BY <1>3, <2>1, RegisterKeeps
<1>6. CASE a.kind \in {"MERGER", "DELISTING"}
  <2>1. ApplyAction(t, a) = Close(t, OfEntity(t, a.entity), LastDate(a), a.known)
    BY <1>6 DEF ApplyAction, CloseEntity
  <2>2. LastDate(a) \in Int /\ LastDate(a) <= Open
    BY <1>2 DEF LastDate
  <2>. QED  BY <1>2, <2>1, <2>2, CloseKeeps
<1>. QED  BY <1>1, <1>4, <1>5, <1>6

-----------------------------------------------------------------------------
LEMMA EmptyTable == Table(<<>>) /\ OneHolder(<<>>)
BY DEF Table, OneHolder

HolderInv == TypeInv /\ SymbolsHaveOneHolder

LEMMA HolderInvStep ==
  ASSUME HolderInv, [Next]_vars
  PROVE  HolderInv'
<1> USE DEF HolderInv, TypeInv, SymbolsHaveOneHolder
<1>1. ASSUME NEW a \in Actions, Ingest(a)
      PROVE  HolderInv'
  BY <1>1 DEF Ingest, Table, OneHolder
<1>2. CASE SyncStart
  BY <1>2 DEF SyncStart, Visible, Table, OneHolder
<1>3. CASE SyncApply
  <2>1. PICK i \in Soonest :
          /\ ~ApplyRefuses(work, rows[i])
          /\ work' = ApplyAction(work, rows[i]) /\ todo' = todo \ {i}
    BY <1>3 DEF SyncApply
  <2>2. rows[i] \in Actions
    BY <2>1 DEF Soonest
  <2>3. Table(work') /\ OneHolder(work')
    BY <2>1, <2>2, ApplyKeeps
  <2>. QED  BY <1>3, <2>1, <2>3 DEF SyncApply, Table, OneHolder
<1>4. CASE SyncThrow
  BY <1>4, EmptyTable DEF SyncThrow, Table, OneHolder
<1>5. CASE SyncCommit
  BY <1>5, EmptyTable DEF SyncCommit, Table, OneHolder
<1>6. CASE Advance
  <2>1. clock' \in 0..MaxTime
    BY <1>6, BoundsAssumption DEF Advance, Open
  <2>. QED  BY <1>6, <2>1 DEF Advance, Table, OneHolder
<1>7. CASE UNCHANGED vars
  BY <1>7 DEF vars, Table, OneHolder
<1>. QED  BY <1>1, <1>2, <1>3, <1>4, <1>5, <1>6, <1>7 DEF Next

(* entity-map.ts 92-125, 211-240: with all that is known, no date of a     *)
(* symbol has two entities, committed or in a sync, for every sequence of  *)
(* actions.                                                                *)
THEOREM OneHolderAlways == Spec => []SymbolsHaveOneHolder
<1>1. Init => HolderInv
  BY EmptyTable, BoundsAssumption
  DEF Init, HolderInv, TypeInv, SymbolsHaveOneHolder, Open, Visible
<1>2. HolderInv /\ [Next]_vars => HolderInv'
  BY HolderInvStep
<1>3. HolderInv => SymbolsHaveOneHolder
  BY DEF HolderInv
<1>. QED  BY <1>1, <1>2, <1>3, PTL DEF Spec

-----------------------------------------------------------------------------
(* What a decision made of the table.  The actions it has seen are A, rows *)
(* of r; k is its instant.                                                 *)

Earlier(r, i, j) == r[i].date < r[j].date \/ (r[i].date = r[j].date /\ i < j)

Opener(a) == a.kind \in {"SYMBOL_CHANGE", "SPINOFF"}

(* The action a opens a range such as e.                                   *)
Opens(a, e) ==
  Opener(a) /\ e.symbol = a.new /\ e.entity = a.entity /\ e.from = a.date

(* The action a closes the range e if it is open.                          *)
Closes(a, e) ==
  \/ a.kind = "SYMBOL_CHANGE" /\ e.entity = a.entity /\ e.symbol = a.old /\ e.from < a.date
  \/ Opener(a) /\ e.symbol = a.new /\ e.entity # a.entity /\ e.from < a.date
  \/ ~Opener(a) /\ e.entity = a.entity

(* The last date of e as far as it was known at k.                         *)
EndSeen(e, k) == IF e.closeKnown > k THEN Open ELSE e.to

(* The actions of A that close what i opened.                              *)
Closers(r, A, i) == {x \in A : Earlier(r, i, x) /\ Closes(r[x], NewRange(r[i]))}

First(r, S) == {x \in S : \A y \in S : y = x \/ Earlier(r, x, y)}

(* The range e, as seen at k, is at least what the actions of A leave of   *)
(* the one that i opens.                                                   *)
Reaches(r, e, A, i, k) ==
  /\ e.known <= k /\ Opens(r[i], e)
  /\ Closers(r, A, i) = {} => EndSeen(e, k) = Open
  /\ \A x \in First(r, Closers(r, A, i)) : LastDate(r[x]) <= EndSeen(e, k)

(* Every renamed symbol is known,                                          *)
Named(r, t, A) == \A i \in A : r[i].kind = "SYMBOL_CHANGE" => OldKnown(t, r[i])

(* every opened range is there,                                            *)
Held(r, t, A, k) ==
  \A i \in A : Opener(r[i]) => \E j \in DOMAIN t : Reaches(r, t[j], A, i, k)

(* and an open one is closed by no action but those it is opened after.    *)
Over(r, t, A, k) ==
  \A j \in DOMAIN t, x \in A :
    t[j].to = Open /\ t[j].known <= k /\ Closes(r[x], t[j])
      => \E i \in A : Earlier(r, x, i) /\ Opens(r[i], t[j])

Applied(r, t, A, k) == Named(r, t, A) /\ Held(r, t, A, k) /\ Over(r, t, A, k)

-----------------------------------------------------------------------------
(* How the table w of a sync, that has the actions T still to apply, is    *)
(* related to the table t it started from, for a decision that has seen A. *)

Alike(e, f) == e.symbol = f.symbol /\ e.entity = f.entity /\ e.from = f.from

Extends(t, w) ==
  /\ DOMAIN t \subseteq DOMAIN w
  /\ \A i \in DOMAIN t :
       Alike(w[i], t[i]) /\ w[i].known = t[i].known /\ (t[i].to # Open => w[i] = t[i])

(* No range was lost to the decision that is not yet to be opened again,   *)
Kept(r, t, w, T, A, k) ==
  \A i \in DOMAIN t : t[i].known <= k =>
    \/ EndSeen(w[i], k) = EndSeen(t[i], k)
    \/ /\ t[i].to = Open
       /\ \E j \in DOMAIN w :
            Alike(w[j], t[i]) /\ w[j].known <= k /\ EndSeen(w[j], k) = Open
    \/ /\ t[i].to = Open
       /\ \E x \in A \ T, o \in A \cap T :
            ~Opener(r[x]) /\ r[x].entity = t[i].entity /\ Opens(r[o], t[i])

(* none was gained that is not yet to be closed again,                     *)
Gained(r, t, w, T, A, k) ==
  \A j \in DOMAIN w : w[j].known <= k =>
    \/ \E i \in DOMAIN t :
         Alike(t[i], w[j]) /\ t[i].known <= k /\ EndSeen(w[j], k) <= EndSeen(t[i], k)
    \/ /\ w[j].to = Open
       /\ \E o \in A \ T :
            Opens(r[o], w[j]) /\ Closers(r, A, o) # {} /\ Closers(r, A, o) \subseteq T

(* and what an ended entity still has open is to be seen.                  *)
Ended(r, w, T, A, k) ==
  \A x \in A \ T, o \in A \cap T, j \in DOMAIN w :
    ~Opener(r[x]) /\ w[j].entity = r[x].entity /\ w[j].to = Open => w[j].known <= k

Midway(r, t, w, T, A, k) ==
  /\ Kept(r, t, w, T, A, k) /\ Gained(r, t, w, T, A, k)
  /\ Ended(r, w, T, A, k) /\ Over(r, w, A \ T, k)

-----------------------------------------------------------------------------
(* The actions of a sync are applied in order, all that is known by then.  *)
InOrder ==
  /\ todo \subseteq Visible(sync)
  /\ \A x \in Visible(sync) \ todo, o \in todo : Earlier(rows, x, o)

KnownBy(t, k) == \A i \in DOMAIN t : t[i].known <= k /\ t[i].from >= Floor

SyncInv ==
  sync # None =>
    /\ sync = clock /\ KnownBy(work, sync)
    /\ InOrder /\ Extends(ranges, work)
    /\ Applied(rows, work, Visible(sync) \ todo, sync)

StandInv ==
  /\ KnownBy(ranges, clock)
  /\ SyncInv
  /\ \A s \in synced :
       /\ s.at \in 0..clock /\ s.seen \subseteq Visible(s.at)
       /\ Undisturbed(s) =>
            /\ Applied(rows, ranges, s.seen, s.at)
            /\ sync # None => Midway(rows, ranges, work, todo, s.seen, s.at)

-----------------------------------------------------------------------------
(* What applying an action a does to a table t: it closes, and appends.    *)

ClosedAt(e, last, known) == [e EXCEPT !.to = last, !.closeKnown = known]

Effect(a, t, u) ==
  /\ DOMAIN t \subseteq DOMAIN u
  /\ \A j \in DOMAIN t :
       /\ u[j] = IF t[j].to = Open /\ Closes(a, t[j])
                 THEN ClosedAt(t[j], LastDate(a), a.known) ELSE t[j]
       /\ t[j].to = Open /\ Closes(a, t[j]) => t[j].from <= LastDate(a)
  /\ \A j \in DOMAIN u \ DOMAIN t :
       \/ Opener(a) /\ u[j] = NewRange(a)
       \/ a.kind = "SYMBOL_CHANGE" /\ ~OldKnown(t, a) /\ u[j] = OldRange(a)
  /\ Opener(a) => \E j \in DOMAIN u :
       Opens(a, u[j]) /\ u[j].to = Open /\ (j \in DOMAIN t \/ u[j] = NewRange(a))
  /\ a.kind = "SYMBOL_CHANGE" => OldKnown(u, a)

LEMMA ActionTyped ==
  ASSUME NEW a \in Actions
  PROVE  /\ a.kind \in {"SYMBOL_CHANGE", "MERGER", "DELISTING", "SPINOFF"}
         /\ a.entity \in Entities /\ a.old \in Symbols /\ a.new \in Symbols
         /\ a.date \in Int /\ a.known \in Int /\ 0 <= a.date /\ a.date < Open
         /\ LastDate(a) \in Int /\ a.date - 1 <= LastDate(a) /\ LastDate(a) <= a.date
         /\ Opener(a) => LastDate(a) = a.date - 1
<1>1. /\ a.kind \in {"SYMBOL_CHANGE", "MERGER", "DELISTING", "SPINOFF"}
      /\ a.entity \in Entities /\ a.old \in Symbols /\ a.new \in Symbols
      /\ a.date \in 0..MaxTime /\ a.known \in 0..MaxTime
  BY ActionsAssumption
<1>2. a.date \in Int /\ a.known \in Int /\ 0 <= a.date /\ a.date < Open
  BY <1>1, BoundsAssumption DEF Open
<1>. QED  BY <1>1, <1>2 DEF LastDate, Opener

LEMMA RowTyped ==
  ASSUME NEW t, Table(t), NEW i \in DOMAIN t
  PROVE  /\ t[i] \in RangeRecord /\ t[i].from \in Int /\ t[i].to \in Int
         /\ t[i].known \in Int /\ t[i].closeKnown \in Int /\ t[i].to <= Open
<1>1. t[i] \in RangeRecord
  BY DEF Table
<1>. QED  BY <1>1 DEF Table, RangeRecord

LEMMA CloseIs ==
  ASSUME NEW t, NEW ids, NEW last, NEW known
  PROVE  Close(t, ids, last, known)
           = [i \in DOMAIN t |-> IF i \in ids /\ t[i].to = Open
                                  THEN ClosedAt(t[i], last, known) ELSE t[i]]
BY DEF Close, ClosedAt

(* The ranges a registration closes are those that give way, and what it   *)
(* registers is in the table after.                                        *)
LEMMA RegisterEffect ==
  ASSUME NEW t, Table(t), NEW r, Sound(r), ~RegisterRefuses(t, r),
         NEW u, u = Register(t, r)
  PROVE  /\ DOMAIN t \subseteq DOMAIN u
         /\ \A j \in DOMAIN t :
              u[j] = IF /\ t[j].to = Open /\ t[j].symbol = r.symbol
                        /\ t[j].entity # r.entity /\ t[j].from < r.from
                     THEN ClosedAt(t[j], r.from - 1, r.known) ELSE t[j]
         /\ \A j \in DOMAIN u \ DOMAIN t : u[j] = r
         /\ \E j \in DOMAIN u :
              /\ u[j].symbol = r.symbol /\ u[j].entity = r.entity
              /\ u[j].from = r.from /\ u[j].to = r.to
              /\ j \in DOMAIN t \/ u[j] = r
<1>1. r.from \in Int /\ r.to \in Int /\ r.from <= r.to /\ r.to <= Open /\ r.known \in Int
  BY DEF Sound, RangeRecord, RegisterRefuses
<1>2. PICK c : c = Close(t, Reached(t, r), r.from - 1, r.known)
  OBVIOUS
<1>3. r.from - 1 \in Int /\ r.from - 1 <= Open
  BY <1>1 DEF Open
<1>4. Table(c) /\ Len(c) = Len(t) /\ DOMAIN c = DOMAIN t
  BY <1>1, <1>2, <1>3, CloseKeeps
<1>5. \A j \in DOMAIN t :
        j \in Reached(t, r) <=> /\ t[j].to = Open /\ t[j].symbol = r.symbol
                                /\ t[j].entity # r.entity /\ t[j].from < r.from
  <2>1. SUFFICES ASSUME NEW j \in DOMAIN t
        PROVE j \in Reached(t, r) <=> /\ t[j].to = Open /\ t[j].symbol = r.symbol
                                      /\ t[j].entity # r.entity /\ t[j].from < r.from
    OBVIOUS
  <2>2. ASSUME j \in Reached(t, r)
        PROVE  /\ t[j].to = Open /\ t[j].symbol = r.symbol
               /\ t[j].entity # r.entity /\ t[j].from < r.from
    BY <2>2 DEF Reached, RegisterRefuses, GivesWay, OfSymbol
  <2>3. ASSUME t[j].to = Open, t[j].symbol = r.symbol, t[j].entity # r.entity, t[j].from < r.from
        PROVE  j \in Reached(t, r)
    <3>1. t[j].from \in Int
      BY RowTyped
    <3>2. Overlaps(t[j], r)
      BY <1>1, <2>3, <3>1 DEF Overlaps, Open
    <3>3. \A i \in Identical(t, r) : t[i].from = r.from
      BY DEF Identical
    <3>. QED  BY <2>3, <3>2, <3>3 DEF Reached, OfSymbol
  <2>. QED  BY <2>2, <2>3
<1>6. c = [j \in DOMAIN t |-> IF j \in Reached(t, r) /\ t[j].to = Open
                               THEN ClosedAt(t[j], r.from - 1, r.known) ELSE t[j]]
  BY <1>2, CloseIs
<1>7. \A j \in DOMAIN t :
        c[j] = IF /\ t[j].to = Open /\ t[j].symbol = r.symbol
                  /\ t[j].entity # r.entity /\ t[j].from < r.from
               THEN ClosedAt(t[j], r.from - 1, r.known) ELSE t[j]
  <2>1. SUFFICES ASSUME NEW j \in DOMAIN t
                 PROVE  c[j] = IF /\ t[j].to = Open /\ t[j].symbol = r.symbol
                                  /\ t[j].entity # r.entity /\ t[j].from < r.from
                               THEN ClosedAt(t[j], r.from - 1, r.known) ELSE t[j]
    OBVIOUS
  <2>2. c[j] = IF j \in Reached(t, r) /\ t[j].to = Open
               THEN ClosedAt(t[j], r.from - 1, r.known) ELSE t[j]
    BY <1>6
  <2>. QED  BY <1>5, <2>2
<1>8. ASSUME Identical(t, r) # {}
      PROVE  /\ u = c
             /\ \E j \in DOMAIN c :
                  /\ c[j].symbol = r.symbol /\ c[j].entity = r.entity
                  /\ c[j].from = r.from /\ c[j].to = r.to /\ j \in DOMAIN t
  <2>1. u = c
    BY <1>2, <1>8 DEF Register
  <2>2. PICK j \in Identical(t, r) : TRUE
    BY <1>8
  <2>3. /\ j \in DOMAIN t /\ t[j].symbol = r.symbol /\ t[j].entity = r.entity
        /\ t[j].from = r.from /\ t[j].to = r.to
    BY DEF Identical, OfSymbol
  <2>4. c[j] = t[j]
    BY <1>7, <2>3
  <2>. QED  BY <1>4, <2>1, <2>3, <2>4
<1>9. ASSUME Identical(t, r) = {}
      PROVE  /\ DOMAIN u = 1..(Len(t) + 1) /\ u[Len(t) + 1] = r
             /\ \A j \in DOMAIN t : u[j] = c[j]
  <2>1. u = Append(c, r)
    BY <1>2, <1>9 DEF Register
  <2>2. c \in Seq(RangeRecord) /\ r \in RangeRecord /\ DOMAIN t = 1..Len(t) /\ Len(t) \in Nat
    BY <1>4 DEF Table, Sound
  <2>. QED  BY <1>4, <2>1, <2>2
<1>10. DOMAIN t = 1..Len(t) /\ Len(t) \in Nat
  BY DEF Table
<1>11. CASE Identical(t, r) # {}
  BY <1>4, <1>7, <1>8, <1>11
<1>12. CASE Identical(t, r) = {}
  <2>1. DOMAIN t \subseteq DOMAIN u /\ Len(t) + 1 \in DOMAIN u /\ u[Len(t) + 1] = r
    BY <1>9, <1>10, <1>12
  <2>2. \A j \in DOMAIN u \ DOMAIN t : j = Len(t) + 1
    BY <1>9, <1>10, <1>12
  <2>. QED  BY <1>7, <1>9, <1>12, <2>1, <2>2
<1>. QED  BY <1>11, <1>12

(* The range a closed one was, but for its end.                            *)
LEMMA ClosedAtIs ==
  ASSUME NEW e \in RangeRecord, NEW last, NEW known
  PROVE  /\ Alike(ClosedAt(e, last, known), e)
         /\ ClosedAt(e, last, known).known = e.known
         /\ ClosedAt(e, last, known).to = last
         /\ ClosedAt(e, last, known).closeKnown = known
BY DEF ClosedAt, Alike, RangeRecord

LEMMA CloseEffect ==
  ASSUME NEW t, Table(t), NEW ids, NEW last \in Int, last <= Open, NEW known \in Int,
         NEW u, u = Close(t, ids, last, known)
  PROVE  /\ DOMAIN u = DOMAIN t
         /\ \A j \in DOMAIN t :
              u[j] = IF j \in ids /\ t[j].to = Open THEN ClosedAt(t[j], last, known) ELSE t[j]
<1>1. DOMAIN u = DOMAIN t
  BY CloseKeeps
<1>2. u = [i \in DOMAIN t |-> IF i \in ids /\ t[i].to = Open
                              THEN ClosedAt(t[i], last, known) ELSE t[i]]
  BY CloseIs
<1>. QED  BY <1>1, <1>2

LEMMA NewRangeIs ==
  ASSUME NEW a \in Actions
  PROVE  /\ Sound(NewRange(a)) /\ (Opener(a) => Opens(a, NewRange(a)))
         /\ NewRange(a).symbol = a.new /\ NewRange(a).entity = a.entity
         /\ NewRange(a).from = a.date /\ NewRange(a).to = Open
         /\ NewRange(a).known = a.known
         /\ Sound(OldRange(a))
         /\ OldRange(a).symbol = a.old /\ OldRange(a).entity = a.entity
         /\ OldRange(a).from = Floor /\ OldRange(a).to = a.date - 1
         /\ OldRange(a).known = a.known
<1>1. /\ a.kind \in {"SYMBOL_CHANGE", "MERGER", "DELISTING", "SPINOFF"}
      /\ a.entity \in Entities /\ a.old \in Symbols /\ a.new \in Symbols
      /\ a.date \in Int /\ a.known \in Int /\ 0 <= a.date /\ a.date < Open
  BY ActionTyped
<1>2. NewRange(a) = [symbol |-> a.new, entity |-> a.entity, from |-> a.date, to |-> Open,
                     known |-> a.known, closeKnown |-> None]
  BY DEF NewRange, RangeRow
<1>3. OldRange(a) = [symbol |-> a.old, entity |-> a.entity, from |-> Floor, to |-> a.date - 1,
                     known |-> a.known, closeKnown |-> a.known]
  BY <1>1 DEF OldRange, RangeRow, Open
<1>4. Sound(NewRange(a)) /\ Sound(OldRange(a))
  BY <1>1, <1>2, <1>3 DEF Sound, RangeRecord, Open, Floor, None
<1>. QED  BY <1>2, <1>3, <1>4 DEF Opens

LEMMA RenameOldEffect ==
  ASSUME NEW t, Table(t), \A i \in DOMAIN t : t[i].from >= Floor,
         NEW a \in Actions, a.kind = "SYMBOL_CHANGE", ~ApplyRefuses(t, a),
         NEW m, m = Unnamed(t, a)
  PROVE  /\ Table(m) /\ OldKnown(m, a) /\ DOMAIN t \subseteq DOMAIN m
         /\ \A j \in DOMAIN t :
              m[j] = IF /\ t[j].to = Open /\ t[j].entity = a.entity
                        /\ t[j].symbol = a.old /\ t[j].from < a.date
                     THEN ClosedAt(t[j], a.date - 1, a.known) ELSE t[j]
         /\ \A j \in DOMAIN m \ DOMAIN t : ~OldKnown(t, a) /\ m[j] = OldRange(a)
<1>1. /\ a.date \in Int /\ a.known \in Int /\ 0 <= a.date /\ a.date < Open
      /\ a.date - 1 \in Int /\ a.date - 1 <= Open
  BY ActionTyped DEF Open
<1>2. CASE OldKnown(t, a)
  <2>1. m = Close(t, OldOpen(t, a), a.date - 1, a.known)
    BY <1>2 DEF Unnamed
  <2>2. /\ DOMAIN m = DOMAIN t
        /\ \A j \in DOMAIN t :
             m[j] = IF j \in OldOpen(t, a) /\ t[j].to = Open
                    THEN ClosedAt(t[j], a.date - 1, a.known) ELSE t[j]
    BY <1>1, <2>1, CloseEffect
  <2>3. Table(m)
    BY <1>1, <2>1, CloseKeeps
  <2>4. \A j \in DOMAIN t :
          j \in OldOpen(t, a) <=> /\ t[j].to = Open /\ t[j].entity = a.entity
                                  /\ t[j].symbol = a.old /\ t[j].from < a.date
    BY DEF OldOpen, OfSymbol
  <2>5. \A j \in DOMAIN t :
          m[j] = IF /\ t[j].to = Open /\ t[j].entity = a.entity
                    /\ t[j].symbol = a.old /\ t[j].from < a.date
                 THEN ClosedAt(t[j], a.date - 1, a.known) ELSE t[j]
    <3>1. SUFFICES ASSUME NEW j \in DOMAIN t
                   PROVE  m[j] = IF /\ t[j].to = Open /\ t[j].entity = a.entity
                                    /\ t[j].symbol = a.old /\ t[j].from < a.date
                                 THEN ClosedAt(t[j], a.date - 1, a.known) ELSE t[j]
      OBVIOUS
    <3>. QED  BY <2>2, <2>4
  <2>6. OldKnown(m, a)
    <3>1. PICK j \in DOMAIN t : t[j].symbol = a.old /\ t[j].entity = a.entity
      BY <1>2 DEF OldKnown, OfSymbol
    <3>2. t[j] \in RangeRecord
      BY RowTyped
    <3>3. m[j].symbol = a.old /\ m[j].entity = a.entity
      BY <2>5, <3>1, <3>2, ClosedAtIs DEF Alike
    <3>. QED  BY <2>2, <3>3 DEF OldKnown, OfSymbol
  <2>. QED  BY <2>2, <2>3, <2>5, <2>6
<1>3. CASE ~OldKnown(t, a)
  <2>1. m = Register(t, OldRange(a)) /\ ~RegisterRefuses(t, OldRange(a))
    BY <1>3 DEF Unnamed, ApplyRefuses
  <2>2. PICK r : r = OldRange(a)
    OBVIOUS
  <2>3. /\ Sound(r) /\ r.symbol = a.old /\ r.entity = a.entity /\ r.from = Floor
        /\ r.to = a.date - 1 /\ r.known = a.known
    BY <2>2, NewRangeIs
  <2>4. /\ DOMAIN t \subseteq DOMAIN m
        /\ \A j \in DOMAIN t :
             m[j] = IF /\ t[j].to = Open /\ t[j].symbol = r.symbol
                       /\ t[j].entity # r.entity /\ t[j].from < r.from
                    THEN ClosedAt(t[j], r.from - 1, r.known) ELSE t[j]
        /\ \A j \in DOMAIN m \ DOMAIN t : m[j] = r
        /\ \E j \in DOMAIN m : m[j].symbol = r.symbol /\ m[j].entity = r.entity
    BY <2>1, <2>2, <2>3, RegisterEffect
  <2>5. \A j \in DOMAIN t : m[j] = t[j]
    <3>1. SUFFICES ASSUME NEW j \in DOMAIN t PROVE m[j] = t[j]
      OBVIOUS
    <3>2. ~(t[j].from < r.from)
      <4>1. t[j].from \in Int /\ t[j].from >= Floor
        BY RowTyped
      <4>. QED  BY <2>3, <4>1 DEF Floor
    <3>. QED  BY <2>4, <3>2
  <2>6. \A j \in DOMAIN t : ~(t[j].symbol = a.old /\ t[j].entity = a.entity)
    BY <1>3 DEF OldKnown, OfSymbol
  <2>7. Table(m)
    BY <2>1, <2>2, <2>3, RegisterKeeps
  <2>8. OldKnown(m, a)
    BY <2>3, <2>4 DEF OldKnown, OfSymbol
  <2>9. \A j \in DOMAIN t :
          m[j] = IF /\ t[j].to = Open /\ t[j].entity = a.entity
                    /\ t[j].symbol = a.old /\ t[j].from < a.date
                 THEN ClosedAt(t[j], a.date - 1, a.known) ELSE t[j]
    <3>1. SUFFICES ASSUME NEW j \in DOMAIN t
                   PROVE  m[j] = IF /\ t[j].to = Open /\ t[j].entity = a.entity
                                    /\ t[j].symbol = a.old /\ t[j].from < a.date
                                 THEN ClosedAt(t[j], a.date - 1, a.known) ELSE t[j]
      OBVIOUS
    <3>. QED  BY <2>5, <2>6
  <2>. QED  BY <1>3, <2>2, <2>4, <2>7, <2>8, <2>9
<1>. QED  BY <1>2, <1>3

LEMMA ApplyEffect ==
  ASSUME NEW t, Table(t), \A i \in DOMAIN t : t[i].from >= Floor,
         NEW a \in Actions, ~ApplyRefuses(t, a),
         NEW u, u = ApplyAction(t, a)
  PROVE  Effect(a, t, u)
<1>1. /\ a.kind \in {"SYMBOL_CHANGE", "MERGER", "DELISTING", "SPINOFF"}
      /\ a.date \in Int /\ a.known \in Int /\ 0 <= a.date /\ a.date < Open
      /\ LastDate(a) \in Int /\ a.date - 1 <= LastDate(a) /\ LastDate(a) <= a.date
      /\ Opener(a) => LastDate(a) = a.date - 1
  BY ActionTyped
<1>2. LastDate(a) <= Open
  BY <1>1 DEF Open
<1>3. \A j \in DOMAIN t : t[j] \in RangeRecord /\ t[j].from \in Int
  BY RowTyped
<1>4. PICK r : r = NewRange(a)
  OBVIOUS
<1>5. /\ Sound(r) /\ r.symbol = a.new /\ r.entity = a.entity /\ r.from = a.date
      /\ r.to = Open /\ r.known = a.known
  BY <1>4, NewRangeIs
<1>6. CASE a.kind \in {"MERGER", "DELISTING"}
  <2>1. ~Opener(a) /\ a.kind # "SYMBOL_CHANGE"
    BY <1>6 DEF Opener
  <2>2. u = Close(t, OfEntity(t, a.entity), LastDate(a), a.known)
    BY <1>6 DEF ApplyAction, CloseEntity
  <2>3. /\ DOMAIN u = DOMAIN t
        /\ \A j \in DOMAIN t :
             u[j] = IF j \in OfEntity(t, a.entity) /\ t[j].to = Open
                    THEN ClosedAt(t[j], LastDate(a), a.known) ELSE t[j]
    BY <1>1, <1>2, <2>2, CloseEffect
  <2>4. \A j \in DOMAIN t : j \in OfEntity(t, a.entity) <=> Closes(a, t[j])
    BY <2>1 DEF OfEntity, Closes
  <2>5. \A j \in DOMAIN t :
          u[j] = IF t[j].to = Open /\ Closes(a, t[j])
                 THEN ClosedAt(t[j], LastDate(a), a.known) ELSE t[j]
    <3>1. SUFFICES ASSUME NEW j \in DOMAIN t
                   PROVE  u[j] = IF t[j].to = Open /\ Closes(a, t[j])
                                 THEN ClosedAt(t[j], LastDate(a), a.known) ELSE t[j]
      OBVIOUS
    <3>. QED  BY <2>3, <2>4
  <2>6. \A j \in DOMAIN t : t[j].to = Open /\ Closes(a, t[j]) => t[j].from <= LastDate(a)
    <3>1. ~CloseEntityRefuses(t, a.entity, LastDate(a))
      BY <1>6 DEF ApplyRefuses
    <3>2. \A j \in DOMAIN t : j \in OfEntity(t, a.entity) /\ t[j].to = Open => ~(t[j].from > LastDate(a))
      BY <3>1 DEF CloseEntityRefuses
    <3>. QED  BY <1>1, <1>3, <2>4, <3>2
  <2>. QED  BY <2>1, <2>3, <2>5, <2>6 DEF Effect
<1>7. CASE a.kind = "SPINOFF"
  <2>1. Opener(a) /\ a.kind # "SYMBOL_CHANGE"
    BY <1>7 DEF Opener
  <2>2. u = Register(t, r) /\ ~RegisterRefuses(t, r)
    BY <1>4, <1>7 DEF ApplyAction, ApplyRefuses
  <2>3. /\ DOMAIN t \subseteq DOMAIN u
        /\ \A j \in DOMAIN t :
             u[j] = IF /\ t[j].to = Open /\ t[j].symbol = r.symbol
                       /\ t[j].entity # r.entity /\ t[j].from < r.from
                    THEN ClosedAt(t[j], r.from - 1, r.known) ELSE t[j]
        /\ \A j \in DOMAIN u \ DOMAIN t : u[j] = r
        /\ \E j \in DOMAIN u :
             /\ u[j].symbol = r.symbol /\ u[j].entity = r.entity
             /\ u[j].from = r.from /\ u[j].to = r.to
             /\ j \in DOMAIN t \/ u[j] = r
    BY <1>5, <2>2, RegisterEffect
  <2>4. \A j \in DOMAIN t :
          Closes(a, t[j]) <=> /\ t[j].symbol = r.symbol /\ t[j].entity # r.entity
                              /\ t[j].from < r.from
    BY <1>5, <2>1 DEF Closes
  <2>5. r.from - 1 = LastDate(a)
    BY <1>1, <1>5, <2>1
  <2>6. \A j \in DOMAIN t :
          u[j] = IF t[j].to = Open /\ Closes(a, t[j])
                 THEN ClosedAt(t[j], LastDate(a), a.known) ELSE t[j]
    <3>1. SUFFICES ASSUME NEW j \in DOMAIN t
                   PROVE  u[j] = IF t[j].to = Open /\ Closes(a, t[j])
                                 THEN ClosedAt(t[j], LastDate(a), a.known) ELSE t[j]
      OBVIOUS
    <3>. QED  BY <1>5, <2>3, <2>4, <2>5
  <2>7. \A j \in DOMAIN t : t[j].to = Open /\ Closes(a, t[j]) => t[j].from <= LastDate(a)
    BY <1>1, <1>3, <1>5, <2>4, <2>5
  <2>8. \E j \in DOMAIN u :
          Opens(a, u[j]) /\ u[j].to = Open /\ (j \in DOMAIN t \/ u[j] = NewRange(a))
    BY <1>4, <1>5, <2>1, <2>3 DEF Opens
  <2>9. \A j \in DOMAIN u \ DOMAIN t : Opener(a) /\ u[j] = NewRange(a)
    BY <1>4, <2>1, <2>3
  <2>. QED  BY <2>1, <2>3, <2>6, <2>7, <2>8, <2>9 DEF Effect
<1>8. CASE a.kind = "SYMBOL_CHANGE"
  <2>1. Opener(a) /\ LastDate(a) = a.date - 1
    BY <1>1, <1>8 DEF Opener
  <2>2. PICK m : m = Unnamed(t, a)
    OBVIOUS
  <2>3. /\ Table(m) /\ OldKnown(m, a) /\ DOMAIN t \subseteq DOMAIN m
        /\ \A j \in DOMAIN t :
             m[j] = IF /\ t[j].to = Open /\ t[j].entity = a.entity
                       /\ t[j].symbol = a.old /\ t[j].from < a.date
                    THEN ClosedAt(t[j], a.date - 1, a.known) ELSE t[j]
        /\ \A j \in DOMAIN m \ DOMAIN t : ~OldKnown(t, a) /\ m[j] = OldRange(a)
    BY <1>8, <2>2, RenameOldEffect
  <2>4. u = Register(m, r) /\ ~RegisterRefuses(m, r)
    BY <1>4, <1>8, <2>2 DEF ApplyAction, ApplyRefuses
  <2>5. /\ DOMAIN m \subseteq DOMAIN u
        /\ \A j \in DOMAIN m :
             u[j] = IF /\ m[j].to = Open /\ m[j].symbol = r.symbol
                       /\ m[j].entity # r.entity /\ m[j].from < r.from
                    THEN ClosedAt(m[j], r.from - 1, r.known) ELSE m[j]
        /\ \A j \in DOMAIN u \ DOMAIN m : u[j] = r
        /\ \E j \in DOMAIN u :
             /\ u[j].symbol = r.symbol /\ u[j].entity = r.entity
             /\ u[j].from = r.from /\ u[j].to = r.to
             /\ j \in DOMAIN m \/ u[j] = r
    BY <1>5, <2>3, <2>4, RegisterEffect
  <2>6. \A j \in DOMAIN t :
          Closes(a, t[j]) <=> \/ /\ t[j].entity = a.entity
                                 /\ t[j].symbol = a.old /\ t[j].from < a.date
                              \/ /\ t[j].symbol = r.symbol /\ t[j].entity # r.entity
                                 /\ t[j].from < r.from
    BY <1>5, <1>8, <2>1 DEF Closes
  <2>7. \A j \in DOMAIN t :
          u[j] = IF t[j].to = Open /\ Closes(a, t[j])
                 THEN ClosedAt(t[j], LastDate(a), a.known) ELSE t[j]
    <3>1. SUFFICES ASSUME NEW j \in DOMAIN t
                   PROVE  u[j] = IF t[j].to = Open /\ Closes(a, t[j])
                                 THEN ClosedAt(t[j], LastDate(a), a.known) ELSE t[j]
      OBVIOUS
    <3>2. CASE /\ t[j].to = Open /\ t[j].entity = a.entity
               /\ t[j].symbol = a.old /\ t[j].from < a.date
      <4>1. m[j] = ClosedAt(t[j], a.date - 1, a.known)
        BY <2>3, <3>2
      <4>2. m[j].to # Open
        BY <1>1, <1>3, <4>1, ClosedAtIs DEF Open
      <4>3. u[j] = m[j]
        BY <2>3, <2>5, <4>2
      <4>. QED  BY <2>1, <2>6, <3>2, <4>1, <4>3
    <3>3. CASE ~(/\ t[j].to = Open /\ t[j].entity = a.entity
                 /\ t[j].symbol = a.old /\ t[j].from < a.date)
      <4>1. m[j] = t[j] /\ j \in DOMAIN m
        BY <2>3, <3>3
      <4>2. u[j] = IF /\ t[j].to = Open /\ t[j].symbol = r.symbol
                      /\ t[j].entity # r.entity /\ t[j].from < r.from
                   THEN ClosedAt(t[j], r.from - 1, r.known) ELSE t[j]
        BY <2>5, <4>1
      <4>. QED  BY <1>5, <2>1, <2>6, <3>3, <4>2
    <3>. QED  BY <3>2, <3>3
  <2>8. \A j \in DOMAIN t : t[j].to = Open /\ Closes(a, t[j]) => t[j].from <= LastDate(a)
    BY <1>1, <1>3, <1>5, <2>1, <2>6
  <2>9. \A j \in DOMAIN m \ DOMAIN t :
          ~OldKnown(t, a) /\ u[j] = OldRange(a) /\ u[j].to # Open
    <3>1. SUFFICES ASSUME NEW j \in DOMAIN m \ DOMAIN t
                   PROVE  ~OldKnown(t, a) /\ u[j] = OldRange(a) /\ u[j].to # Open
      OBVIOUS
    <3>2. ~OldKnown(t, a) /\ m[j] = OldRange(a)
      BY <2>3
    <3>3. m[j].to # Open
      BY <1>1, <3>2, NewRangeIs DEF Open
    <3>4. u[j] = m[j]
      BY <2>5, <3>3
    <3>. QED  BY <3>2, <3>3, <3>4
  <2>10. \A j \in DOMAIN u \ DOMAIN t :
           \/ Opener(a) /\ u[j] = NewRange(a)
           \/ a.kind = "SYMBOL_CHANGE" /\ ~OldKnown(t, a) /\ u[j] = OldRange(a)
    BY <1>4, <1>8, <2>1, <2>5, <2>9
  <2>11. \E j \in DOMAIN u :
           Opens(a, u[j]) /\ u[j].to = Open /\ (j \in DOMAIN t \/ u[j] = NewRange(a))
    <3>1. PICK j \in DOMAIN u :
            /\ u[j].symbol = r.symbol /\ u[j].entity = r.entity
            /\ u[j].from = r.from /\ u[j].to = r.to
            /\ j \in DOMAIN m \/ u[j] = r
      BY <2>5
    <3>2. Opens(a, u[j]) /\ u[j].to = Open
      BY <1>5, <2>1, <3>1 DEF Opens
    <3>3. j \in DOMAIN t \/ u[j] = NewRange(a)
      BY <1>4, <2>9, <3>1, <3>2
    <3>. QED  BY <3>2, <3>3
  <2>12. OldKnown(u, a)
    <3>1. PICK j \in DOMAIN m : m[j].symbol = a.old /\ m[j].entity = a.entity
      BY <2>3 DEF OldKnown, OfSymbol
    <3>2. m[j] \in RangeRecord
      BY <2>3, RowTyped
    <3>3. u[j].symbol = a.old /\ u[j].entity = a.entity
      BY <2>5, <3>1, <3>2, ClosedAtIs DEF Alike
    <3>. QED  BY <2>5, <3>3 DEF OldKnown, OfSymbol
  <2>13. DOMAIN t \subseteq DOMAIN u
    BY <2>3, <2>5
  <2>. QED  BY <2>7, <2>8, <2>10, <2>11, <2>12, <2>13 DEF Effect
<1>. QED  BY <1>1, <1>6, <1>7, <1>8

-----------------------------------------------------------------------------
(* What an action leaves of a range e: of an open one it may set the end.  *)
LEMMA RowEffect ==
  ASSUME NEW t, Table(t), NEW a \in Actions, NEW u, Effect(a, t, u),
         NEW j \in DOMAIN t, NEW k \in Int
  PROVE  /\ j \in DOMAIN u /\ Alike(u[j], t[j]) /\ u[j].known = t[j].known
         /\ t[j].to # Open \/ ~Closes(a, t[j]) => u[j] = t[j]
         /\ t[j].to = Open /\ Closes(a, t[j]) =>
              /\ u[j].to = LastDate(a) /\ u[j].to # Open /\ u[j].closeKnown = a.known
              /\ EndSeen(t[j], k) = Open
              /\ a.known > k => EndSeen(u[j], k) = Open
              /\ a.known <= k => EndSeen(u[j], k) = LastDate(a)
         /\ EndSeen(t[j], k) \in Int /\ EndSeen(u[j], k) \in Int
         /\ EndSeen(t[j], k) <= Open /\ EndSeen(u[j], k) <= EndSeen(t[j], k)
<1>1. /\ a.known \in Int /\ LastDate(a) \in Int /\ LastDate(a) < Open /\ Open \in Int
  BY ActionTyped DEF Open
<1>2. /\ t[j] \in RangeRecord /\ t[j].to \in Int /\ t[j].closeKnown \in Int /\ t[j].to <= Open
  BY RowTyped
<1>3. EndSeen(t[j], k) \in Int /\ EndSeen(t[j], k) <= Open
  BY <1>1, <1>2 DEF EndSeen
<1>4. j \in DOMAIN u
  BY DEF Effect
<1>5. CASE t[j].to = Open /\ Closes(a, t[j])
  <2>1. u[j] = ClosedAt(t[j], LastDate(a), a.known)
    BY <1>5 DEF Effect
  <2>2. /\ Alike(u[j], t[j]) /\ u[j].known = t[j].known
        /\ u[j].to = LastDate(a) /\ u[j].closeKnown = a.known
    BY <1>2, <2>1, ClosedAtIs
  <2>3. EndSeen(t[j], k) = Open
    BY <1>5 DEF EndSeen
  <2>4. a.known > k => EndSeen(u[j], k) = Open
    BY <2>2 DEF EndSeen
  <2>5. a.known <= k => EndSeen(u[j], k) = LastDate(a)
    BY <1>1, <2>2 DEF EndSeen
  <2>6. EndSeen(u[j], k) \in Int /\ EndSeen(u[j], k) <= Open
    BY <1>1, <2>4, <2>5
  <2>. QED  BY <1>1, <1>3, <1>4, <1>5, <2>2, <2>3, <2>4, <2>5, <2>6
<1>6. CASE ~(t[j].to = Open /\ Closes(a, t[j]))
  <2>1. u[j] = t[j]
    BY <1>6 DEF Effect
  <2>. QED  BY <1>3, <1>4, <1>6, <2>1 DEF Alike
<1>. QED  BY <1>5, <1>6

(* f is what the action b leaves of the range e.                           *)
Leaves(b, e, f, k) ==
  /\ Alike(f, e) /\ f.known = e.known
  /\ e.to # Open \/ ~Closes(b, e) => f = e
  /\ e.to = Open /\ Closes(b, e) =>
       /\ f.to = LastDate(b) /\ f.to # Open /\ f.closeKnown = b.known
       /\ EndSeen(e, k) = Open
       /\ b.known > k => EndSeen(f, k) = Open
       /\ b.known <= k => EndSeen(f, k) = LastDate(b)
  /\ EndSeen(e, k) \in Int /\ EndSeen(f, k) \in Int
  /\ EndSeen(e, k) <= Open /\ EndSeen(f, k) <= EndSeen(e, k)

LEMMA RowStep ==
  ASSUME NEW r \in Seq(Actions), NEW a \in DOMAIN r, NEW t, Table(t),
         NEW u, Effect(r[a], t, u), NEW j \in DOMAIN t, NEW k \in Int
  PROVE  j \in DOMAIN u /\ Leaves(r[a], t[j], u[j], k)
<1>1. PICK b \in Actions : b = r[a]
  OBVIOUS
<1>2. Effect(b, t, u)
  BY <1>1
<1>3. /\ j \in DOMAIN u /\ Alike(u[j], t[j]) /\ u[j].known = t[j].known
      /\ t[j].to # Open \/ ~Closes(b, t[j]) => u[j] = t[j]
      /\ t[j].to = Open /\ Closes(b, t[j]) =>
           /\ u[j].to = LastDate(b) /\ u[j].to # Open /\ u[j].closeKnown = b.known
           /\ EndSeen(t[j], k) = Open
           /\ b.known > k => EndSeen(u[j], k) = Open
           /\ b.known <= k => EndSeen(u[j], k) = LastDate(b)
      /\ EndSeen(t[j], k) \in Int /\ EndSeen(u[j], k) \in Int
      /\ EndSeen(t[j], k) <= Open /\ EndSeen(u[j], k) <= EndSeen(t[j], k)
  BY <1>2, RowEffect
<1>. QED  BY <1>1, <1>3 DEF Leaves

LEMMA AlikeSame ==
  ASSUME NEW e, NEW f, Alike(e, f), NEW a
  PROVE  (Closes(a, e) <=> Closes(a, f)) /\ (Opens(a, e) <=> Opens(a, f)) /\ Alike(f, e)
BY DEF Alike, Closes, Opens

LEMMA OpensAlike ==
  ASSUME NEW a \in Actions, NEW e, Opens(a, e)
  PROVE  Alike(e, NewRange(a))
BY NewRangeIs DEF Opens, Alike

(* An action opens no range it closes.                                     *)
LEMMA OpenerKeeps ==
  ASSUME NEW a \in Actions, NEW e, Opens(a, e)
  PROVE  ~Closes(a, e)
<1>1. a.date \in Int /\ a.kind \in {"SYMBOL_CHANGE", "MERGER", "DELISTING", "SPINOFF"}
  BY ActionTyped
<1>. QED  BY <1>1 DEF Opens, Closes, Opener

LEMMA EarlierOrders ==
  ASSUME NEW r \in Seq(Actions), NEW i \in DOMAIN r, NEW j \in DOMAIN r
  PROVE  /\ r[i] \in Actions /\ r[i].date \in Int
         /\ Earlier(r, i, j) => ~Earlier(r, j, i) /\ i # j /\ r[i].date <= r[j].date
<1>1. r[i] \in Actions /\ r[j] \in Actions
  OBVIOUS
<1>2. r[i].date \in Int /\ r[j].date \in Int
  BY <1>1, ActionTyped
<1>3. i \in Int /\ j \in Int
  OBVIOUS
<1>. QED  BY <1>1, <1>2, <1>3 DEF Earlier

LEMMA OldKnownLasts ==
  ASSUME NEW t, NEW u, NEW a, DOMAIN t \subseteq DOMAIN u,
         \A j \in DOMAIN t : Alike(u[j], t[j]), OldKnown(t, a)
  PROVE  OldKnown(u, a)
<1>1. PICK j \in DOMAIN t : t[j].symbol = a.old /\ t[j].entity = a.entity
  BY DEF OldKnown, OfSymbol
<1>2. u[j].symbol = a.old /\ u[j].entity = a.entity /\ j \in DOMAIN u
  BY <1>1 DEF Alike
<1>. QED  BY <1>2 DEF OldKnown, OfSymbol

LEMMA NamedStep ==
  ASSUME NEW r \in Seq(Actions), NEW w, Table(w), NEW B \in SUBSET (DOMAIN r),
         NEW a \in DOMAIN r, NEW u, Effect(r[a], w, u), Named(r, w, B)
  PROVE  Named(r, u, B \cup {a})
<1>1. r[a] \in Actions
  OBVIOUS
<1>2. DOMAIN w \subseteq DOMAIN u /\ \A j \in DOMAIN w : Alike(u[j], w[j])
  BY <1>1, RowEffect DEF Effect
<1>3. SUFFICES ASSUME NEW i \in B \cup {a}, r[i].kind = "SYMBOL_CHANGE"
               PROVE  OldKnown(u, r[i])
  BY DEF Named
<1>4. CASE i = a
  BY <1>3, <1>4 DEF Effect
<1>5. CASE i \in B
  BY <1>2, <1>3, <1>5, OldKnownLasts DEF Named
<1>. QED  BY <1>3, <1>4, <1>5

LEMMA KnownByStep ==
  ASSUME NEW w, Table(w), NEW a \in Actions, NEW u, Effect(a, w, u),
         NEW k \in Int, a.known <= k, KnownBy(w, k)
  PROVE  KnownBy(u, k)
<1>1. SUFFICES ASSUME NEW j \in DOMAIN u PROVE u[j].known <= k /\ u[j].from >= Floor
  BY DEF KnownBy
<1>2. CASE j \in DOMAIN w
  BY <1>2, RowEffect DEF KnownBy, Alike
<1>3. CASE j \notin DOMAIN w
  <2>1. u[j] = NewRange(a) \/ u[j] = OldRange(a)
    BY <1>1, <1>3 DEF Effect
  <2>2. a.date >= Floor /\ Floor >= Floor
    BY ActionTyped DEF Floor
  <2>. QED  BY <2>1, <2>2, NewRangeIs
<1>. QED  BY <1>2, <1>3

LEMMA ExtendsStep ==
  ASSUME NEW t, NEW w, Table(w), NEW a \in Actions, NEW u, Effect(a, w, u), Extends(t, w)
  PROVE  Extends(t, u)
<1>1. DOMAIN t \subseteq DOMAIN u
  BY DEF Extends, Effect
<1>2. ASSUME NEW i \in DOMAIN t
      PROVE  Alike(u[i], t[i]) /\ u[i].known = t[i].known /\ (t[i].to # Open => u[i] = t[i])
  <2>1. i \in DOMAIN w /\ Alike(w[i], t[i]) /\ w[i].known = t[i].known
        /\ (t[i].to # Open => w[i] = t[i])
    BY DEF Extends
  <2>2. Alike(u[i], w[i]) /\ u[i].known = w[i].known /\ (w[i].to # Open => u[i] = w[i])
    BY <2>1, RowEffect, 0 \in Int
  <2>. QED  BY <2>1, <2>2 DEF Alike
<1>. QED  BY <1>1, <1>2 DEF Extends

(* The actions before a, and a.                                            *)
LEMMA HeldStep ==
  ASSUME NEW r \in Seq(Actions), NEW w, Table(w), NEW B \in SUBSET (DOMAIN r),
         NEW a \in DOMAIN r, \A x \in B : Earlier(r, x, a),
         NEW u, Effect(r[a], w, u), NEW k \in Int, r[a].known <= k,
         KnownBy(u, k), Held(r, w, B, k), Over(r, w, B, k)
  PROVE  Held(r, u, B \cup {a}, k)
<1>1. r[a] \in Actions /\ a \notin B /\ \A x \in B : x \in DOMAIN r /\ r[x] \in Actions
  BY EarlierOrders
<1>2. SUFFICES ASSUME NEW i \in B \cup {a}, Opener(r[i])
               PROVE  \E j \in DOMAIN u : Reaches(r, u[j], B \cup {a}, i, k)
  BY DEF Held
<1>3. \A x \in B \cup {a} : ~Earlier(r, a, x)
  BY EarlierOrders
<1>4. CASE i = a
  <2>1. PICK j \in DOMAIN u : Opens(r[a], u[j]) /\ u[j].to = Open
    BY <1>2, <1>4 DEF Effect
  <2>2. Closers(r, B \cup {a}, i) = {}
    BY <1>3, <1>4 DEF Closers
  <2>3. EndSeen(u[j], k) = Open /\ u[j].known <= k
    BY <2>1 DEF EndSeen, KnownBy
  <2>. QED  BY <1>4, <2>1, <2>2, <2>3 DEF Reaches, First
<1>5. CASE i \in B
  <2>1. PICK j \in DOMAIN w : Reaches(r, w[j], B, i, k)
    BY <1>2, <1>5 DEF Held
  <2>2. /\ w[j].known <= k /\ Opens(r[i], w[j]) /\ r[i] \in Actions
        /\ Closers(r, B, i) = {} => EndSeen(w[j], k) = Open
        /\ \A x \in First(r, Closers(r, B, i)) : LastDate(r[x]) <= EndSeen(w[j], k)
    BY <1>1, <1>5, <2>1 DEF Reaches
  <2>3. /\ j \in DOMAIN u /\ Alike(u[j], w[j]) /\ u[j].known = w[j].known
        /\ w[j].to # Open \/ ~Closes(r[a], w[j]) => u[j] = w[j]
        /\ w[j].to = Open /\ Closes(r[a], w[j]) =>
             EndSeen(u[j], k) = LastDate(r[a])
        /\ EndSeen(w[j], k) \in Int /\ EndSeen(u[j], k) \in Int
    <3>1. j \in DOMAIN u /\ Leaves(r[a], w[j], u[j], k)
      BY RowStep, Zenon
    <3>. QED  BY <3>1 DEF Leaves
  <2>4. Closes(r[a], w[j]) <=> Closes(r[a], NewRange(r[i]))
    BY <2>2, OpensAlike, AlikeSame
  <2>5. Earlier(r, i, a)
    BY <1>5
  <2>6. Opens(r[i], u[j]) /\ u[j].known <= k
    BY <2>2, <2>3, AlikeSame
  <2>7. CASE ~Closes(r[a], w[j])
    <3>1. Closers(r, B \cup {a}, i) = Closers(r, B, i)
      BY <1>1, <2>4, <2>7 DEF Closers
    <3>2. u[j] = w[j]
      BY <2>3, <2>7
    <3>. QED  BY <2>1, <2>3, <3>1, <3>2 DEF Reaches
  <2>8. CASE Closes(r[a], w[j])
    <3>1. Closers(r, B \cup {a}, i) = Closers(r, B, i) \cup {a}
      BY <2>4, <2>5, <2>8 DEF Closers
    <3>2. SUFFICES ASSUME NEW x \in First(r, Closers(r, B, i) \cup {a})
                   PROVE  LastDate(r[x]) <= EndSeen(u[j], k)
      BY <2>3, <2>6, <3>1 DEF Reaches
    <3>3. x # a => x \in First(r, Closers(r, B, i)) /\ x \in B
      BY <3>2 DEF First, Closers
    <3>4. x = a => Closers(r, B, i) = {}
      <4>1. \A y \in Closers(r, B, i) : y \in B
        BY DEF Closers
      <4>2. x = a => \A y \in Closers(r, B, i) : y = a \/ Earlier(r, a, y)
        BY <3>2 DEF First
      <4>. QED  BY <1>1, <1>3, <4>1, <4>2
    <3>5. LastDate(r[a]) \in Int /\ LastDate(r[a]) <= Open
      BY <1>1, ActionTyped DEF Open
    <3>6. CASE w[j].to # Open
      <4>1. u[j] = w[j]
        BY <2>3, <3>6
      <4>. QED  BY <2>2, <3>3, <3>4, <3>5, <4>1
    <3>7. CASE w[j].to = Open
      <4>1. EndSeen(u[j], k) = LastDate(r[a])
        BY <2>3, <2>8, <3>7
      <4>2. CASE x = a
        BY <3>5, <4>1, <4>2
      <4>3. CASE x # a
        <5>1. x \in B /\ Closes(r[x], NewRange(r[i])) /\ r[x] \in Actions
          BY <1>1, <3>3, <4>3 DEF First, Closers
        <5>2. Closes(r[x], w[j])
          BY <2>2, <5>1, OpensAlike, AlikeSame
        <5>3. PICK o \in B : Earlier(r, x, o) /\ Opens(r[o], w[j])
          BY <2>2, <3>7, <5>1, <5>2 DEF Over
        <5>4. r[x].date \in Int /\ r[o].date \in Int /\ r[x].date <= r[o].date
          BY <5>1, <5>3, EarlierOrders
        <5>5. w[j].from = r[o].date
          BY <5>3 DEF Opens
        <5>6. w[j].from <= LastDate(r[a])
          BY <2>8, <3>7 DEF Effect
        <5>7. LastDate(r[x]) \in Int /\ LastDate(r[x]) <= r[x].date
          BY <5>1, ActionTyped
        <5>. QED  BY <3>5, <4>1, <5>4, <5>5, <5>6, <5>7
      <4>. QED  BY <4>2, <4>3
    <3>. QED  BY <3>6, <3>7
  <2>. QED  BY <2>7, <2>8
<1>. QED  BY <1>2, <1>4, <1>5

(* What a closes is not open after; what it opens it did not close.        *)
LEMMA OverStep ==
  ASSUME NEW r \in Seq(Actions), NEW w, Table(w), NEW B \in SUBSET (DOMAIN r),
         NEW a \in DOMAIN r, \A x \in B : Earlier(r, x, a),
         NEW u, Effect(r[a], w, u), NEW k \in Int, Over(r, w, B, k),
         NEW C, C = B \cup {a} \/ (C = B /\ r[a].known > k)
  PROVE  Over(r, u, C, k)
<1>1. r[a] \in Actions /\ r[a].known \in Int /\ r[a].date \in Int /\ r[a].date < Open
  BY EarlierOrders, ActionTyped
<1>2. SUFFICES ASSUME NEW j \in DOMAIN u, NEW x \in C,
                      u[j].to = Open, u[j].known <= k, Closes(r[x], u[j])
               PROVE  \E i \in C : Earlier(r, x, i) /\ Opens(r[i], u[j])
  BY DEF Over
<1>3. CASE j \in DOMAIN w
  <2>1. /\ Alike(u[j], w[j]) /\ u[j].known = w[j].known
        /\ w[j].to # Open \/ ~Closes(r[a], w[j]) => u[j] = w[j]
        /\ w[j].to = Open /\ Closes(r[a], w[j]) => u[j].to # Open
    <3>1. j \in DOMAIN u /\ Leaves(r[a], w[j], u[j], k)
      BY <1>3, RowStep, Zenon
    <3>. QED  BY <3>1 DEF Leaves
  <2>2. u[j] = w[j] /\ ~Closes(r[a], w[j])
    BY <1>2, <2>1
  <2>3. x \in B
    BY <1>2, <2>2
  <2>. QED  BY <1>2, <1>3, <2>2, <2>3 DEF Over
<1>4. CASE j \notin DOMAIN w
  <2>1. \/ Opener(r[a]) /\ u[j] = NewRange(r[a])
        \/ u[j] = OldRange(r[a])
    BY <1>4 DEF Effect
  <2>2. OldRange(r[a]).to # Open
    BY <1>1, NewRangeIs DEF Open
  <2>3. Opener(r[a]) /\ u[j] = NewRange(r[a])
    BY <1>2, <2>1, <2>2
  <2>4. Opens(r[a], u[j]) /\ ~Closes(r[a], u[j]) /\ u[j].known = r[a].known
    BY <1>1, <2>3, NewRangeIs, OpenerKeeps
  <2>5. C = B \cup {a}
    BY <1>1, <1>2, <2>4
  <2>6. x \in B
    BY <1>2, <2>4, <2>5
  <2>. QED  BY <2>4, <2>5, <2>6
<1>. QED  BY <1>3, <1>4

-----------------------------------------------------------------------------
(* One action a of the rest T of a sync, for a decision that has seen A by *)
(* the instant k: a is the next in order, and either the decision has seen *)
(* it, or it came to be known later and takes effect before or after all   *)
(* the decision has seen.                                                  *)
NextFor(r, T, A, a, k) ==
  /\ r \in Seq(Actions) /\ T \subseteq DOMAIN r /\ A \subseteq DOMAIN r /\ a \in T
  /\ \A o \in T \ {a} : Earlier(r, a, o)
  /\ \A x \in A \ T : Earlier(r, x, a)
  /\ a \in A => r[a].known <= k
  /\ a \notin A => /\ r[a].known > k
                   /\ ~\E x, o \in A : Earlier(r, x, a) /\ Earlier(r, a, o)

LEMMA NextForIs ==
  ASSUME NEW r, NEW T, NEW A, NEW a, NEW k, NextFor(r, T, A, a, k)
  PROVE  /\ r \in Seq(Actions) /\ T \subseteq DOMAIN r /\ A \subseteq DOMAIN r
         /\ a \in T /\ a \in DOMAIN r /\ r[a] \in Actions /\ r[a].known \in Int
         /\ \A o \in A : Earlier(r, a, o) => o \in T \ {a}
         /\ \A x \in A \ T : Earlier(r, x, a) /\ x # a /\ x \in A \ (T \ {a})
         /\ a \in A => a \in A \ (T \ {a}) /\ r[a].known <= k
         /\ a \notin A => r[a].known > k
<1>1. /\ r \in Seq(Actions) /\ T \subseteq DOMAIN r /\ A \subseteq DOMAIN r
      /\ a \in T /\ a \in DOMAIN r /\ r[a] \in Actions
      /\ a \in A => r[a].known <= k
      /\ a \notin A => r[a].known > k
  BY DEF NextFor
<1>2. r[a].known \in Int
  BY <1>1, ActionTyped
<1>3. \A o \in A : Earlier(r, a, o) => o \in T \ {a}
  <2>1. SUFFICES ASSUME NEW o \in A, Earlier(r, a, o) PROVE o \in T \ {a}
    OBVIOUS
  <2>2. o # a /\ ~Earlier(r, o, a)
    BY <1>1, <2>1, EarlierOrders
  <2>. QED  BY <2>2 DEF NextFor
<1>4. \A x \in A \ T : Earlier(r, x, a) /\ x # a
  BY <1>1 DEF NextFor
<1>. QED  BY <1>1, <1>2, <1>3, <1>4

(* A range of the start that the decision saw open, and that one of its    *)
(* own actions closes, is one that is opened again.                        *)
LEMMA ReopenedLater ==
  ASSUME NEW r, NEW T, NEW A, NEW a, NEW k \in Int, NextFor(r, T, A, a, k), a \in A,
         NEW t, Table(t), Over(r, t, A, k), NEW i \in DOMAIN t,
         t[i].to = Open, t[i].known <= k, Closes(r[a], t[i])
  PROVE  \E x \in A \ (T \ {a}), o \in A \cap (T \ {a}) :
           ~Opener(r[x]) /\ r[x].entity = t[i].entity /\ Opens(r[o], t[i])
<1>1. PICK o \in A : Earlier(r, a, o) /\ Opens(r[o], t[i])
  BY DEF Over
<1>2. o \in T \ {a} /\ a \in A \ (T \ {a}) /\ a \in DOMAIN r /\ o \in DOMAIN r /\ r \in Seq(Actions)
  BY <1>1, NextForIs
<1>3. r[a].date <= r[o].date /\ r[a].date \in Int /\ r[o].date \in Int
  BY <1>1, <1>2, EarlierOrders
<1>4. ~(t[i].from < r[a].date)
  BY <1>1, <1>3 DEF Opens
<1>5. ~Opener(r[a]) /\ r[a].entity = t[i].entity
  <2>1. r[a].kind = "SYMBOL_CHANGE" => Opener(r[a])
    BY DEF Opener
  <2>. QED  BY <1>4, <2>1 DEF Closes
<1>. QED  BY <1>1, <1>2, <1>5

LEMMA KeptStep ==
  ASSUME NEW r, NEW T, NEW A, NEW a, NEW k \in Int, NextFor(r, T, A, a, k),
         NEW t, Table(t), NEW w, Table(w), Extends(t, w), Over(r, t, A, k),
         NEW u, Effect(r[a], w, u), Kept(r, t, w, T, A, k), Ended(r, w, T, A, k)
  PROVE  Kept(r, t, u, T \ {a}, A, k)
<1>1. /\ r \in Seq(Actions) /\ a \in DOMAIN r /\ r[a] \in Actions /\ r[a].known \in Int
      /\ a \in T /\ \A x \in A \ T : x \in A \ (T \ {a})
      /\ a \in A => a \in A \ (T \ {a}) /\ r[a].known <= k
      /\ a \notin A => r[a].known > k
  BY NextForIs
<1>2. SUFFICES ASSUME NEW i \in DOMAIN t, t[i].known <= k
               PROVE  \/ EndSeen(u[i], k) = EndSeen(t[i], k)
                      \/ /\ t[i].to = Open
                         /\ \E j \in DOMAIN u :
                              Alike(u[j], t[i]) /\ u[j].known <= k /\ EndSeen(u[j], k) = Open
                      \/ /\ t[i].to = Open
                         /\ \E x \in A \ (T \ {a}), o \in A \cap (T \ {a}) :
                              ~Opener(r[x]) /\ r[x].entity = t[i].entity /\ Opens(r[o], t[i])
  BY DEF Kept
<1>3. /\ i \in DOMAIN w /\ Alike(w[i], t[i]) /\ w[i].known = t[i].known
      /\ t[i].to # Open => w[i] = t[i]
  BY DEF Extends
<1>4. CASE EndSeen(w[i], k) = EndSeen(t[i], k)
  <2>1. CASE w[i].to # Open \/ ~Closes(r[a], w[i])
    <3>1. i \in DOMAIN u /\ Leaves(r[a], w[i], u[i], k)
      BY <1>1, <1>3, RowStep, Zenon
    <3>. QED  BY <1>4, <2>1, <3>1 DEF Leaves
  <2>2. CASE w[i].to = Open /\ Closes(r[a], w[i]) /\ a \notin A
    <3>1. EndSeen(u[i], k) = Open /\ EndSeen(w[i], k) = Open
      <4>1. i \in DOMAIN u /\ Leaves(r[a], w[i], u[i], k)
        BY <1>1, <1>3, RowStep, Zenon
      <4>. QED  BY <1>1, <2>2, <4>1 DEF Leaves
    <3>. QED  BY <1>4, <3>1
  <2>3. CASE w[i].to = Open /\ Closes(r[a], w[i]) /\ a \in A
    <3>1. t[i].to = Open
      BY <1>3, <2>3
    <3>2. Closes(r[a], t[i])
      BY <1>3, <2>3, AlikeSame
    <3>. QED  BY <1>2, <2>3, <3>1, <3>2, ReopenedLater
  <2>. QED  BY <2>1, <2>2, <2>3
<1>5. CASE /\ t[i].to = Open
           /\ \E j \in DOMAIN w :
                Alike(w[j], t[i]) /\ w[j].known <= k /\ EndSeen(w[j], k) = Open
  <2>1. PICK j \in DOMAIN w :
          Alike(w[j], t[i]) /\ w[j].known <= k /\ EndSeen(w[j], k) = Open
    BY <1>5
  <2>2. j \in DOMAIN u /\ Alike(u[j], w[j]) /\ u[j].known = w[j].known
    <3>1. j \in DOMAIN u /\ Leaves(r[a], w[j], u[j], k)
      BY <1>1, RowStep, Zenon
    <3>. QED  BY <3>1 DEF Leaves
  <2>3. Alike(u[j], t[i])
    BY <2>1, <2>2 DEF Alike
  <2>4. CASE EndSeen(u[j], k) = Open
    BY <1>5, <2>1, <2>2, <2>3, <2>4
  <2>5. CASE EndSeen(u[j], k) # Open
    <3>1. Closes(r[a], w[j]) /\ ~(r[a].known > k)
      <4>1. j \in DOMAIN u /\ Leaves(r[a], w[j], u[j], k)
        BY <1>1, RowStep, Zenon
      <4>. QED  BY <1>1, <2>1, <2>5, <4>1 DEF Leaves
    <3>2. a \in A /\ Closes(r[a], t[i])
      BY <1>1, <2>1, <3>1, AlikeSame
    <3>. QED  BY <1>2, <1>5, <3>2, ReopenedLater
  <2>. QED  BY <2>4, <2>5
<1>6. CASE /\ t[i].to = Open
           /\ \E x \in A \ T, o \in A \cap T :
                ~Opener(r[x]) /\ r[x].entity = t[i].entity /\ Opens(r[o], t[i])
  <2>1. PICK x \in A \ T, o \in A \cap T :
          ~Opener(r[x]) /\ r[x].entity = t[i].entity /\ Opens(r[o], t[i])
    BY <1>6
  <2>2. CASE o # a
    BY <1>1, <1>6, <2>1, <2>2
  <2>3. CASE o = a
    <3>1. Opens(r[a], t[i]) /\ Opener(r[a]) /\ r[a].known <= k
      BY <1>1, <2>1, <2>3 DEF Opens
    <3>2. PICK j \in DOMAIN u :
            Opens(r[a], u[j]) /\ u[j].to = Open /\ (j \in DOMAIN w \/ u[j] = NewRange(r[a]))
      BY <3>1 DEF Effect
    <3>3. Alike(u[j], t[i]) /\ EndSeen(u[j], k) = Open
      BY <3>1, <3>2 DEF Alike, Opens, EndSeen
    <3>4. u[j].known <= k
      <4>1. CASE j \in DOMAIN w
        <5>1. w[j].to = Open /\ Alike(u[j], w[j]) /\ u[j].known = w[j].known
          <6>1. j \in DOMAIN u /\ Leaves(r[a], w[j], u[j], k)
            BY <1>1, <4>1, RowStep, Zenon
          <6>. QED  BY <3>2, <6>1 DEF Leaves
        <5>2. w[j].entity = r[x].entity
          BY <2>1, <3>3, <5>1 DEF Alike
        <5>. QED  BY <2>1, <4>1, <5>1, <5>2 DEF Ended
      <4>2. CASE u[j] = NewRange(r[a])
        BY <1>1, <3>1, <4>2, NewRangeIs
      <4>. QED  BY <3>2, <4>1, <4>2
    <3>. QED  BY <1>6, <3>2, <3>3, <3>4
  <2>. QED  BY <2>2, <2>3
<1>. QED  BY <1>2, <1>4, <1>5, <1>6 DEF Kept

LEMMA EndedStep ==
  ASSUME NEW r, NEW T, NEW A, NEW a, NEW k \in Int, NextFor(r, T, A, a, k),
         NEW w, Table(w), NEW u, Effect(r[a], w, u), Ended(r, w, T, A, k)
  PROVE  Ended(r, u, T \ {a}, A, k)
<1>1. /\ r \in Seq(Actions) /\ a \in DOMAIN r /\ r[a] \in Actions /\ r[a].known \in Int
      /\ a \in A => r[a].known <= k
      /\ a \notin A => r[a].known > k
  BY NextForIs
<1>2. SUFFICES ASSUME NEW x \in A \ (T \ {a}), NEW o \in A \cap (T \ {a}), NEW j \in DOMAIN u,
                      ~Opener(r[x]), u[j].entity = r[x].entity, u[j].to = Open
               PROVE  u[j].known <= k
  BY DEF Ended
<1>3. CASE j \in DOMAIN w
  <2>1. /\ Alike(u[j], w[j]) /\ u[j].known = w[j].known
        /\ w[j].to # Open => u[j] = w[j]
        /\ w[j].to = Open => ~Closes(r[a], w[j])
    <3>1. j \in DOMAIN u /\ Leaves(r[a], w[j], u[j], k)
      BY <1>1, <1>3, RowStep, Zenon
    <3>. QED  BY <1>1, <1>2, <3>1 DEF Leaves
  <2>2. w[j].to = Open /\ w[j].entity = r[x].entity /\ ~Closes(r[a], w[j])
    BY <1>2, <2>1 DEF Alike
  <2>3. x # a
    BY <1>2, <2>2 DEF Closes
  <2>. QED  BY <1>2, <1>3, <2>1, <2>2, <2>3 DEF Ended
<1>4. CASE j \notin DOMAIN w
  <2>1. u[j] = NewRange(r[a]) \/ u[j] = OldRange(r[a])
    BY <1>4 DEF Effect
  <2>2. u[j].known = r[a].known
    BY <1>1, <2>1, NewRangeIs
  <2>3. a \in A
    <3>1. SUFFICES ASSUME a \notin A PROVE FALSE
      OBVIOUS
    <3>2. Earlier(r, x, a) /\ Earlier(r, a, o)
      BY <3>1 DEF NextFor
    <3>. QED  BY <3>1, <3>2 DEF NextFor
  <2>. QED  BY <1>1, <2>2, <2>3
<1>. QED  BY <1>3, <1>4

LEMMA GainedStep ==
  ASSUME NEW r, NEW T, NEW A, NEW a, NEW k \in Int, NextFor(r, T, A, a, k),
         NEW t, Table(t), NEW w, Table(w), Extends(t, w), Applied(r, t, A, k),
         NEW u, Effect(r[a], w, u), Gained(r, t, w, T, A, k)
  PROVE  Gained(r, t, u, T \ {a}, A, k)
<1>1. /\ r \in Seq(Actions) /\ a \in DOMAIN r /\ r[a] \in Actions /\ r[a].known \in Int
      /\ A \subseteq DOMAIN r
      /\ \A o \in A : Earlier(r, a, o) => o \in T \ {a}
      /\ \A x \in A \ T : Earlier(r, x, a) /\ x \in A \ (T \ {a})
      /\ a \in A => a \in A \ (T \ {a}) /\ r[a].known <= k
      /\ a \notin A => r[a].known > k
  BY NextForIs
<1>2. SUFFICES ASSUME NEW j \in DOMAIN u, u[j].known <= k
               PROVE  \/ \E i \in DOMAIN t :
                           /\ Alike(t[i], u[j]) /\ t[i].known <= k
                           /\ EndSeen(u[j], k) <= EndSeen(t[i], k)
                      \/ /\ u[j].to = Open
                         /\ \E o \in A \ (T \ {a}) :
                              /\ Opens(r[o], u[j])
                              /\ Closers(r, A, o) # {} /\ Closers(r, A, o) \subseteq T \ {a}
  BY DEF Gained
<1>3. \A o \in A : Opener(r[o]) =>
        \E i \in DOMAIN t : Reaches(r, t[i], A, o, k)
  BY DEF Applied, Held
<1>4. \A i \in DOMAIN t : EndSeen(t[i], k) \in Int
  <2>1. SUFFICES ASSUME NEW i \in DOMAIN t PROVE EndSeen(t[i], k) \in Int
    OBVIOUS
  <2>2. t[i].to \in Int
    BY RowTyped
  <2>. QED  BY <2>2 DEF EndSeen, Open
<1>5. CASE j \in DOMAIN w
  <2>1. /\ Alike(u[j], w[j]) /\ u[j].known = w[j].known
        /\ w[j].to # Open \/ ~Closes(r[a], w[j]) => u[j] = w[j]
        /\ EndSeen(w[j], k) \in Int /\ EndSeen(u[j], k) \in Int
        /\ EndSeen(u[j], k) <= EndSeen(w[j], k)
    <3>1. j \in DOMAIN u /\ Leaves(r[a], w[j], u[j], k)
      BY <1>1, <1>5, RowStep, Zenon
    <3>. QED  BY <3>1 DEF Leaves
  <2>2. CASE \E i \in DOMAIN t :
               /\ Alike(t[i], w[j]) /\ t[i].known <= k
               /\ EndSeen(w[j], k) <= EndSeen(t[i], k)
    <3>1. PICK i \in DOMAIN t :
            /\ Alike(t[i], w[j]) /\ t[i].known <= k
            /\ EndSeen(w[j], k) <= EndSeen(t[i], k)
      BY <2>2
    <3>2. EndSeen(u[j], k) <= EndSeen(t[i], k)
      BY <1>4, <2>1, <3>1
    <3>3. Alike(t[i], u[j])
      BY <2>1, <3>1 DEF Alike
    <3>. QED  BY <3>1, <3>2, <3>3
  <2>3. CASE /\ w[j].to = Open
             /\ \E o \in A \ T :
                  /\ Opens(r[o], w[j])
                  /\ Closers(r, A, o) # {} /\ Closers(r, A, o) \subseteq T
    <3>1. PICK o \in A \ T :
            /\ Opens(r[o], w[j])
            /\ Closers(r, A, o) # {} /\ Closers(r, A, o) \subseteq T
      BY <2>3
    <3>2. Earlier(r, o, a) /\ o \in A \ (T \ {a}) /\ r[o] \in Actions
      BY <1>1
    <3>3. Closes(r[a], w[j]) <=> Closes(r[a], NewRange(r[o]))
      BY <3>1, <3>2, OpensAlike, AlikeSame
    <3>4. CASE a \in Closers(r, A, o)
      <4>1. a \in A /\ Closes(r[a], w[j])
        BY <3>3, <3>4 DEF Closers
      <4>2. EndSeen(u[j], k) = LastDate(r[a])
        <5>1. r[a].known <= k
          BY <1>1, <4>1
        <5>2. w[j].to = Open /\ Closes(r[a], w[j]) =>
                (r[a].known <= k => EndSeen(u[j], k) = LastDate(r[a]))
          <6>1. r \in Seq(Actions) /\ a \in DOMAIN r
            BY <1>1
          <6>2. j \in DOMAIN u /\ Leaves(r[a], w[j], u[j], k)
            BY <1>5, <6>1, RowStep, Zenon
          <6>. QED  BY <6>2 DEF Leaves
        <5>. QED  BY <2>3, <4>1, <5>1, <5>2
      <4>3. PICK i \in DOMAIN t : Reaches(r, t[i], A, o, k)
        BY <1>3, <3>1 DEF Opens
      <4>4. a \in First(r, Closers(r, A, o))
        <5>1. \A y \in Closers(r, A, o) : y = a \/ Earlier(r, a, y)
          BY <3>1 DEF NextFor
        <5>. QED  BY <3>4, <5>1 DEF First
      <4>5. LastDate(r[a]) <= EndSeen(t[i], k) /\ t[i].known <= k /\ Opens(r[o], t[i])
        BY <4>3, <4>4 DEF Reaches
      <4>6. Alike(t[i], u[j])
        BY <2>1, <3>1, <4>5 DEF Opens, Alike
      <4>. QED  BY <4>2, <4>5, <4>6
    <3>5. CASE a \notin Closers(r, A, o)
      <4>1. ~Closes(r[a], w[j])
        <5>1. SUFFICES ASSUME Closes(r[a], w[j]) PROVE FALSE
          OBVIOUS
        <5>2. a \notin A
          BY <3>2, <3>3, <3>5, <5>1 DEF Closers
        <5>3. PICK x \in Closers(r, A, o) : TRUE
          BY <3>1
        <5>4. x \in A /\ x \in T /\ x # a
          BY <3>1, <3>5 DEF Closers
        <5>5. Earlier(r, a, x)
          BY <5>4 DEF NextFor
        <5>. QED  BY <3>1, <3>2, <5>2, <5>4, <5>5 DEF NextFor
      <4>2. u[j] = w[j]
        BY <2>1, <4>1
      <4>3. Closers(r, A, o) \subseteq T \ {a}
        BY <3>1, <3>5
      <4>. QED  BY <2>3, <3>1, <3>2, <4>2, <4>3
    <3>. QED  BY <3>4, <3>5
  <2>. QED  BY <1>2, <1>5, <2>1, <2>2, <2>3 DEF Gained
<1>6. CASE j \notin DOMAIN w
  <2>1. \/ Opener(r[a]) /\ u[j] = NewRange(r[a])
        \/ r[a].kind = "SYMBOL_CHANGE" /\ ~OldKnown(w, r[a]) /\ u[j] = OldRange(r[a])
    BY <1>6 DEF Effect
  <2>2. u[j].known = r[a].known
    BY <1>1, <2>1, NewRangeIs
  <2>3. a \in A
    BY <1>1, <1>2, <2>2
  <2>4. r[a].kind = "SYMBOL_CHANGE" => OldKnown(w, r[a])
    <3>1. r[a].kind = "SYMBOL_CHANGE" => OldKnown(t, r[a])
      BY <2>3 DEF Applied, Named
    <3>. QED  BY <3>1, OldKnownLasts DEF Extends
  <2>5. Opener(r[a]) /\ u[j] = NewRange(r[a])
    BY <2>1, <2>4
  <2>6. Opens(r[a], u[j]) /\ u[j].to = Open
    BY <1>1, <2>5, NewRangeIs
  <2>7. PICK i \in DOMAIN t : Reaches(r, t[i], A, a, k)
    BY <1>3, <2>3, <2>5
  <2>8. CASE Closers(r, A, a) = {}
    <3>1. EndSeen(t[i], k) = Open /\ t[i].known <= k /\ Opens(r[a], t[i])
      BY <2>7, <2>8 DEF Reaches
    <3>2. Alike(t[i], u[j])
      BY <2>6, <3>1 DEF Opens, Alike
    <3>3. EndSeen(u[j], k) = Open
      BY <2>6 DEF EndSeen
    <3>4. Open <= Open
      BY DEF Open
    <3>. QED  BY <3>1, <3>2, <3>3, <3>4
  <2>9. CASE Closers(r, A, a) # {}
    <3>1. Closers(r, A, a) \subseteq T \ {a}
      BY <1>1 DEF Closers
    <3>. QED  BY <1>1, <2>3, <2>6, <2>9, <3>1
  <2>. QED  BY <2>8, <2>9
<1>. QED  BY <1>5, <1>6

-----------------------------------------------------------------------------
(* A sync starts from the committed table, with nothing a decision has     *)
(* seen applied again.                                                     *)
LEMMA MidwayStarts ==
  ASSUME NEW r, NEW t, Table(t), NEW A, NEW T, A \subseteq T, NEW k \in Int
  PROVE  Midway(r, t, t, T, A, k) /\ Extends(t, t)
<1>1. A \ T = {}
  OBVIOUS
<1>2. \A i \in DOMAIN t : Alike(t[i], t[i]) /\ EndSeen(t[i], k) <= EndSeen(t[i], k)
  <2>1. SUFFICES ASSUME NEW i \in DOMAIN t PROVE EndSeen(t[i], k) <= EndSeen(t[i], k)
    BY DEF Alike
  <2>2. t[i].to \in Int
    BY RowTyped
  <2>. QED  BY <2>2 DEF EndSeen, Open
<1>3. Kept(r, t, t, T, A, k) /\ Gained(r, t, t, T, A, k)
  BY <1>2 DEF Kept, Gained
<1>4. Ended(r, t, T, A, k) /\ Over(r, t, A \ T, k)
  BY <1>1 DEF Ended, Over
<1>. QED  BY <1>2, <1>3, <1>4 DEF Midway, Extends

LEMMA MidwayStep ==
  ASSUME NEW r, NEW T, NEW A, NEW a, NEW k \in Int, NextFor(r, T, A, a, k),
         NEW t, Table(t), NEW w, Table(w), Extends(t, w), Applied(r, t, A, k),
         NEW u, Effect(r[a], w, u), Midway(r, t, w, T, A, k)
  PROVE  Midway(r, t, u, T \ {a}, A, k)
<1>1. Kept(r, t, u, T \ {a}, A, k)
  BY KeptStep DEF Midway, Applied
<1>2. Gained(r, t, u, T \ {a}, A, k)
  BY GainedStep DEF Midway
<1>3. Ended(r, u, T \ {a}, A, k)
  BY EndedStep DEF Midway
<1>4. Over(r, u, A \ (T \ {a}), k)
  <2>1. /\ r \in Seq(Actions) /\ A \ T \in SUBSET (DOMAIN r) /\ a \in DOMAIN r
        /\ \A x \in A \ T : Earlier(r, x, a)
        /\ a \in T /\ (a \notin A => r[a].known > k)
    BY NextForIs
  <2>2. \/ A \ (T \ {a}) = (A \ T) \cup {a}
        \/ A \ (T \ {a}) = A \ T /\ r[a].known > k
    BY <2>1
  <2>3. Over(r, w, A \ T, k)
    BY DEF Midway
  <2>. QED  BY <2>1, <2>2, <2>3, OverStep
<1>. QED  BY <1>1, <1>2, <1>3, <1>4 DEF Midway

(* When it has applied all, the decision finds what it had found.          *)
LEMMA MidwayEnds ==
  ASSUME NEW r, NEW t, Table(t), NEW w, Table(w), NEW A, NEW k \in Int,
         \A i \in A : LastDate(r[i]) <= Open,
         Extends(t, w), Applied(r, t, A, k), Midway(r, t, w, {}, A, k)
  PROVE  Applied(r, w, A, k)
<1>1. Named(r, w, A)
  BY OldKnownLasts DEF Applied, Named, Extends
<1>2. Over(r, w, A, k)
  <2>1. A \ {} = A
    OBVIOUS
  <2>. QED  BY <2>1 DEF Midway
<1>3. Held(r, w, A, k)
  <2>1. SUFFICES ASSUME NEW i \in A, Opener(r[i])
                 PROVE  \E j \in DOMAIN w : Reaches(r, w[j], A, i, k)
    BY DEF Held
  <2>2. PICK j \in DOMAIN t : Reaches(r, t[j], A, i, k)
    BY <2>1 DEF Applied, Held
  <2>3. /\ t[j].known <= k /\ Opens(r[i], t[j])
        /\ Closers(r, A, i) = {} => EndSeen(t[j], k) = Open
        /\ \A x \in First(r, Closers(r, A, i)) : LastDate(r[x]) <= EndSeen(t[j], k)
    BY <2>2 DEF Reaches
  <2>4. CASE EndSeen(w[j], k) = EndSeen(t[j], k)
    <3>1. j \in DOMAIN w /\ Alike(w[j], t[j]) /\ w[j].known <= k
      BY <2>3 DEF Extends
    <3>2. Opens(r[i], w[j])
      BY <2>3, <3>1, AlikeSame
    <3>. QED  BY <2>3, <2>4, <3>1, <3>2 DEF Reaches
  <2>5. CASE \E m \in DOMAIN w :
               Alike(w[m], t[j]) /\ w[m].known <= k /\ EndSeen(w[m], k) = Open
    <3>1. PICK m \in DOMAIN w :
            Alike(w[m], t[j]) /\ w[m].known <= k /\ EndSeen(w[m], k) = Open
      BY <2>5
    <3>2. Opens(r[i], w[m])
      BY <2>3, <3>1, AlikeSame
    <3>3. \A x \in First(r, Closers(r, A, i)) : LastDate(r[x]) <= EndSeen(w[m], k)
      BY <3>1 DEF First, Closers
    <3>. QED  BY <3>1, <3>2, <3>3 DEF Reaches
  <2>. QED  BY <2>3, <2>4, <2>5 DEF Midway, Kept
<1>. QED  BY <1>1, <1>2, <1>3 DEF Applied

LEMMA HeldOnIs ==
  ASSUME NEW t, Table(t), NEW i \in DOMAIN t, NEW k \in Int, NEW date \in 0..MaxTime
  PROVE  HeldOn(t[i], date, k) <=>
           t[i].from <= date /\ date <= EndSeen(t[i], k) /\ t[i].known <= k
<1>1. t[i].to \in Int /\ t[i].closeKnown \in Int /\ date \in Int /\ date <= Open
  BY RowTyped, BoundsAssumption DEF Open
<1>. QED  BY <1>1 DEF HeldOn, EndSeen

LEMMA MidwayResolves ==
  ASSUME NEW r, NEW t, Table(t), NEW w, Table(w), NEW A, NEW k \in Int,
         Extends(t, w), Midway(r, t, w, {}, A, k)
  PROVE  /\ \A symbol : \A date \in 0..MaxTime :
              Resolve(w, symbol, date, k) = Resolve(t, symbol, date, k)
         /\ \A entity : SymbolsFor(w, entity, k) = SymbolsFor(t, entity, k)
<1>1. \A i \in DOMAIN t : t[i].known <= k =>
        \/ i \in DOMAIN w /\ Alike(w[i], t[i]) /\ w[i].known <= k
           /\ EndSeen(w[i], k) = EndSeen(t[i], k)
        \/ \E j \in DOMAIN w :
             Alike(w[j], t[i]) /\ w[j].known <= k /\ EndSeen(w[j], k) = Open
  BY DEF Midway, Kept, Extends
<1>2. \A j \in DOMAIN w : w[j].known <= k =>
        \E i \in DOMAIN t :
          Alike(t[i], w[j]) /\ t[i].known <= k /\ EndSeen(w[j], k) <= EndSeen(t[i], k)
  BY DEF Midway, Gained
<1>3. \A s : Table(s) => \A i \in DOMAIN s :
        EndSeen(s[i], k) \in Int /\ s[i].from \in Int
  <2>1. SUFFICES ASSUME NEW s, Table(s), NEW i \in DOMAIN s
                 PROVE  EndSeen(s[i], k) \in Int /\ s[i].from \in Int
    OBVIOUS
  <2>2. s[i].to \in Int /\ s[i].from \in Int
    BY <2>1, RowTyped
  <2>. QED  BY <2>2 DEF EndSeen, Open
<1>4. ASSUME NEW symbol, NEW date \in 0..MaxTime
      PROVE  Resolve(w, symbol, date, k) = Resolve(t, symbol, date, k)
  <2>1. date \in Int /\ date <= Open
    BY BoundsAssumption DEF Open
  <2>2. Holders(t, symbol, date, k) \subseteq Holders(w, symbol, date, k)
    <3>1. SUFFICES ASSUME NEW i \in DOMAIN t, t[i].symbol = symbol, HeldOn(t[i], date, k)
                   PROVE  \E j \in DOMAIN w :
                            /\ w[j].symbol = symbol /\ w[j].entity = t[i].entity
                            /\ HeldOn(w[j], date, k)
      BY DEF Holders, OfSymbol
    <3>2. t[i].from <= date /\ date <= EndSeen(t[i], k) /\ t[i].known <= k
      BY <3>1, HeldOnIs
    <3>3. PICK j \in DOMAIN w :
            /\ Alike(w[j], t[i]) /\ w[j].known <= k
            /\ EndSeen(w[j], k) = EndSeen(t[i], k) \/ EndSeen(w[j], k) = Open
      BY <1>1, <3>2
    <3>4. w[j].from <= date /\ date <= EndSeen(w[j], k)
      BY <2>1, <3>2, <3>3 DEF Alike
    <3>5. HeldOn(w[j], date, k)
      BY <3>3, <3>4, HeldOnIs
    <3>. QED  BY <3>1, <3>3, <3>5 DEF Alike
  <2>3. Holders(w, symbol, date, k) \subseteq Holders(t, symbol, date, k)
    <3>1. SUFFICES ASSUME NEW j \in DOMAIN w, w[j].symbol = symbol, HeldOn(w[j], date, k)
                   PROVE  \E i \in DOMAIN t :
                            /\ t[i].symbol = symbol /\ t[i].entity = w[j].entity
                            /\ HeldOn(t[i], date, k)
      BY DEF Holders, OfSymbol
    <3>2. w[j].from <= date /\ date <= EndSeen(w[j], k) /\ w[j].known <= k
      BY <3>1, HeldOnIs
    <3>3. PICK i \in DOMAIN t :
            Alike(t[i], w[j]) /\ t[i].known <= k /\ EndSeen(w[j], k) <= EndSeen(t[i], k)
      BY <1>2, <3>2
    <3>4. t[i].from <= date /\ date <= EndSeen(t[i], k)
      <4>1. EndSeen(t[i], k) \in Int /\ EndSeen(w[j], k) \in Int
        BY <1>3
      <4>. QED  BY <2>1, <3>2, <3>3, <4>1 DEF Alike
    <3>5. HeldOn(t[i], date, k)
      BY <3>3, <3>4, HeldOnIs
    <3>. QED  BY <3>1, <3>3, <3>5 DEF Alike
  <2>4. Holders(w, symbol, date, k) = Holders(t, symbol, date, k)
    BY <2>2, <2>3
  <2>. QED  BY <2>4 DEF Resolve
<1>5. ASSUME NEW entity
      PROVE  SymbolsFor(w, entity, k) = SymbolsFor(t, entity, k)
  <2>1. ASSUME NEW i \in DOMAIN t, t[i].entity = entity, t[i].known <= k
        PROVE  \E j \in DOMAIN w :
                 w[j].symbol = t[i].symbol /\ w[j].entity = entity /\ w[j].known <= k
    BY <1>1, <2>1 DEF Alike
  <2>2. ASSUME NEW j \in DOMAIN w, w[j].entity = entity, w[j].known <= k
        PROVE  \E i \in DOMAIN t :
                 t[i].symbol = w[j].symbol /\ t[i].entity = entity /\ t[i].known <= k
    BY <1>2, <2>2 DEF Alike
  <2>. QED  BY <2>1, <2>2 DEF SymbolsFor, OfEntity
<1>. QED  BY <1>4, <1>5

-----------------------------------------------------------------------------
(* What a decision found is a matter of the rows it has seen only.         *)
LEMMA AppliedLasts ==
  ASSUME NEW r \in Seq(Actions), NEW q \in Seq(Actions), NEW A,
         A \subseteq DOMAIN r, \A i \in A : q[i] = r[i],
         NEW t, NEW k, Applied(r, t, A, k)
  PROVE  Applied(q, t, A, k)
<1>1. \A i, j \in A : Earlier(q, i, j) <=> Earlier(r, i, j)
  BY DEF Earlier
<1>2. \A i \in A : Closers(q, A, i) = Closers(r, A, i)
  BY <1>1 DEF Closers
<1>3. \A S \in SUBSET A : First(q, S) = First(r, S)
  BY <1>1 DEF First
<1>4. \A i \in A : Closers(r, A, i) \in SUBSET A
  BY DEF Closers
<1>5. \A i \in A : First(q, Closers(q, A, i)) = First(r, Closers(r, A, i))
  BY <1>2, <1>3, <1>4
<1>6. \A i \in A : First(r, Closers(r, A, i)) \subseteq A
  BY DEF First, Closers
<1>7. ASSUME NEW i \in A, NEW e, Reaches(r, e, A, i, k) PROVE Reaches(q, e, A, i, k)
  <2>1. \A x \in First(q, Closers(q, A, i)) : q[x] = r[x]
    BY <1>5, <1>6
  <2>. QED  BY <1>2, <1>5, <1>7, <2>1 DEF Reaches
<1>8. Named(q, t, A)
  BY DEF Applied, Named
<1>9. Held(q, t, A, k)
  BY <1>7 DEF Applied, Held
<1>10. Over(q, t, A, k)
  <2>1. SUFFICES ASSUME NEW j \in DOMAIN t, NEW x \in A,
                        t[j].to = Open, t[j].known <= k, Closes(q[x], t[j])
                 PROVE  \E i \in A : Earlier(q, x, i) /\ Opens(q[i], t[j])
    BY DEF Over
  <2>2. PICK i \in A : Earlier(r, x, i) /\ Opens(r[i], t[j])
    BY <2>1 DEF Applied, Over
  <2>. QED  BY <1>1, <2>2
<1>. QED  BY <1>8, <1>9, <1>10 DEF Applied

StandsInv == HolderInv /\ StandInv

LEMMA StandTyped ==
  ASSUME StandsInv
  PROVE  /\ rows \in Seq(Actions) /\ Table(ranges) /\ Table(work)
         /\ clock \in Nat /\ todo \subseteq DOMAIN rows
         /\ \A i \in DOMAIN rows : rows[i] \in Actions /\ rows[i].known \in Int
<1>1. /\ rows \in Seq(Actions) /\ Table(ranges) /\ Table(work)
      /\ clock \in 0..MaxTime /\ todo \subseteq DOMAIN rows
  BY DEF StandsInv, HolderInv, TypeInv
<1>2. \A i \in DOMAIN rows : rows[i] \in Actions
  BY <1>1
<1>. QED  BY <1>1, <1>2, ActionTyped

(* The parts of the invariant that steps of a sync keep of a decision.     *)
LEMMA DecisionIs ==
  ASSUME StandsInv, NEW s \in synced
  PROVE  /\ s.at \in Int /\ s.at \in 0..clock /\ s.at <= clock
         /\ s.seen \subseteq Visible(s.at) /\ s.seen \subseteq DOMAIN rows
         /\ s.seen \subseteq Visible(clock)
         /\ Undisturbed(s) => Applied(rows, ranges, s.seen, s.at)
         /\ Undisturbed(s) /\ sync # None => Midway(rows, ranges, work, todo, s.seen, s.at)
<1>1. /\ s.at \in 0..clock /\ s.seen \subseteq Visible(s.at)
      /\ Undisturbed(s) => Applied(rows, ranges, s.seen, s.at)
      /\ Undisturbed(s) /\ sync # None => Midway(rows, ranges, work, todo, s.seen, s.at)
  BY DEF StandsInv, StandInv
<1>2. clock \in Nat /\ \A i \in DOMAIN rows : rows[i].known \in Int
  BY StandTyped
<1>3. s.at \in Int /\ s.at <= clock
  BY <1>1, <1>2
<1>4. \A i \in DOMAIN rows : rows[i].known <= s.at => rows[i].known <= clock
  BY <1>2, <1>3
<1>5. s.seen \subseteq Visible(clock) /\ s.seen \subseteq DOMAIN rows
  BY <1>1, <1>4 DEF Visible
<1>. QED  BY <1>1, <1>3, <1>5

(* What is undisturbed was so before an action was ingested.               *)
LEMMA UndisturbedBefore ==
  ASSUME StandsInv, NEW a \in Actions, Ingest(a), NEW s \in synced, Undisturbed(s)'
  PROVE  Undisturbed(s)
<1>1. rows' = Append(rows, a) /\ rows \in Seq(Actions)
  BY StandTyped DEF Ingest
<1>2. DOMAIN rows \subseteq DOMAIN rows' /\ \A i \in DOMAIN rows : rows'[i] = rows[i]
  BY <1>1
<1>3. Visible(s.at) \subseteq Visible(s.at)'
  BY <1>2 DEF Visible
<1>4. s.seen \subseteq Visible(s.at) /\ s.seen \subseteq DOMAIN rows
  BY DecisionIs
<1>5. /\ Visible(s.at)' = s.seen
      /\ \A i \in DOMAIN rows' \ s.seen : ~\E j, k \in s.seen : Sooner(j, i)' /\ Sooner(i, k)'
  BY DEF Undisturbed
<1>6. \A i, j \in DOMAIN rows : Sooner(i, j)' <=> Sooner(i, j)
  BY <1>2 DEF Sooner
<1>. QED  BY <1>2, <1>3, <1>4, <1>5, <1>6 DEF Undisturbed

(* What is backfilled disturbs a decision, or leaves it as it was.         *)
LEMMA StandIngest ==
  ASSUME StandsInv, NEW a \in Actions, Ingest(a)
  PROVE  StandInv'
<1>1. /\ sync = None /\ rows' = Append(rows, a)
      /\ UNCHANGED <<clock, ranges, work, todo, sync, synced>>
  BY DEF Ingest
<1>2. rows \in Seq(Actions) /\ \A i \in DOMAIN rows : rows[i].known \in Int
  BY StandTyped
<1>3. /\ rows' \in Seq(Actions) /\ DOMAIN rows \subseteq DOMAIN rows'
      /\ \A i \in DOMAIN rows : rows'[i] = rows[i]
  BY <1>1, <1>2
<1>4. \A s : Visible(s.at) \subseteq Visible(s.at)'
  BY <1>3 DEF Visible
<1>5. ASSUME NEW s \in synced
      PROVE  /\ s.at \in 0..clock /\ s.seen \subseteq Visible(s.at)'
             /\ Undisturbed(s)' => Applied(rows, ranges, s.seen, s.at)'
  <2>1. /\ s.at \in 0..clock /\ s.seen \subseteq Visible(s.at)
        /\ Undisturbed(s) => Applied(rows, ranges, s.seen, s.at)
    BY DEF StandsInv, StandInv
  <2>2. s.seen \subseteq DOMAIN rows
    BY <2>1 DEF Visible
  <2>3. s.seen \subseteq Visible(s.at)'
    BY <1>4, <2>1
  <2>4. ASSUME Undisturbed(s)' PROVE Applied(rows, ranges, s.seen, s.at)'
    <3>1. Applied(rows, ranges, s.seen, s.at)
      BY <2>1, <2>4, UndisturbedBefore
    <3>2. \A q : q \in Seq(Actions) /\ (\A i \in s.seen : q[i] = rows[i])
                   => Applied(q, ranges, s.seen, s.at)
      BY <1>2, <2>2, <3>1, AppliedLasts
    <3>3. Applied(rows', ranges, s.seen, s.at)
      BY <1>3, <2>2, <3>2
    <3>4. ranges' = ranges
      BY <1>1
    <3>. QED  BY <3>3, <3>4
  <2>. QED  BY <2>1, <2>3, <2>4
<1>6. KnownBy(ranges, clock)
  BY DEF StandsInv, StandInv
<1>7. KnownBy(ranges, clock)'
  BY <1>1, <1>6
<1>8. sync' = None /\ synced' = synced /\ clock' = clock
  BY <1>1
<1>. QED  BY <1>5, <1>7, <1>8 DEF StandInv, SyncInv

LEMMA SyncIs ==
  ASSUME StandsInv, sync # None
  PROVE  /\ sync = clock /\ KnownBy(work, clock)
         /\ todo \subseteq Visible(clock)
         /\ \A x \in Visible(clock) \ todo, o \in todo : Earlier(rows, x, o)
         /\ Extends(ranges, work)
         /\ Applied(rows, work, Visible(clock) \ todo, clock)
BY DEF StandsInv, StandInv, SyncInv, InOrder

LEMMA StandStart ==
  ASSUME StandsInv, SyncStart
  PROVE  StandInv'
<1>1. /\ sync' = clock /\ work' = ranges /\ todo' = Visible(clock)
      /\ clock' = clock /\ rows' = rows /\ ranges' = ranges /\ synced' = synced
  BY DEF SyncStart
<1>2. Table(ranges) /\ clock \in Nat
  BY StandTyped
<1>3. KnownBy(ranges, clock)
  BY DEF StandsInv, StandInv
<1>4. Extends(ranges, ranges)
  BY <1>2, MidwayStarts, 0 \in Int
<1>5. Applied(rows, ranges, {}, clock)
  BY DEF Applied, Named, Held, Over
<1>6. Visible(clock) \ Visible(clock) = {}
  OBVIOUS
<1>7. SyncInv'
  <2>1. /\ KnownBy(work', sync') /\ Extends(ranges', work')
        /\ sync' = clock' /\ todo' = Visible(clock)
        /\ Applied(rows', work', Visible(clock) \ todo', sync')
    BY <1>1, <1>3, <1>4, <1>5, <1>6
  <2>2. Visible(sync)' = Visible(clock)
    BY <1>1 DEF Visible
  <2>3. InOrder'
    BY <1>6, <2>1, <2>2 DEF InOrder
  <2>. QED  BY <2>1, <2>2, <2>3 DEF SyncInv
<1>8. ASSUME NEW s \in synced
      PROVE  /\ s.at \in 0..clock /\ s.seen \subseteq Visible(s.at)
             /\ Undisturbed(s) =>
                  /\ Applied(rows, ranges, s.seen, s.at)
                  /\ Midway(rows, ranges, ranges, Visible(clock), s.seen, s.at)
  BY <1>2, DecisionIs, MidwayStarts
<1>9. \A s : Undisturbed(s)' = Undisturbed(s) /\ Visible(s.at)' = Visible(s.at)
  BY <1>1 DEF Undisturbed, Visible, Sooner
<1>. QED  BY <1>1, <1>3, <1>7, <1>8, <1>9 DEF StandInv

LEMMA StandApply ==
  ASSUME StandsInv, HolderInv', SyncApply
  PROVE  StandInv'
<1>1. PICK i \in Soonest :
        /\ ~ApplyRefuses(work, rows[i])
        /\ work' = ApplyAction(work, rows[i]) /\ todo' = todo \ {i}
  BY DEF SyncApply
<1>2. /\ sync # None /\ sync' = sync /\ clock' = clock /\ rows' = rows
      /\ ranges' = ranges /\ synced' = synced
  BY DEF SyncApply
<1>3. /\ rows \in Seq(Actions) /\ Table(ranges) /\ Table(work) /\ clock \in Int
      /\ todo \subseteq DOMAIN rows
  BY StandTyped
<1>4. /\ i \in todo /\ i \in DOMAIN rows /\ rows[i] \in Actions
      /\ \A o \in todo \ {i} : Earlier(rows, i, o)
  BY <1>3 DEF Soonest, Sooner, Earlier
<1>5. /\ sync = clock /\ KnownBy(work, clock) /\ todo \subseteq Visible(clock)
      /\ \A x \in Visible(clock) \ todo, o \in todo : Earlier(rows, x, o)
      /\ Extends(ranges, work)
      /\ Applied(rows, work, Visible(clock) \ todo, clock)
  BY <1>2, SyncIs
<1>6. rows[i].known <= clock
  BY <1>4, <1>5 DEF Visible
<1>7. PICK u : u = work'
  OBVIOUS
<1>8. Effect(rows[i], work, u)
  <2>1. \A j \in DOMAIN work : work[j].from >= Floor
    BY <1>5 DEF KnownBy
  <2>. QED  BY <1>1, <1>3, <1>4, <1>7, <2>1, ApplyEffect
<1>9. KnownBy(u, clock) /\ Extends(ranges, u)
  BY <1>3, <1>4, <1>5, <1>6, <1>8, KnownByStep, ExtendsStep
<1>10. PICK B : B = Visible(clock) \ todo
  OBVIOUS
<1>11. B \in SUBSET (DOMAIN rows) /\ \A x \in B : Earlier(rows, x, i)
  BY <1>4, <1>5, <1>10 DEF Visible
<1>12. Visible(clock) \ todo' = B \cup {i}
  BY <1>1, <1>4, <1>5, <1>10
<1>13. Applied(rows, u, B \cup {i}, clock)
  <2>1. Named(rows, work, B) /\ Held(rows, work, B, clock) /\ Over(rows, work, B, clock)
    BY <1>5, <1>10 DEF Applied
  <2>2. Named(rows, u, B \cup {i})
    BY <1>3, <1>4, <1>8, <1>11, <2>1, NamedStep
  <2>3. Held(rows, u, B \cup {i}, clock)
    BY <1>3, <1>4, <1>6, <1>8, <1>9, <1>11, <2>1, HeldStep
  <2>4. Over(rows, u, B \cup {i}, clock)
    BY <1>3, <1>4, <1>8, <1>11, <2>1, OverStep
  <2>. QED  BY <2>2, <2>3, <2>4 DEF Applied
<1>14. InOrder'
  <2>1. Visible(sync)' = Visible(clock)
    BY <1>2, <1>5 DEF Visible
  <2>2. todo' \subseteq Visible(clock)
    BY <1>1, <1>5
  <2>3. \A x \in B \cup {i}, o \in todo \ {i} : Earlier(rows, x, o)
    BY <1>4, <1>5, <1>10
  <2>4. \A x \in Visible(clock) \ todo', o \in todo' : Earlier(rows', x, o)
    BY <1>1, <1>2, <1>12, <2>3
  <2>. QED  BY <2>1, <2>2, <2>4 DEF InOrder
<1>15. SyncInv'
  <2>1. Visible(sync)' = Visible(clock)
    BY <1>2, <1>5 DEF Visible
  <2>. QED  BY <1>2, <1>5, <1>7, <1>9, <1>12, <1>13, <1>14, <2>1 DEF SyncInv
<1>16. ASSUME NEW s \in synced, Undisturbed(s)
       PROVE  Midway(rows, ranges, u, todo \ {i}, s.seen, s.at)
  <2>0. PICK k \in Int : k = s.at
    BY DecisionIs
  <2>1. PICK A : A = s.seen /\ k = s.at
    BY <2>0
  <2>2. /\ A \subseteq DOMAIN rows /\ A \subseteq Visible(clock)
        /\ Applied(rows, ranges, A, k) /\ Midway(rows, ranges, work, todo, A, k)
    BY <1>2, <1>16, <2>1, DecisionIs
  <2>3. /\ Visible(k) = A
        /\ \A n \in DOMAIN rows \ A : ~\E x, o \in A : Earlier(rows, x, n) /\ Earlier(rows, n, o)
    BY <1>16, <2>1 DEF Undisturbed, Sooner, Earlier
  <2>4. rows[i].known \in Int
    BY <1>4, StandTyped
  <2>5. i \in A => rows[i].known <= k
    BY <2>3 DEF Visible
  <2>6. i \notin A => rows[i].known > k
    BY <1>4, <2>1, <2>3, <2>4 DEF Visible
  <2>7. \A x \in A \ todo : Earlier(rows, x, i)
    BY <1>4, <1>5, <2>2
  <2>8. NextFor(rows, todo, A, i, k)
    BY <1>3, <1>4, <2>2, <2>3, <2>5, <2>6, <2>7 DEF NextFor
  <2>9. Midway(rows, ranges, u, todo \ {i}, A, k)
    BY <1>3, <1>5, <1>8, <2>1, <2>2, <2>8, MidwayStep
  <2>. QED  BY <2>1, <2>9
<1>17. ASSUME NEW s \in synced
       PROVE  /\ s.at \in 0..clock /\ s.seen \subseteq Visible(s.at)
              /\ Undisturbed(s) => Applied(rows, ranges, s.seen, s.at)
  BY DecisionIs
<1>18. \A s : Undisturbed(s)' = Undisturbed(s) /\ Visible(s.at)' = Visible(s.at)
  BY <1>2 DEF Undisturbed, Visible, Sooner
<1>19. KnownBy(ranges, clock)'
  BY <1>2 DEF StandsInv, StandInv
<1>. QED  BY <1>1, <1>2, <1>7, <1>15, <1>16, <1>17, <1>18, <1>19 DEF StandInv

LEMMA StandCommit ==
  ASSUME StandsInv, SyncCommit
  PROVE  StandInv'
<1>1. /\ sync # None /\ todo = {} /\ ranges' = work /\ sync' = None
      /\ clock' = clock /\ rows' = rows
      /\ synced' = synced \cup {[at |-> sync, seen |-> Visible(sync)]}
  BY DEF SyncCommit
<1>2. /\ rows \in Seq(Actions) /\ Table(ranges) /\ Table(work) /\ clock \in Nat
      /\ \A i \in DOMAIN rows : rows[i] \in Actions
  BY StandTyped
<1>3. /\ sync = clock /\ KnownBy(work, clock) /\ Extends(ranges, work)
      /\ Applied(rows, work, Visible(clock) \ todo, clock)
  BY <1>1, SyncIs
<1>4. Applied(rows, work, Visible(clock), clock)
  <2>1. Visible(clock) \ todo = Visible(clock)
    BY <1>1
  <2>. QED  BY <1>3, <2>1
<1>5. \A s : Undisturbed(s)' = Undisturbed(s) /\ Visible(s.at)' = Visible(s.at)
  BY <1>1 DEF Undisturbed, Visible, Sooner
<1>6. ASSUME NEW s \in synced
      PROVE  /\ s.at \in 0..clock /\ s.seen \subseteq Visible(s.at)
             /\ Undisturbed(s) => Applied(rows, work, s.seen, s.at)
  <2>1. ASSUME Undisturbed(s) PROVE Applied(rows, work, s.seen, s.at)
    <3>0. PICK k \in Int : k = s.at
      BY DecisionIs
    <3>1. PICK A : A = s.seen /\ k = s.at
      BY <3>0
    <3>2. /\ A \subseteq DOMAIN rows
          /\ Applied(rows, ranges, A, k) /\ Midway(rows, ranges, work, {}, A, k)
      BY <1>1, <2>1, <3>1, DecisionIs
    <3>3. \A i \in A : LastDate(rows[i]) <= Open
      BY <1>2, <3>2, ActionTyped DEF Open
    <3>4. Applied(rows, work, A, k)
      BY <1>2, <1>3, <3>2, <3>3, MidwayEnds
    <3>. QED  BY <3>1, <3>4
  <2>. QED  BY <2>1, DecisionIs
<1>7. ASSUME NEW s \in synced'
      PROVE  /\ s.at \in 0..clock /\ s.seen \subseteq Visible(s.at)
             /\ Undisturbed(s) => Applied(rows, work, s.seen, s.at)
  <2>1. CASE s \in synced
    BY <1>6, <2>1
  <2>2. CASE s = [at |-> sync, seen |-> Visible(sync)]
    <3>1. s.at = clock /\ s.seen = Visible(clock)
      BY <1>3, <2>2
    <3>. QED  BY <1>2, <1>4, <3>1
  <2>. QED  BY <1>1, <2>1, <2>2
<1>8. KnownBy(ranges, clock)' /\ SyncInv'
  BY <1>1, <1>3 DEF SyncInv
<1>. QED  BY <1>1, <1>5, <1>7, <1>8 DEF StandInv

LEMMA StandQuiet ==
  ASSUME StandsInv, UNCHANGED <<rows, ranges, synced>>,
         \/ sync' = None /\ clock' = clock
         \/ sync' = None /\ clock' = clock + 1
         \/ UNCHANGED vars
  PROVE  StandInv'
<1>1. clock \in Nat /\ Table(ranges)
  BY StandTyped
<1>2. clock' \in Nat /\ clock <= clock'
  BY <1>1 DEF vars
<1>3. \A s : Undisturbed(s)' = Undisturbed(s) /\ Visible(s.at)' = Visible(s.at)
  BY DEF Undisturbed, Visible, Sooner
<1>4. KnownBy(ranges, clock) /\ SyncInv
  BY DEF StandsInv, StandInv
<1>5. KnownBy(ranges, clock)'
  <2>1. \A i \in DOMAIN ranges : ranges[i].known \in Int
    BY <1>1, RowTyped
  <2>2. \A i \in DOMAIN ranges : ranges[i].known <= clock' /\ ranges[i].from >= Floor
    BY <1>1, <1>2, <1>4, <2>1 DEF KnownBy
  <2>. QED  BY <2>2 DEF KnownBy
<1>6. SyncInv'
  <2>1. CASE sync' = None
    BY <2>1 DEF SyncInv
  <2>2. CASE UNCHANGED vars
    BY <1>4, <2>2 DEF vars, SyncInv, InOrder, Visible
  <2>. QED  BY <2>1, <2>2
<1>7. ASSUME NEW s \in synced
      PROVE  /\ s.at \in 0..clock' /\ s.seen \subseteq Visible(s.at)
             /\ Undisturbed(s) =>
                  /\ Applied(rows, ranges, s.seen, s.at)
                  /\ sync' # None => Midway(rows, ranges, work', todo', s.seen, s.at)
  <2>1. s.at \in 0..clock'
    BY <1>1, <1>2, DecisionIs
  <2>2. sync' # None => sync' = sync /\ work' = work /\ todo' = todo
    BY DEF vars
  <2>. QED  BY <2>1, <2>2, DecisionIs
<1>. QED  BY <1>3, <1>5, <1>6, <1>7 DEF StandInv

LEMMA StandStep ==
  ASSUME StandsInv, [Next]_vars
  PROVE  StandsInv'
<1>1. HolderInv'
  BY HolderInvStep DEF StandsInv
<1>2. ASSUME NEW a \in Actions, Ingest(a) PROVE StandInv'
  BY <1>2, StandIngest
<1>3. ASSUME SyncStart PROVE StandInv'
  BY <1>3, StandStart
<1>4. ASSUME SyncApply PROVE StandInv'
  BY <1>1, <1>4, StandApply
<1>5. ASSUME SyncThrow PROVE StandInv'
  BY <1>5, StandQuiet DEF SyncThrow
<1>6. ASSUME SyncCommit PROVE StandInv'
  BY <1>6, StandCommit
<1>7. ASSUME Advance PROVE StandInv'
  BY <1>7, StandQuiet DEF Advance
<1>8. ASSUME UNCHANGED vars PROVE StandInv'
  BY <1>8, StandQuiet DEF vars
<1>. QED  BY <1>1, <1>2, <1>3, <1>4, <1>5, <1>6, <1>7, <1>8 DEF Next, StandsInv

LEMMA StandInit == Init => StandsInv
<1>1. ASSUME Init PROVE HolderInv
  BY <1>1, EmptyTable, BoundsAssumption
  DEF Init, HolderInv, TypeInv, SymbolsHaveOneHolder, Open, Visible
<1>2. ASSUME Init PROVE StandInv
  <2>1. ranges = <<>> /\ sync = None /\ synced = {}
    BY <1>2 DEF Init
  <2>2. KnownBy(ranges, clock)
    BY <2>1 DEF KnownBy
  <2>. QED  BY <2>1, <2>2 DEF StandInv, SyncInv
<1>. QED  BY <1>1, <1>2 DEF StandsInv

(* entity-map.ts 92-125, 211-272, 294-297: a later sync leaves an earlier  *)
(* decision the entities and symbols it resolved, as long as nothing was   *)
(* backfilled under it and what came to be known since does not take       *)
(* effect between two actions that it had seen.                            *)
THEOREM LaterSyncsDisturbNone == Spec => EarlierDecisionsStand
<1> DEFINE Stands ==
      \A s \in synced :
        Undisturbed(s) =>
          /\ \A symbol \in Symbols, date \in 0..MaxTime :
               Resolve(ranges', symbol, date, s.at) = Resolve(ranges, symbol, date, s.at)
          /\ \A entity \in Entities :
               SymbolsFor(ranges', entity, s.at) = SymbolsFor(ranges, entity, s.at)
<1>1. StandsInv /\ [Next]_vars => [Stands]_vars
  <2>1. SUFFICES ASSUME StandsInv, [Next]_vars PROVE [Stands]_vars
    OBVIOUS
  <2>2. CASE ranges' = ranges
    BY <2>2
  <2>3. CASE SyncCommit
    <3>1. /\ sync # None /\ todo = {} /\ ranges' = work
      BY <2>3 DEF SyncCommit
    <3>2. Extends(ranges, work) /\ Table(ranges) /\ Table(work)
      BY <2>1, <3>1, SyncIs, StandTyped
    <3>3. ASSUME NEW s \in synced, Undisturbed(s)
          PROVE  /\ \A symbol \in Symbols, date \in 0..MaxTime :
                      Resolve(work, symbol, date, s.at) = Resolve(ranges, symbol, date, s.at)
                 /\ \A entity \in Entities :
                      SymbolsFor(work, entity, s.at) = SymbolsFor(ranges, entity, s.at)
      <4>0. PICK k \in Int : k = s.at
        BY <2>1, DecisionIs
      <4>1. Midway(rows, ranges, work, {}, s.seen, k)
        BY <2>1, <3>1, <3>3, <4>0, DecisionIs
      <4>2. /\ \A symbol : \A date \in 0..MaxTime :
                 Resolve(work, symbol, date, k) = Resolve(ranges, symbol, date, k)
            /\ \A entity : SymbolsFor(work, entity, k) = SymbolsFor(ranges, entity, k)
        BY <3>2, <4>1, MidwayResolves
      <4>. QED  BY <4>0, <4>2
    <3>. QED  BY <3>1, <3>3
  <2>. QED  BY <2>1, <2>2, <2>3
       DEF Next, vars, Ingest, SyncStart, SyncApply, SyncThrow, Advance
<1>2. EarlierDecisionsStand <=> [][Stands]_vars
  BY DEF EarlierDecisionsStand
<1> HIDE DEF Stands
<1>. QED  BY <1>1, <1>2, StandInit, StandStep, PTL DEF Spec

-----------------------------------------------------------------------------
(* What closed a range.  The actions known by k are V, rows of r.          *)

(* Each range is an action's, and a closed one was closed by an action of  *)
(* its entity, or gave way to a range that is there.                       *)
Traced(r, t, V, k) ==
  \A j \in DOMAIN t :
    /\ t[j].closeKnown <= k /\ t[j].from <= t[j].to
    /\ \/ \E o \in V : Opens(r[o], t[j])
       \/ \E o \in V : r[o].entity = t[j].entity /\ t[j].to = LastDate(r[o])
    /\ \/ t[j].to = Open
       \/ \E y \in V : r[y].entity = t[j].entity /\ t[j].to = LastDate(r[y])
       \/ \E m \in DOMAIN t :
            /\ t[m].symbol = t[j].symbol /\ t[m].entity # t[j].entity
            /\ t[m].from = t[j].to + 1

(* Once the actions B of a sync are applied, what they opened gave way     *)
(* before its entity ended, or was opened again since.                     *)
Outlived(r, t, V, B) ==
  \A o \in B, j \in DOMAIN t :
    Opens(r[o], t[j]) =>
      \/ t[j].to = Open
      \/ \E y \in V : r[y].entity = t[j].entity /\ t[j].to = LastDate(r[y])
      \/ \E y \in B :
           /\ Opener(r[y]) /\ t[j].to = LastDate(r[y])
           /\ \A x \in B : ~Opener(r[x]) /\ r[x].entity = t[j].entity =>
                \/ Earlier(r, y, x)
                \/ \E i \in B : Earlier(r, x, i) /\ Opens(r[i], t[j])

EndInv ==
  /\ Traced(rows, ranges, Visible(clock), clock)
  /\ sync # None =>
       /\ Traced(rows, work, Visible(sync), sync)
       /\ Outlived(rows, work, Visible(sync), Visible(sync) \ todo)

LEMMA TracedLasts ==
  ASSUME NEW r, NEW q, NEW V, NEW W, V \subseteq W, \A i \in V : q[i] = r[i],
         NEW t, Table(t), NEW k \in Int, NEW l \in Int, k <= l, Traced(r, t, V, k)
  PROVE  Traced(q, t, W, l)
<1>1. \A j \in DOMAIN t : t[j].closeKnown \in Int
  BY RowTyped
<1>2. \A j \in DOMAIN t : t[j].closeKnown <= l
  BY <1>1 DEF Traced
<1>3. ASSUME NEW j \in DOMAIN t
      PROVE  /\ \/ \E o \in W : Opens(q[o], t[j])
                \/ \E o \in W : q[o].entity = t[j].entity /\ t[j].to = LastDate(q[o])
             /\ \/ t[j].to = Open
                \/ \E y \in W : q[y].entity = t[j].entity /\ t[j].to = LastDate(q[y])
                \/ \E m \in DOMAIN t :
                     /\ t[m].symbol = t[j].symbol /\ t[m].entity # t[j].entity
                     /\ t[m].from = t[j].to + 1
  BY DEF Traced
<1>. QED  BY <1>2, <1>3 DEF Traced

LEMMA TracedStep ==
  ASSUME NEW r \in Seq(Actions), NEW V \in SUBSET (DOMAIN r), NEW a \in V,
         NEW k \in Nat, r[a].known <= k,
         NEW w, Table(w), NEW u, Effect(r[a], w, u), Traced(r, w, V, k)
  PROVE  Traced(r, u, V, k)
<1>0. a \in DOMAIN r /\ \A o \in V : r[o] \in Actions
  OBVIOUS
<1>1. /\ r[a] \in Actions /\ r[a].date \in Int /\ 0 <= r[a].date /\ r[a].date < Open
      /\ LastDate(r[a]) \in Int
      /\ Opener(r[a]) => LastDate(r[a]) = r[a].date - 1
      /\ r[a].kind = "SYMBOL_CHANGE" => Opener(r[a])
  BY <1>0, ActionTyped DEF Opener
<1>2. ASSUME NEW j \in DOMAIN u
      PROVE  /\ u[j].closeKnown <= k /\ u[j].from <= u[j].to
             /\ \/ \E o \in V : Opens(r[o], u[j])
                \/ \E o \in V : r[o].entity = u[j].entity /\ u[j].to = LastDate(r[o])
             /\ \/ u[j].to = Open
                \/ \E y \in V : r[y].entity = u[j].entity /\ u[j].to = LastDate(r[y])
                \/ \E m \in DOMAIN u :
                     /\ u[m].symbol = u[j].symbol /\ u[m].entity # u[j].entity
                     /\ u[m].from = u[j].to + 1
  <2>1. CASE j \in DOMAIN w
    <3>1. /\ Alike(u[j], w[j])
          /\ w[j].to # Open \/ ~Closes(r[a], w[j]) => u[j] = w[j]
          /\ w[j].to = Open /\ Closes(r[a], w[j]) =>
               u[j].to = LastDate(r[a]) /\ u[j].closeKnown = r[a].known
      <4>1. j \in DOMAIN u /\ Leaves(r[a], w[j], u[j], 0)
        BY <1>0, <2>1, 0 \in Int, RowStep, Zenon
      <4>. QED  BY <4>1 DEF Leaves
    <3>2. /\ w[j].closeKnown <= k /\ w[j].from <= w[j].to
          /\ \/ \E o \in V : Opens(r[o], w[j])
             \/ \E o \in V : r[o].entity = w[j].entity /\ w[j].to = LastDate(r[o])
          /\ \/ w[j].to = Open
             \/ \E y \in V : r[y].entity = w[j].entity /\ w[j].to = LastDate(r[y])
             \/ \E m \in DOMAIN w :
                  /\ w[m].symbol = w[j].symbol /\ w[m].entity # w[j].entity
                  /\ w[m].from = w[j].to + 1
      BY <2>1 DEF Traced
    <3>3. CASE w[j].to # Open \/ ~Closes(r[a], w[j])
      <4>1. u[j] = w[j]
        BY <3>1, <3>3
      <4>2. ASSUME NEW m \in DOMAIN w,
                   w[m].symbol = w[j].symbol, w[m].entity # w[j].entity, w[m].from = w[j].to + 1
            PROVE  /\ m \in DOMAIN u /\ u[m].symbol = u[j].symbol /\ u[m].entity # u[j].entity
                   /\ u[m].from = u[j].to + 1
        <5>1. m \in DOMAIN u /\ Alike(u[m], w[m])
          <6>1. m \in DOMAIN u /\ Leaves(r[a], w[m], u[m], 0)
            BY <1>0, 0 \in Int, RowStep, Zenon
          <6>. QED  BY <6>1 DEF Leaves
        <5>. QED  BY <4>1, <4>2, <5>1 DEF Alike
      <4>. QED  BY <3>2, <4>1, <4>2
    <3>4. CASE w[j].to = Open /\ Closes(r[a], w[j])
      <4>1. u[j].to = LastDate(r[a]) /\ u[j].closeKnown <= k
        BY <3>1, <3>4
      <4>2. u[j].from <= u[j].to
        <5>1. w[j].from <= LastDate(r[a])
          BY <2>1, <3>4 DEF Effect
        <5>. QED  BY <3>1, <4>1, <5>1 DEF Alike
      <4>3. \/ \E o \in V : Opens(r[o], u[j])
            \/ \E o \in V : r[o].entity = u[j].entity /\ u[j].to = LastDate(r[o])
        <5>1. CASE \E o \in V : Opens(r[o], w[j])
          BY <3>1, <5>1, AlikeSame
        <5>2. CASE \E o \in V : r[o].entity = w[j].entity /\ w[j].to = LastDate(r[o])
          <6>1. PICK o \in V : w[j].to = LastDate(r[o])
            BY <5>2
          <6>2. LastDate(r[o]) < Open
            BY <1>0, <6>1, ActionTyped DEF Open
          <6>. QED  BY <3>4, <6>1, <6>2 DEF Open
        <5>. QED  BY <3>2, <5>1, <5>2
      <4>4. CASE r[a].entity = w[j].entity
        <5>1. r[a].entity = u[j].entity
          BY <3>1, <4>4 DEF Alike
        <5>. QED  BY <4>1, <4>2, <4>3, <5>1
      <4>5. CASE r[a].entity # w[j].entity
        <5>1. Opener(r[a]) /\ w[j].symbol = r[a].new
          BY <1>1, <3>4, <4>5 DEF Closes
        <5>2. PICK m \in DOMAIN u : Opens(r[a], u[m])
          BY <5>1 DEF Effect
        <5>3. u[m].symbol = u[j].symbol /\ u[m].entity # u[j].entity
          BY <3>1, <4>5, <5>1, <5>2 DEF Alike, Opens
        <5>4. u[m].from = u[j].to + 1
          BY <1>1, <4>1, <5>1, <5>2 DEF Opens
        <5>. QED  BY <4>1, <4>2, <4>3, <5>3, <5>4
      <4>. QED  BY <4>4, <4>5
    <3>. QED  BY <3>3, <3>4
  <2>2. CASE j \notin DOMAIN w
    <3>1. \/ Opener(r[a]) /\ u[j] = NewRange(r[a])
          \/ r[a].kind = "SYMBOL_CHANGE" /\ u[j] = OldRange(r[a])
      BY <2>2 DEF Effect
    <3>2. CASE Opener(r[a]) /\ u[j] = NewRange(r[a])
      <4>1. Opens(r[a], u[j]) /\ u[j].to = Open /\ u[j].from = r[a].date
        BY <1>1, <3>2, NewRangeIs
      <4>2. u[j].closeKnown <= k
        BY <3>2 DEF NewRange, RangeRow, None
      <4>3. u[j].from <= u[j].to
        BY <1>1, <4>1 DEF Open
      <4>. QED  BY <4>1, <4>2, <4>3
    <3>3. CASE r[a].kind = "SYMBOL_CHANGE" /\ u[j] = OldRange(r[a])
      <4>1. u[j].entity = r[a].entity /\ u[j].from = Floor /\ u[j].to = r[a].date - 1
        BY <1>1, <3>3, NewRangeIs
      <4>2. u[j].to = LastDate(r[a])
        BY <1>1, <3>3, <4>1
      <4>3. u[j].closeKnown <= k
        BY <1>1, <3>3 DEF OldRange, RangeRow, Open
      <4>4. u[j].from <= u[j].to
        BY <1>1, <4>1 DEF Floor
      <4>. QED  BY <4>1, <4>2, <4>3, <4>4
    <3>. QED  BY <3>1, <3>2, <3>3
  <2>. QED  BY <2>1, <2>2
<1>. QED  BY <1>2 DEF Traced

LEMMA OutlivedStep ==
  ASSUME NEW r \in Seq(Actions), NEW V \in SUBSET (DOMAIN r), NEW B \in SUBSET V,
         NEW a \in V, \A x \in B : Earlier(r, x, a), NEW k \in Int,
         NEW w, Table(w), KnownBy(w, k), Over(r, w, B, k), Outlived(r, w, V, B),
         NEW u, Table(u), Effect(r[a], w, u), Traced(r, u, V, k), OneHolder(u)
  PROVE  Outlived(r, u, V, B \cup {a})
<1>0. a \in DOMAIN r
  OBVIOUS
<1>1. /\ r[a] \in Actions /\ r[a].date \in Int /\ r[a].date < Open
      /\ r[a].kind = "SYMBOL_CHANGE" => Opener(r[a])
      /\ Opener(r[a]) => LastDate(r[a]) = r[a].date - 1
  BY <1>0, ActionTyped DEF Opener
<1>2. ASSUME NEW o \in B \cup {a}, NEW j \in DOMAIN u, Opens(r[o], u[j]), u[j].to # Open,
             ~\E y \in V : r[y].entity = u[j].entity /\ u[j].to = LastDate(r[y])
      PROVE  \E y \in B \cup {a} :
               /\ Opener(r[y]) /\ u[j].to = LastDate(r[y])
               /\ \A x \in B \cup {a} : ~Opener(r[x]) /\ r[x].entity = u[j].entity =>
                    \/ Earlier(r, y, x)
                    \/ \E i \in B \cup {a} : Earlier(r, x, i) /\ Opens(r[i], u[j])
  <2>1. j \in DOMAIN w
    <3>1. SUFFICES ASSUME j \notin DOMAIN w PROVE FALSE
      OBVIOUS
    <3>2. \/ Opener(r[a]) /\ u[j] = NewRange(r[a])
          \/ r[a].kind = "SYMBOL_CHANGE" /\ u[j] = OldRange(r[a])
      BY <3>1 DEF Effect
    <3>. QED  BY <1>1, <1>2, <3>2, NewRangeIs
  <2>2. /\ Alike(u[j], w[j]) /\ w[j].known <= k
        /\ w[j].to # Open \/ ~Closes(r[a], w[j]) => u[j] = w[j]
        /\ w[j].to = Open /\ Closes(r[a], w[j]) => u[j].to = LastDate(r[a])
    <3>1. j \in DOMAIN u /\ Leaves(r[a], w[j], u[j], 0)
      BY <1>0, <2>1, 0 \in Int, RowStep, Zenon
    <3>. QED  BY <1>0, <2>1, <3>1 DEF Leaves, KnownBy
  <2>3. CASE w[j].to = Open
    <3>1. Closes(r[a], w[j]) /\ u[j].to = LastDate(r[a])
      BY <1>2, <2>2, <2>3
    <3>2. r[a].entity # u[j].entity
      BY <1>2, <3>1
    <3>3. Opener(r[a])
      BY <1>1, <2>2, <3>1, <3>2 DEF Closes, Alike
    <3>4. ASSUME NEW x \in B \cup {a}, ~Opener(r[x]), r[x].entity = u[j].entity
          PROVE  \E i \in B \cup {a} : Earlier(r, x, i) /\ Opens(r[i], u[j])
      <4>1. x \in B /\ Closes(r[x], w[j])
        BY <2>2, <3>3, <3>4 DEF Closes, Alike
      <4>2. PICK i \in B : Earlier(r, x, i) /\ Opens(r[i], w[j])
        BY <2>1, <2>2, <2>3, <4>1 DEF Over
      <4>. QED  BY <2>2, <4>2, AlikeSame
    <3>. QED  BY <3>1, <3>3, <3>4
  <2>4. CASE w[j].to # Open /\ o \in B
    <3>1. u[j] = w[j]
      BY <2>2, <2>4
    <3>2. PICK y \in B :
            /\ Opener(r[y]) /\ u[j].to = LastDate(r[y])
            /\ \A x \in B : ~Opener(r[x]) /\ r[x].entity = u[j].entity =>
                 \/ Earlier(r, y, x)
                 \/ \E i \in B : Earlier(r, x, i) /\ Opens(r[i], u[j])
      BY <1>2, <2>1, <2>4, <3>1 DEF Outlived
    <3>3. Earlier(r, y, a)
      OBVIOUS
    <3>. QED  BY <3>2, <3>3
  <2>5. CASE w[j].to # Open /\ o = a
    <3>1. Opener(r[a]) /\ u[j].symbol = r[a].new /\ u[j].entity = r[a].entity
            /\ u[j].from = r[a].date
      BY <1>2, <2>5 DEF Opens
    <3>2. PICK m \in DOMAIN u : Opens(r[a], u[m]) /\ u[m].to = Open
      BY <3>1 DEF Effect
    <3>3. PICK n \in DOMAIN u :
            /\ u[n].symbol = u[j].symbol /\ u[n].entity # u[j].entity
            /\ u[n].from = u[j].to + 1
      BY <1>2 DEF Traced
    <3>4. u[j].from <= u[j].to /\ u[n].from <= u[n].to
      BY DEF Traced
    <3>5. /\ u[m].symbol = u[n].symbol /\ u[m].entity # u[n].entity
          /\ u[m].from = u[j].from
      BY <3>1, <3>2, <3>3 DEF Opens
    <3>6. u[m].to < u[n].from \/ u[n].to < u[m].from
      BY <3>5 DEF OneHolder
    <3>7. /\ u[j].from \in Int /\ u[j].to \in Int /\ u[n].from \in Int /\ u[n].to \in Int
          /\ u[j].to <= Open
      BY RowTyped
    <3>. QED  BY <1>2, <3>2, <3>3, <3>4, <3>5, <3>6, <3>7 DEF Open
  <2>. QED  BY <2>3, <2>4, <2>5
<1>. QED  BY <1>2 DEF Outlived

(* With every action applied, the ended entity A knows of is gone.         *)
EndedIn(r, t, A, k) ==
  \A e \in Entities :
    LET ends == {i \in A : r[i].entity = e /\ ~Opener(r[i])}
    IN ends # {}
       /\ (\A i \in A, x \in ends :
             r[i].entity = e /\ Opener(r[i]) => r[i].date < LastDate(r[x]))
       => \A symbol \in Symbols, date \in 0..MaxTime :
            (\A x \in ends : date > LastDate(r[x])) => e \notin Resolve(t, symbol, date, k)

LEMMA EndedWhenApplied ==
  ASSUME NEW r \in Seq(Actions), NEW A \in SUBSET (DOMAIN r), NEW k \in Int,
         NEW t, Table(t), Over(r, t, A, k), Traced(r, t, A, k), Outlived(r, t, A, A)
  PROVE  EndedIn(r, t, A, k)
<1>1. SUFFICES
        ASSUME NEW e \in Entities, NEW ends,
               ends = {i \in A : r[i].entity = e /\ ~Opener(r[i])}, ends # {},
               \A i \in A, x \in ends :
                 r[i].entity = e /\ Opener(r[i]) => r[i].date < LastDate(r[x]),
               NEW date \in 0..MaxTime, \A x \in ends : date > LastDate(r[x]),
               NEW j \in DOMAIN t, t[j].entity = e, HeldOn(t[j], date, k)
        PROVE  FALSE
  <2>1. SUFFICES
          ASSUME NEW e \in Entities, NEW ends,
                 ends = {i \in A : r[i].entity = e /\ ~Opener(r[i])}, ends # {},
                 \A i \in A, x \in ends :
                   r[i].entity = e /\ Opener(r[i]) => r[i].date < LastDate(r[x]),
                 NEW symbol \in Symbols, NEW date \in 0..MaxTime,
                 \A x \in ends : date > LastDate(r[x])
          PROVE  e \notin Resolve(t, symbol, date, k)
    BY DEF EndedIn
  <2>2. \A j \in DOMAIN t : ~(t[j].entity = e /\ HeldOn(t[j], date, k))
    BY <1>1, <2>1
  <2>3. e \notin Holders(t, symbol, date, k)
    BY <2>2 DEF Holders, OfSymbol
  <2>. QED  BY <2>3 DEF Resolve
<1>2. PICK z : z \in ends
  BY <1>1
<1>3. /\ \A i \in A : /\ r[i].date \in Int /\ LastDate(r[i]) \in Int /\ LastDate(r[i]) < Open
                      /\ r[i].date - 1 <= LastDate(r[i]) /\ LastDate(r[i]) <= r[i].date
                      /\ Opener(r[i]) => LastDate(r[i]) = r[i].date - 1
      /\ \A x \in ends : x \in A /\ r[x].entity = e /\ ~Opener(r[x])
  <2>1. \A i \in A : r[i] \in Actions
    OBVIOUS
  <2>. QED  BY <1>1, <2>1, ActionTyped DEF Open
<1>4. date \in Int /\ t[j].to \in Int /\ t[j].closeKnown \in Int
  BY <1>1, BoundsAssumption, RowTyped
<1>5. t[j].closeKnown <= k
  BY DEF Traced
<1>6. date <= t[j].to /\ t[j].known <= k
  BY <1>1, <1>4, <1>5 DEF HeldOn
<1>7. \A i \in A : r[i].entity = e => t[j].to # LastDate(r[i])
  <2>1. SUFFICES ASSUME NEW i \in A, r[i].entity = e, t[j].to = LastDate(r[i]) PROVE FALSE
    OBVIOUS
  <2>2. CASE Opener(r[i])
    <3>1. r[i].date < LastDate(r[z]) /\ LastDate(r[z]) < date
      BY <1>1, <1>2, <2>1, <2>2
    <3>2. /\ r[i].date \in Int /\ LastDate(r[i]) \in Int /\ LastDate(r[z]) \in Int
          /\ LastDate(r[i]) <= r[i].date
      BY <1>2, <1>3
    <3>. QED  BY <1>4, <1>6, <2>1, <3>1, <3>2
  <2>3. CASE ~Opener(r[i])
    <3>1. LastDate(r[i]) < date
      BY <1>1, <2>1, <2>3
    <3>. QED  BY <1>4, <1>6, <2>1, <3>1
  <2>. QED  BY <2>2, <2>3
<1>8. PICK o \in A : Opens(r[o], t[j])
  BY <1>1, <1>7 DEF Traced
<1>9. ~\E x \in ends, i \in A : Earlier(r, x, i) /\ Opens(r[i], t[j])
  <2>1. SUFFICES ASSUME NEW x \in ends, NEW i \in A, Earlier(r, x, i), Opens(r[i], t[j])
                 PROVE  FALSE
    OBVIOUS
  <2>2. r[i].entity = e /\ Opener(r[i])
    BY <1>1, <2>1 DEF Opens
  <2>3. r[i].date < LastDate(r[x])
    BY <1>1, <2>2
  <2>4. /\ r[x].date \in Int /\ r[i].date \in Int /\ LastDate(r[x]) \in Int
        /\ LastDate(r[x]) <= r[x].date
    BY <1>3
  <2>5. r[x].date <= r[i].date
    BY <2>1, <2>4 DEF Earlier
  <2>. QED  BY <2>3, <2>4, <2>5
<1>10. t[j].to # Open
  <2>1. Closes(r[z], t[j])
    BY <1>1, <1>2, <1>3 DEF Closes
  <2>. QED  BY <1>2, <1>3, <1>6, <1>9, <2>1 DEF Over
<1>11. PICK y \in A :
         /\ Opener(r[y]) /\ t[j].to = LastDate(r[y])
         /\ \A x \in A : ~Opener(r[x]) /\ r[x].entity = t[j].entity =>
              \/ Earlier(r, y, x)
              \/ \E i \in A : Earlier(r, x, i) /\ Opens(r[i], t[j])
  BY <1>1, <1>7, <1>8, <1>10 DEF Outlived
<1>12. Earlier(r, y, z)
  BY <1>1, <1>2, <1>3, <1>9, <1>11
<1>13. /\ r[y].date \in Int /\ r[z].date \in Int /\ LastDate(r[z]) \in Int
       /\ r[z].date - 1 <= LastDate(r[z]) /\ t[j].to = r[y].date - 1
  BY <1>2, <1>3, <1>11
<1>14. r[y].date <= r[z].date
  BY <1>2, <1>3, <1>12, EarlierOrders
<1>15. LastDate(r[z]) < date
  BY <1>1, <1>2
<1>16. \A p, q, b, c, d \in Int :
         ~(d <= b /\ b = p - 1 /\ p <= q /\ q - 1 <= c /\ c < d)
  OBVIOUS
<1>. QED  BY <1>4, <1>6, <1>13, <1>14, <1>15, <1>16

LEMMA EndedLasts ==
  ASSUME NEW r, NEW q, NEW A, \A i \in A : q[i] = r[i],
         NEW t, NEW w, NEW k,
         \A symbol \in Symbols, date \in 0..MaxTime :
           Resolve(w, symbol, date, k) = Resolve(t, symbol, date, k),
         EndedIn(r, t, A, k)
  PROVE  EndedIn(q, w, A, k)
<1>1. \A e : {i \in A : q[i].entity = e /\ ~Opener(q[i])} = {i \in A : r[i].entity = e /\ ~Opener(r[i])}
  OBVIOUS
<1>2. SUFFICES
        ASSUME NEW e \in Entities, NEW ends,
               ends = {i \in A : r[i].entity = e /\ ~Opener(r[i])}, ends # {},
               \A i \in A, x \in ends :
                 q[i].entity = e /\ Opener(q[i]) => q[i].date < LastDate(q[x]),
               NEW symbol \in Symbols, NEW date \in 0..MaxTime,
               \A x \in ends : date > LastDate(q[x])
        PROVE  e \notin Resolve(w, symbol, date, k)
  BY <1>1 DEF EndedIn
<1>3. \A i \in A, x \in ends : r[i].entity = e /\ Opener(r[i]) => r[i].date < LastDate(r[x])
  BY <1>2
<1>4. \A x \in ends : date > LastDate(r[x])
  BY <1>2
<1>5. e \notin Resolve(t, symbol, date, k)
  BY <1>2, <1>3, <1>4 DEF EndedIn
<1>. QED  BY <1>5

EndsSeen == \A s \in synced : Undisturbed(s) => EndedIn(rows, ranges, s.seen, s.at)

EndsInv == StandsInv /\ EndInv /\ EndsSeen

LEMMA EndIngest ==
  ASSUME StandsInv, EndInv, EndsSeen, NEW a \in Actions, Ingest(a)
  PROVE  EndInv' /\ EndsSeen'
<1>1. /\ sync = None /\ rows' = Append(rows, a)
      /\ sync' = sync /\ ranges' = ranges /\ clock' = clock /\ synced' = synced
  BY DEF Ingest
<1>2. rows \in Seq(Actions) /\ Table(ranges) /\ clock \in Int
  BY StandTyped
<1>3. DOMAIN rows \subseteq DOMAIN rows' /\ \A i \in DOMAIN rows : rows'[i] = rows[i]
  BY <1>1, <1>2
<1>4. PICK V : V = Visible(clock)
  OBVIOUS
<1>5. V \subseteq Visible(clock)' /\ \A i \in V : rows'[i] = rows[i]
  BY <1>1, <1>3, <1>4 DEF Visible
<1>6. Traced(rows, ranges, V, clock)
  BY <1>4 DEF EndInv
<1>7. Traced(rows', ranges, Visible(clock)', clock)
  <2>1. \A q, W : V \subseteq W /\ (\A i \in V : q[i] = rows[i]) => Traced(q, ranges, W, clock)
    BY <1>2, <1>6, TracedLasts
  <2>. QED  BY <1>5, <2>1
<1>8. EndInv'
  BY <1>1, <1>7 DEF EndInv
<1>9. ASSUME NEW s \in synced, Undisturbed(s)'
      PROVE  EndedIn(rows', ranges, s.seen, s.at)
  <2>1. EndedIn(rows, ranges, s.seen, s.at) /\ s.seen \subseteq DOMAIN rows
    BY <1>9, UndisturbedBefore, DecisionIs DEF EndsSeen
  <2>2. \A q : (\A i \in s.seen : q[i] = rows[i]) => EndedIn(q, ranges, s.seen, s.at)
    BY <2>1, EndedLasts
  <2>. QED  BY <1>3, <2>1, <2>2
<1>. QED  BY <1>1, <1>8, <1>9 DEF EndsSeen

LEMMA EndApply ==
  ASSUME StandsInv, HolderInv', EndInv, EndsSeen, SyncApply
  PROVE  EndInv' /\ EndsSeen'
<1>1. PICK i \in Soonest :
        /\ ~ApplyRefuses(work, rows[i])
        /\ work' = ApplyAction(work, rows[i]) /\ todo' = todo \ {i}
  BY DEF SyncApply
<1>2. /\ sync # None /\ sync' = sync /\ clock' = clock /\ rows' = rows
      /\ ranges' = ranges /\ synced' = synced
  BY DEF SyncApply
<1>3. /\ rows \in Seq(Actions) /\ Table(work) /\ clock \in Nat /\ todo \subseteq DOMAIN rows
  BY StandTyped
<1>4. i \in todo /\ i \in DOMAIN rows /\ rows[i] \in Actions
  BY <1>3 DEF Soonest
<1>5. /\ sync = clock /\ KnownBy(work, clock) /\ todo \subseteq Visible(clock)
      /\ \A x \in Visible(clock) \ todo, o \in todo : Earlier(rows, x, o)
      /\ Applied(rows, work, Visible(clock) \ todo, clock)
  BY <1>2, SyncIs
<1>6. PICK u : u = work'
  OBVIOUS
<1>7. Table(u) /\ OneHolder(u)
  BY <1>6 DEF HolderInv, TypeInv, SymbolsHaveOneHolder
<1>8. Effect(rows[i], work, u)
  <2>1. \A j \in DOMAIN work : work[j].from >= Floor
    BY <1>5 DEF KnownBy
  <2>. QED  BY <1>1, <1>3, <1>4, <1>6, <2>1, ApplyEffect
<1>9. PICK V : V = Visible(clock)
  OBVIOUS
<1>10. PICK B : B = V \ todo
  OBVIOUS
<1>11. /\ V \in SUBSET (DOMAIN rows) /\ i \in V /\ rows[i].known <= clock
       /\ B \in SUBSET V /\ \A x \in B : Earlier(rows, x, i)
  BY <1>4, <1>5, <1>9, <1>10 DEF Visible
<1>12. /\ Traced(rows, work, V, clock) /\ Outlived(rows, work, V, B)
       /\ Traced(rows, ranges, V, clock) /\ Over(rows, work, B, clock)
  BY <1>2, <1>5, <1>9, <1>10 DEF EndInv, Applied
<1>13. Traced(rows, u, V, clock)
  BY <1>3, <1>8, <1>11, <1>12, TracedStep
<1>14. Outlived(rows, u, V, B \cup {i})
  BY <1>3, <1>5, <1>7, <1>8, <1>11, <1>12, <1>13, OutlivedStep
<1>15. V \ todo' = B \cup {i}
  BY <1>1, <1>4, <1>10, <1>11
<1>16. Visible(sync)' = V /\ Visible(clock)' = V
  BY <1>2, <1>5, <1>9 DEF Visible
<1>17. EndInv'
  <2>1. /\ Traced(rows', ranges', V, clock')
        /\ Traced(rows', work', V, sync') /\ Outlived(rows', work', V, V \ todo')
    BY <1>2, <1>5, <1>6, <1>12, <1>13, <1>14, <1>15
  <2>. QED  BY <1>16, <2>1 DEF EndInv
<1>18. \A s : Undisturbed(s)' = Undisturbed(s)
  BY <1>2 DEF Undisturbed, Visible, Sooner
<1>. QED  BY <1>2, <1>17, <1>18 DEF EndsSeen

LEMMA EndCommit ==
  ASSUME StandsInv, EndInv, EndsSeen, SyncCommit
  PROVE  EndInv' /\ EndsSeen'
<1>1. /\ sync # None /\ todo = {} /\ ranges' = work /\ sync' = None
      /\ clock' = clock /\ rows' = rows
      /\ synced' = synced \cup {[at |-> sync, seen |-> Visible(sync)]}
  BY DEF SyncCommit
<1>2. rows \in Seq(Actions) /\ Table(ranges) /\ Table(work) /\ clock \in Int
  BY StandTyped
<1>3. PICK V : V = Visible(clock)
  OBVIOUS
<1>4. /\ sync = clock /\ Extends(ranges, work) /\ Applied(rows, work, V, clock)
  <2>1. Visible(clock) \ todo = V
    BY <1>1, <1>3
  <2>. QED  BY <1>1, <2>1, SyncIs
<1>5. /\ V \in SUBSET (DOMAIN rows)
      /\ Traced(rows, work, V, clock) /\ Outlived(rows, work, V, V) /\ Over(rows, work, V, clock)
  <2>1. V \ todo = V
    BY <1>1
  <2>. QED  BY <1>1, <1>3, <1>4, <2>1 DEF EndInv, Applied, Visible
<1>6. EndedIn(rows, work, V, clock)
  BY <1>2, <1>5, EndedWhenApplied
<1>7. \A s : Undisturbed(s)' = Undisturbed(s)
  BY <1>1 DEF Undisturbed, Visible, Sooner
<1>8. ASSUME NEW s \in synced, Undisturbed(s)
      PROVE  EndedIn(rows, work, s.seen, s.at)
  <2>1. PICK k \in Int : k = s.at
    BY DecisionIs
  <2>2. Midway(rows, ranges, work, {}, s.seen, k)
    BY <1>1, <1>8, <2>1, DecisionIs
  <2>3. /\ \A symbol : \A date \in 0..MaxTime :
             Resolve(work, symbol, date, k) = Resolve(ranges, symbol, date, k)
        /\ \A entity : SymbolsFor(work, entity, k) = SymbolsFor(ranges, entity, k)
    BY <1>2, <1>4, <2>2, MidwayResolves
  <2>4. EndedIn(rows, ranges, s.seen, k)
    BY <1>8, <2>1 DEF EndsSeen
  <2>. QED  BY <2>1, <2>3, <2>4, EndedLasts
<1>9. ASSUME NEW s \in synced', Undisturbed(s)
      PROVE  EndedIn(rows, work, s.seen, s.at)
  <2>1. CASE s \in synced
    BY <1>8, <1>9, <2>1
  <2>2. CASE s = [at |-> sync, seen |-> Visible(sync)]
    <3>1. s.at = clock /\ s.seen = V
      BY <1>3, <1>4, <2>2
    <3>. QED  BY <1>6, <3>1
  <2>. QED  BY <1>1, <2>1, <2>2
<1>10. Visible(clock)' = V
  BY <1>1, <1>3 DEF Visible
<1>11. EndInv'
  BY <1>1, <1>5, <1>10 DEF EndInv
<1>. QED  BY <1>1, <1>7, <1>9, <1>11 DEF EndsSeen

LEMMA EndQuiet ==
  ASSUME StandsInv, EndInv, EndsSeen,
         SyncStart \/ SyncThrow \/ Advance \/ UNCHANGED vars
  PROVE  EndInv' /\ EndsSeen'
<1>1. /\ rows' = rows /\ ranges' = ranges /\ synced' = synced
      /\ clock' = clock \/ clock' = clock + 1
  BY DEF SyncStart, SyncThrow, Advance, vars
<1>2. rows \in Seq(Actions) /\ Table(ranges) /\ clock \in Nat
  BY StandTyped
<1>3. clock' \in Int /\ clock <= clock'
  BY <1>1, <1>2
<1>4. PICK V : V = Visible(clock)
  OBVIOUS
<1>5. V \subseteq Visible(clock)'
  BY <1>1, <1>2, <1>3, <1>4, StandTyped DEF Visible
<1>6. Traced(rows, ranges, V, clock)
  BY <1>4 DEF EndInv
<1>7. Traced(rows', ranges', Visible(clock)', clock')
  <2>1. \A W, l : l \in Int /\ clock <= l /\ V \subseteq W => Traced(rows, ranges, W, l)
    BY <1>2, <1>6, TracedLasts
  <2>. QED  BY <1>1, <1>3, <1>5, <2>1
<1>8. EndInv'
  <2>1. CASE SyncStart
    <3>1. sync' = clock /\ work' = ranges /\ todo' = Visible(clock)
      BY <2>1 DEF SyncStart
    <3>2. Visible(sync)' = V
      BY <1>1, <1>4, <3>1 DEF Visible
    <3>3. V \ todo' = {}
      BY <1>4, <3>1
    <3>4. Outlived(rows', work', V, {})
      BY DEF Outlived
    <3>5. Traced(rows', work', V, sync')
      BY <1>1, <1>6, <3>1
    <3>. QED  BY <1>7, <3>2, <3>3, <3>4, <3>5 DEF EndInv
  <2>2. CASE SyncThrow \/ Advance
    <3>1. sync' = None
      BY <2>2 DEF SyncThrow, Advance
    <3>. QED  BY <1>7, <3>1 DEF EndInv
  <2>3. CASE UNCHANGED vars
    BY <2>3 DEF vars, EndInv, Visible
  <2>. QED  BY <2>1, <2>2, <2>3
<1>9. \A s : Undisturbed(s)' = Undisturbed(s)
  BY <1>1 DEF Undisturbed, Visible, Sooner
<1>. QED  BY <1>1, <1>8, <1>9 DEF EndsSeen

(* entity-map.ts 242-272: once its delisting or merger is applied, no      *)
(* later sync gives an entity a symbol again, in any decision that is left *)
(* undisturbed and has seen no later day name it.                          *)
THEOREM EndedEntitiesStayEnded == Spec => []EndedStaysEnded
<1>1. Init => EndsInv
  <2>1. ASSUME Init PROVE EndsInv
    <3>1. ranges = <<>> /\ sync = None /\ synced = {}
      BY <2>1 DEF Init
    <3>2. StandsInv
      BY <2>1, StandInit
    <3>3. Traced(rows, ranges, Visible(clock), clock)
      BY <3>1 DEF Traced
    <3>. QED  BY <3>1, <3>2, <3>3 DEF EndsInv, EndInv, EndsSeen
  <2>. QED  BY <2>1
<1>2. EndsInv /\ [Next]_vars => EndsInv'
  <2>1. SUFFICES ASSUME EndsInv, [Next]_vars PROVE EndsInv'
    OBVIOUS
  <2>2. StandsInv /\ EndInv /\ EndsSeen
    BY <2>1 DEF EndsInv
  <2>3. StandsInv'
    BY <2>1, <2>2, StandStep
  <2>4. ASSUME NEW a \in Actions, Ingest(a) PROVE EndInv' /\ EndsSeen'
    BY <2>2, <2>4, EndIngest
  <2>5. ASSUME SyncApply PROVE EndInv' /\ EndsSeen'
    BY <2>2, <2>3, <2>5, EndApply DEF StandsInv
  <2>6. ASSUME SyncCommit PROVE EndInv' /\ EndsSeen'
    BY <2>2, <2>6, EndCommit
  <2>7. ASSUME SyncStart \/ SyncThrow \/ Advance \/ UNCHANGED vars PROVE EndInv' /\ EndsSeen'
    BY <2>2, <2>7, EndQuiet
  <2>8. EndInv' /\ EndsSeen'
    BY <2>1, <2>4, <2>5, <2>6, <2>7 DEF Next
  <2>. QED  BY <2>3, <2>8 DEF EndsInv
<1>3. EndsInv => EndedStaysEnded
  <2>1. SUFFICES
          ASSUME EndsInv, NEW s \in synced, Undisturbed(s), NEW e \in Entities, NEW last,
                 last = {LastDate(rows[i]) : i \in Ends(s, e)}, last # {},
                 \A i \in Namings(s, e), d \in last : rows[i].date < d,
                 NEW symbol \in Symbols, NEW date \in 0..MaxTime, \A d \in last : date > d
          PROVE  e \notin Resolve(ranges, symbol, date, s.at)
    BY DEF EndedStaysEnded
  <2>2. EndedIn(rows, ranges, s.seen, s.at) /\ s.seen \subseteq DOMAIN rows
    BY <2>1, DecisionIs DEF EndsInv, EndsSeen
  <2>3. \A i \in s.seen : rows[i].kind \in {"SYMBOL_CHANGE", "MERGER", "DELISTING", "SPINOFF"}
    BY <2>1, <2>2, StandTyped, ActionTyped DEF EndsInv
  <2>4. \A i \in s.seen : ~Opener(rows[i]) <=> rows[i].kind \in {"MERGER", "DELISTING"}
    BY <2>3 DEF Opener
  <2>5. PICK ends : ends = {i \in s.seen : rows[i].entity = e /\ ~Opener(rows[i])}
    OBVIOUS
  <2>6. ends = Ends(s, e)
    BY <2>4, <2>5 DEF Ends
  <2>7. ends # {} /\ \A x \in ends : LastDate(rows[x]) \in last
    BY <2>1, <2>6
  <2>8. \A i \in s.seen, x \in ends :
          rows[i].entity = e /\ Opener(rows[i]) => rows[i].date < LastDate(rows[x])
    <3>1. \A i \in s.seen : rows[i].entity = e /\ Opener(rows[i]) => i \in Namings(s, e)
      BY <2>5, <2>6 DEF Namings
    <3>. QED  BY <2>1, <2>7, <3>1
  <2>9. \A x \in ends : date > LastDate(rows[x])
    BY <2>1, <2>7
  <2>. QED  BY <2>2, <2>5, <2>7, <2>8, <2>9 DEF EndedIn
<1>. QED  BY <1>1, <1>2, <1>3, PTL DEF Spec

=============================================================================
