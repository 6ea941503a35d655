--------------------------- MODULE CorporateProofs ---------------------------
(***************************************************************************)
(* What holds of the corporate actions for every set of sources, rows and  *)
(* curated files: the properties of CorporateWorkflow.                     *)
(***************************************************************************)
EXTENDS CorporateWorkflow, FiniteSetTheorems, FunctionTheorems, SequenceTheorems, TLAPS

-----------------------------------------------------------------------------
(* Finite sets and their order.                                            *)

(* The image of a finite set is finite.                                    *)
LEMMA ImageIsFinite ==
  ASSUME NEW S, IsFiniteSet(S), NEW f
  PROVE  IsFiniteSet({f[x] : x \in S})
<1> DEFINE T == {f[x] : x \in S}
           g == [x \in S |-> f[x]]
<1>1. g \in [S -> T] /\ \A t \in T : \E x \in S : g[x] = t
  OBVIOUS
<1>2. g \in Surjection(S, T)
  BY <1>1, Fun_IsSurj
<1> QED BY <1>2, FS_Surjection

(* A sequence has finitely many places.                                    *)
LEMMA PlacesAreFinite ==
  ASSUME NEW T, NEW q \in Seq(T)
  PROVE  IsFiniteSet(DOMAIN q)
BY LenProperties, FS_Interval

(* A part of a finite set that leaves a member out is smaller.             *)
LEMMA PartIsSmaller ==
  ASSUME NEW S, IsFiniteSet(S), NEW T \in SUBSET S, NEW x \in S, x \notin T
  PROVE  /\ IsFiniteSet(T) /\ Cardinality(T) \in Nat /\ Cardinality(S) \in Nat
         /\ Cardinality(T) < Cardinality(S)
<1>1. IsFiniteSet(T) /\ Cardinality(T) <= Cardinality(S) /\ (Cardinality(S) = Cardinality(T) => S = T)
  BY FS_Subset
<1>2. Cardinality(T) \in Nat /\ Cardinality(S) \in Nat
  BY <1>1, FS_CardinalityType
<1>3. S # T
  OBVIOUS
<1> QED BY <1>1, <1>2, <1>3

(* R orders S strictly and leaves no two members uncompared.               *)
StrictOrder(S, R) ==
  /\ \A x \in S : <<x, x>> \notin R
  /\ \A x, y, z \in S : <<x, y>> \in R /\ <<y, z>> \in R => <<x, z>> \in R
  /\ \A x, y \in S : x # y => <<x, y>> \in R \/ <<y, x>> \in R

(* Ranked lists every member once, after as many as come before it.        *)
LEMMA RankedLists ==
  ASSUME NEW S, IsFiniteSet(S), NEW R, StrictOrder(S, R)
  PROVE  /\ Cardinality(S) \in Nat
         /\ Ranked(S, R) \in [1..Cardinality(S) -> S]
         /\ \A n \in 1..Cardinality(S) : Cardinality({x \in S : <<x, Ranked(S, R)[n]>> \in R}) = n - 1
         /\ \A m, n \in 1..Cardinality(S) : Ranked(S, R)[m] = Ranked(S, R)[n] => m = n
         /\ \A e \in S : \E n \in 1..Cardinality(S) : Ranked(S, R)[n] = e
<1> DEFINE Below(e) == {x \in S : <<x, e>> \in R}
           f == [e \in S |-> Cardinality(Below(e)) + 1]
           N == Cardinality(S)
<1>1. N \in Nat
  BY FS_CardinalityType
<1>2. ASSUME NEW e \in S PROVE Cardinality(Below(e)) \in Nat /\ Cardinality(Below(e)) < N /\ IsFiniteSet(Below(e))
  <2>1. Below(e) \in SUBSET S /\ e \notin Below(e)
    BY DEF StrictOrder
  <2> HIDE DEF Below
  <2> QED BY <2>1, PartIsSmaller
<1>3. ASSUME NEW x \in S, NEW y \in S, <<x, y>> \in R PROVE Cardinality(Below(x)) < Cardinality(Below(y))
  <2>1. Below(x) \in SUBSET Below(y) /\ x \in Below(y) /\ x \notin Below(x)
    BY <1>3 DEF StrictOrder
  <2>2. IsFiniteSet(Below(y))
    BY <1>2
  <2> HIDE DEF Below
  <2> QED BY <2>1, <2>2, PartIsSmaller
<1>4. \A x, y \in S : Cardinality(Below(x)) = Cardinality(Below(y)) => x = y
  <2> SUFFICES ASSUME NEW x \in S, NEW y \in S, Cardinality(Below(x)) = Cardinality(Below(y)), x # y PROVE FALSE
    OBVIOUS
  <2>1. <<x, y>> \in R \/ <<y, x>> \in R
    BY DEF StrictOrder
  <2>2. Cardinality(Below(x)) \in Nat /\ Cardinality(Below(y)) \in Nat
    BY <1>2
  <2>3. Cardinality(Below(x)) < Cardinality(Below(y)) \/ Cardinality(Below(y)) < Cardinality(Below(x))
    BY <2>1, <1>3
  <2> HIDE DEF Below
  <2> QED BY <2>2, <2>3
<1> HIDE DEF Below
<1>5. f \in [S -> 1..N]
  BY <1>1, <1>2
<1>6. \A x, y \in S : f[x] = f[y] => x = y
  BY <1>2, <1>4
<1>7. f \in Injection(S, 1..N)
  BY <1>5, <1>6, Fun_IsInj
<1>8. IsFiniteSet(1..N) /\ Cardinality(1..N) = N
  <2>1. 1 \in Int /\ N \in Int
    BY <1>1
  <2>2. IsFiniteSet(1..N) /\ Cardinality(1..N) = IF 1 > N THEN 0 ELSE N - 1 + 1
    BY <2>1, FS_Interval
  <2> QED BY <2>2, <1>1
<1>9. f \in Surjection(S, 1..N)
  BY <1>7, <1>8, FS_Injection
<1>10. ASSUME NEW n \in 1..N PROVE \E e \in S : Cardinality(Below(e)) = n - 1
  <2>1. PICK e \in S : f[e] = n
    <3> HIDE DEF f
    <3> QED BY <1>9 DEF Surjection
  <2> QED BY <2>1, <1>1, <1>2
<1>11. Ranked(S, R) = [n \in 1..N |-> CHOOSE e \in S : Cardinality(Below(e)) = n - 1]
  BY DEF Ranked, Below
<1>12. ASSUME NEW n \in 1..N PROVE Ranked(S, R)[n] \in S /\ Cardinality(Below(Ranked(S, R)[n])) = n - 1
  BY <1>10, <1>11
<1>13. Ranked(S, R) \in [1..N -> S]
  BY <1>11, <1>12
<1>14. \A m, n \in 1..N : Ranked(S, R)[m] = Ranked(S, R)[n] => m = n
  BY <1>1, <1>12
<1>15. ASSUME NEW e \in S PROVE \E n \in 1..N : Ranked(S, R)[n] = e
  <2>1. f[e] \in 1..N /\ f[e] - 1 = Cardinality(Below(e))
    BY <1>5, <1>2, <1>1
  <2>2. Ranked(S, R)[f[e]] \in S /\ Cardinality(Below(Ranked(S, R)[f[e]])) = Cardinality(Below(e))
    BY <2>1, <1>12
  <2>3. Ranked(S, R)[f[e]] = e
    BY <2>2, <1>4
  <2> QED BY <2>1, <2>3
<1> QED BY <1>1, <1>12, <1>13, <1>14, <1>15 DEF Below

(* A finite set of integers that is not empty has a least member.          *)
LEMMA LeastMember ==
  ASSUME NEW S \in SUBSET Int, IsFiniteSet(S), S # {}
  PROVE  \E m \in S : \A n \in S : m <= n
<1> DEFINE R == {p \in S \X S : p[1] < p[2]}
<1>1. StrictOrder(S, R)
  BY DEF StrictOrder
<1>2. \A x, y \in S : <<x, y>> \in R <=> x < y
  OBVIOUS
<1> HIDE DEF R
<1>3. /\ Cardinality(S) \in Nat
      /\ Ranked(S, R) \in [1..Cardinality(S) -> S]
      /\ \A n \in 1..Cardinality(S) : Cardinality({x \in S : <<x, Ranked(S, R)[n]>> \in R}) = n - 1
  BY <1>1, RankedLists
<1>4. 1 \in 1..Cardinality(S)
  BY <1>3, FS_EmptySet
<1>5. PICK m \in S : m = Ranked(S, R)[1]
  BY <1>3, <1>4
<1>6. Cardinality({x \in S : <<x, m>> \in R}) = 0
  BY <1>3, <1>4, <1>5
<1>7. IsFiniteSet({x \in S : <<x, m>> \in R})
  BY FS_Subset
<1>8. {x \in S : <<x, m>> \in R} = {}
  BY <1>6, <1>7, FS_EmptySet
<1>9. \A n \in S : <<n, m>> \notin R
  BY <1>8
<1>10. ASSUME NEW n \in S PROVE m <= n
  <2>1. m \in Int /\ n \in Int
    OBVIOUS
  <2>2. ~(n < m)
    BY <1>2, <1>9
  <2> QED BY <2>1, <2>2
<1> QED BY <1>10

-----------------------------------------------------------------------------
(* The groups of records and the entry of each.                            *)

(* A group is what several sources say of one action.                      *)
IsGroup(g) == g \subseteq Record /\ g # {} /\ IsFiniteSet(g) /\ \A r, o \in g : KeyOf(r) = KeyOf(o)

(* The record whose values are written is one of the group.                *)
LEMMA ChosenIsOfGroup ==
  ASSUME NEW g, IsGroup(g), NEW preferred \in Seq(Int)
  PROVE  Chosen(g, preferred) \in g
<1> DEFINE named == {i \in DOMAIN preferred : preferred[i] \in SourcesOf(g)}
<1>1. CASE named = {}
  <2>1. SourcesOf(g) \in SUBSET Int /\ SourcesOf(g) # {}
    BY DEF IsGroup, SourcesOf, Record
  <2>2. IsFiniteSet(SourcesOf(g))
    <3>1. PICK f : f = [r \in g |-> r.source]
      OBVIOUS
    <3>2. SourcesOf(g) = {f[r] : r \in g}
      BY <3>1 DEF SourcesOf
    <3>3. IsFiniteSet(g)
      BY DEF IsGroup
    <3> QED BY <3>2, <3>3, ImageIsFinite
  <2>3. PICK m \in SourcesOf(g) : \A n \in SourcesOf(g) : m <= n
    BY <2>1, <2>2, LeastMember
  <2>4. PICK r \in g : r.source = m
    BY DEF SourcesOf
  <2>5. \A o \in g : r.source <= o.source
    BY <2>3, <2>4 DEF SourcesOf
  <2>6. Chosen(g, preferred) = CHOOSE x \in g : \A o \in g : x.source <= o.source
    BY <1>1 DEF Chosen
  <2> QED BY <2>5, <2>6
<1>2. CASE named # {}
  <2>1. named \in SUBSET Int
    OBVIOUS
  <2>2. IsFiniteSet(named)
    <3>1. IsFiniteSet(DOMAIN preferred)
      BY PlacesAreFinite
    <3> QED BY <3>1, FS_Subset
  <2>3. PICK i \in named : \A j \in named : i <= j
    BY <1>2, <2>1, <2>2, LeastMember
  <2>4. PICK r \in g : r.source = preferred[i]
    BY <2>3 DEF SourcesOf
  <2>5. Chosen(g, preferred) = CHOOSE x \in g : \E n \in named : x.source = preferred[n] /\ \A j \in named : n <= j
    BY <1>2 DEF Chosen
  <2> HIDE DEF named
  <2> QED BY <2>3, <2>4, <2>5
<1> QED BY <1>1, <1>2

(* Its entry carries the key of the group, and the value of a source that  *)
(* every source of the entry confirms.                                     *)
LEMMA EntryOfGroup ==
  ASSUME NEW g, IsGroup(g), NEW opts, opts.preferred \in Seq(Int), opts.tolerance \in Nat
  PROVE  LET e == EntryOf(g, opts)
         IN /\ \A r \in g : KeyOf(e.action) = KeyOf(r)
            /\ e.action \in Action /\ e.action.kind \in {"CASH_DIVIDEND", "SPLIT"}
            /\ e.action.unread = {}
            /\ \A s \in e.sources : \E r \in g :
                 /\ r.source = s /\ KeyOf(r) = KeyOf(e.action)
                 /\ r.value - e.action.value \in (-opts.tolerance)..opts.tolerance
                 /\ r.kind = "SPLIT" => r.value = e.action.value
<1> DEFINE e == EntryOf(g, opts)
<1>1. PICK c \in g : c = Chosen(g, opts.preferred)
  BY ChosenIsOfGroup
<1>2. c \in Record
  BY DEF IsGroup
<1>3. /\ e.action = StoredAction(c)
      /\ e.sources = IF Cardinality(Agreeing(g, opts)) >= 2 THEN SourcesOf(Agreeing(g, opts)) ELSE {c.source}
  BY <1>1 DEF EntryOf
<1>4. /\ e.action \in Action /\ e.action.kind = c.kind /\ e.action.value = c.value
      /\ e.action.unread = {} /\ KeyOf(e.action) = KeyOf(c)
  <2>1. StoredAction(c) =
          [kind |-> c.kind, entity |-> c.entity, date |-> c.date, value |-> c.value, stock |-> Absent, unread |-> {},
           pay |-> IF c.pay = Absent THEN c.date ELSE c.pay]
    BY DEF StoredAction
  <2>2. StoredAction(c) \in Action
    <3>1. /\ c.kind \in {"CASH_DIVIDEND", "SPLIT"} /\ c.entity \in Int /\ c.date \in Int
          /\ c.value \in Int /\ c.pay \in Int
      BY <1>2 DEF Record
    <3>2. PICK k \in ActionKinds : k = c.kind
      BY <3>1 DEF ActionKinds
    <3>3. PICK p \in Int : p = IF c.pay = Absent THEN c.date ELSE c.pay
      BY <3>1
    <3>4. Absent \in Int /\ {} \in SUBSET STRING
      BY DEF Absent
    <3> QED BY <2>1, <3>1, <3>2, <3>3, <3>4 DEF Action
  <2> QED BY <1>3, <2>1, <2>2 DEF KeyOf
<1>5. \A r \in g : KeyOf(r) = KeyOf(c)
  BY DEF IsGroup
<1>6. ASSUME NEW s \in e.sources
      PROVE  \E r \in g : r.source = s /\ Agrees(c, r, opts.tolerance)
  <2>1. Agrees(c, c, opts.tolerance)
    BY <1>2 DEF Agrees, Record
  <2>2. CASE Cardinality(Agreeing(g, opts)) >= 2
    <3>1. s \in SourcesOf(Agreeing(g, opts))
      BY <1>3, <2>2
    <3> QED BY <3>1, <1>1 DEF SourcesOf, Agreeing
  <2>3. CASE ~(Cardinality(Agreeing(g, opts)) >= 2)
    BY <1>3, <2>1, <2>3
  <2> QED BY <2>2, <2>3
<1>7. ASSUME NEW r \in g, Agrees(c, r, opts.tolerance)
      PROVE  /\ r.value - c.value \in (-opts.tolerance)..opts.tolerance
             /\ r.kind = "SPLIT" => r.value = c.value
  <2>1. r \in Record /\ r.kind = c.kind
    BY <1>5 DEF IsGroup, KeyOf
  <2>2. PICK x, y \in Int : x = r.value /\ y = c.value
    BY <1>2, <2>1 DEF Record
  <2>3. PICK t \in Nat : t = opts.tolerance
    OBVIOUS
  <2>4. -t <= y - x /\ y - x <= t => x - y \in (-t)..t
    OBVIOUS
  <2>5. CASE c.kind = "CASH_DIVIDEND"
    <3>1. -t <= y - x /\ y - x <= t
      BY <1>7, <2>2, <2>3, <2>5 DEF Agrees
    <3> QED BY <2>1, <2>2, <2>3, <2>4, <2>5, <3>1
  <2>6. CASE c.kind # "CASH_DIVIDEND"
    <3>1. y - x = 0
      BY <1>7, <2>2, <2>6 DEF Agrees
    <3>2. x = y /\ -t <= y - x /\ y - x <= t
      BY <3>1
    <3> QED BY <2>2, <2>3, <2>4, <3>2
  <2> QED BY <2>5, <2>6
<1>8. c.kind \in {"CASH_DIVIDEND", "SPLIT"}
  BY <1>2 DEF Record
<1>9. ASSUME NEW s \in e.sources
      PROVE  \E r \in g : /\ r.source = s /\ KeyOf(r) = KeyOf(e.action)
                          /\ r.value - e.action.value \in (-opts.tolerance)..opts.tolerance
                          /\ r.kind = "SPLIT" => r.value = e.action.value
  BY <1>4, <1>5, <1>6, <1>7
<1> QED BY <1>4, <1>5, <1>8, <1>9

-----------------------------------------------------------------------------
(* What the reconciler is given, and the entries it writes.                *)

Inputs(records, structural, opts) ==
  /\ records \subseteq Record /\ IsFiniteSet(records)
  /\ structural \in Seq(StructuralEntry)
  /\ opts.preferred \in Seq(Int) /\ opts.tolerance \in Nat

(* The records of one key are a group.                                     *)
LEMMA GroupsAreGroups ==
  ASSUME NEW R, R \subseteq Record, IsFiniteSet(R), NEW g \in Groups(R)
  PROVE  IsGroup(g) /\ g \subseteq R
<1>1. PICK k \in {KeyOf(r) : r \in R} : g = {r \in R : KeyOf(r) = k}
  BY DEF Groups
<1>2. g # {}
  BY <1>1
<1>3. g \subseteq R
  BY <1>1
<1>4. IsFiniteSet(g)
  BY <1>3, FS_Subset
<1>5. g \subseteq Record
  BY <1>3
<1>6. \A r, o \in g : KeyOf(r) = KeyOf(o)
  BY <1>1
<1> QED BY <1>2, <1>3, <1>4, <1>5, <1>6 DEF IsGroup

(* The records that are reconciled are among those that were read.         *)
LEMMA ReconciledAreRead ==
  ASSUME NEW records, NEW structural, NEW opts, Inputs(records, structural, opts)
  PROVE  /\ Reconciled(records, structural, opts) \subseteq Record
         /\ IsFiniteSet(Reconciled(records, structural, opts))
         /\ Reconciled(records, structural, opts) \subseteq InWindow(records, opts)
         /\ InWindow(records, opts) \subseteq records
<1>1. /\ Reconciled(records, structural, opts) \subseteq InWindow(records, opts)
      /\ InWindow(records, opts) \subseteq records
  BY DEF Reconciled, InWindow
<1>2. IsFiniteSet(records) /\ records \subseteq Record
  BY DEF Inputs
<1>3. Reconciled(records, structural, opts) \in SUBSET records
  BY <1>1
<1>4. IsFiniteSet(Reconciled(records, structural, opts))
  BY <1>2, <1>3, FS_Subset
<1> QED BY <1>1, <1>2, <1>3, <1>4

LEMMA EntriesAreFinite ==
  ASSUME NEW records, NEW structural, NEW opts, Inputs(records, structural, opts)
  PROVE  IsFiniteSet(Entries(records, structural, opts))
<1>1. PICK R : R = Reconciled(records, structural, opts)
  OBVIOUS
<1>2. IsFiniteSet(R)
  BY <1>1, ReconciledAreRead
<1>3. IsFiniteSet({EntryOf(g, opts) : g \in Groups(R)})
  <2>1. PICK key : key = [r \in R |-> KeyOf(r)]
    OBVIOUS
  <2>2. {KeyOf(r) : r \in R} = {key[r] : r \in R}
    BY <2>1
  <2>3. PICK K : K = {KeyOf(r) : r \in R}
    OBVIOUS
  <2>4. IsFiniteSet({key[r] : r \in R})
    BY <1>2, ImageIsFinite
  <2>5. IsFiniteSet(K)
    BY <2>2, <2>3, <2>4
  <2>6. PICK entry : entry = [k \in K |-> EntryOf({r \in R : KeyOf(r) = k}, opts)]
    OBVIOUS
  <2>7. {EntryOf(g, opts) : g \in Groups(R)} = {entry[k] : k \in K}
    BY <2>3, <2>6 DEF Groups
  <2>8. IsFiniteSet({entry[k] : k \in K})
    BY <2>5, ImageIsFinite
  <2> QED BY <2>7, <2>8
<1>4. IsFiniteSet(StructuralEntries(structural, opts))
  <2>1. IsFiniteSet(DOMAIN structural)
    <3>1. structural \in Seq(StructuralEntry)
      BY DEF Inputs
    <3> QED BY <3>1, PlacesAreFinite
  <2>2. InScope(structural, opts) \in SUBSET DOMAIN structural
    BY DEF InScope, InEntities
  <2>3. IsFiniteSet(InScope(structural, opts))
    BY <2>1, <2>2, FS_Subset
  <2>4. PICK entry : entry = [i \in InScope(structural, opts) |->
          [action |-> structural[i].action, announced |-> structural[i].announced, sources |-> structural[i].sources]]
    OBVIOUS
  <2>5. StructuralEntries(structural, opts) = {entry[i] : i \in InScope(structural, opts)}
    BY <2>4 DEF StructuralEntries
  <2> QED BY <2>3, <2>5, ImageIsFinite
<1> QED BY <1>1, <1>3, <1>4, FS_Union DEF Entries

(* Where an entry comes from: a structural action in scope, or a group of  *)
(* reconciled records.                                                     *)
FromStructural(e, structural, opts) ==
  \E i \in InScope(structural, opts) :
    e = [action |-> structural[i].action, announced |-> structural[i].announced, sources |-> structural[i].sources]

FromRecords(e, records, structural, opts) ==
  \E g \in Groups(Reconciled(records, structural, opts)) : e = EntryOf(g, opts)

LEMMA EntriesComeFrom ==
  ASSUME NEW records, NEW structural, NEW opts, NEW e \in Entries(records, structural, opts)
  PROVE  FromStructural(e, structural, opts) \/ FromRecords(e, records, structural, opts)
<1>1. CASE e \in StructuralEntries(structural, opts)
  BY <1>1 DEF StructuralEntries, FromStructural
<1>2. CASE e \in {EntryOf(g, opts) : g \in Groups(Reconciled(records, structural, opts))}
  BY <1>2 DEF FromRecords
<1> QED BY <1>1, <1>2 DEF Entries

(* A structural entry that was accepted is of its own kinds, and curable.  *)
LEMMA StructuralKinds ==
  ASSUME NEW records, NEW structural, NEW opts, Inputs(records, structural, opts),
         StructuralAccepted(structural, opts), NEW i \in InScope(structural, opts)
  PROVE  /\ i \in DOMAIN structural /\ structural[i] \in StructuralEntry
         /\ structural[i].action \in Action /\ structural[i].action.kind \in Structural
         /\ Curable(structural[i].action)
<1>1. i \in DOMAIN structural
  BY DEF InScope, InEntities
<1>2. structural[i] \in StructuralEntry
  BY <1>1, ElementOfSeq DEF Inputs
<1> QED BY <1>1, <1>2 DEF StructuralAccepted, StructuralEntry

(* The entry of a group names the key and the kind of its records.         *)
LEMMA RecordEntry ==
  ASSUME NEW records, NEW structural, NEW opts, Inputs(records, structural, opts),
         NEW g \in Groups(Reconciled(records, structural, opts)), NEW e, e = EntryOf(g, opts)
  PROVE  /\ IsGroup(g) /\ g \subseteq Reconciled(records, structural, opts) /\ g \subseteq records
         /\ \A r \in g : KeyOf(e.action) = KeyOf(r)
         /\ e.action \in Action /\ e.action.kind \in {"CASH_DIVIDEND", "SPLIT"} /\ e.action.unread = {}
         /\ \A s \in e.sources : \E r \in g :
              /\ r.source = s /\ KeyOf(r) = KeyOf(e.action)
              /\ r.value - e.action.value \in (-opts.tolerance)..opts.tolerance
              /\ r.kind = "SPLIT" => r.value = e.action.value
<1>1. IsGroup(g) /\ g \subseteq Reconciled(records, structural, opts) /\ g \subseteq records
  BY ReconciledAreRead, GroupsAreGroups
<1>2. opts.preferred \in Seq(Int) /\ opts.tolerance \in Nat
  BY DEF Inputs
<1> QED BY <1>1, <1>2, EntryOfGroup

-----------------------------------------------------------------------------
(* The file: one entry an action, in one order.                            *)

FileKinds == {"CASH_DIVIDEND", "DELISTING", "MERGER", "SPINOFF", "SPLIT"}

LEMMA EntryTypes ==
  ASSUME NEW records, NEW structural, NEW opts, Inputs(records, structural, opts),
         StructuralAccepted(structural, opts), NEW e \in Entries(records, structural, opts)
  PROVE  e.action \in Action /\ e.action.kind \in FileKinds
<1>1. CASE FromStructural(e, structural, opts)
  BY <1>1, StructuralKinds DEF FromStructural, Structural, FileKinds
<1>2. CASE FromRecords(e, records, structural, opts)
  BY <1>2, RecordEntry DEF FromRecords, FileKinds
<1> QED BY <1>1, <1>2, EntriesComeFrom

(* No two entries of a file name the same action.                          *)
LEMMA OneEntryPerKey ==
  ASSUME NEW records, NEW structural, NEW opts, Inputs(records, structural, opts),
         StructuralAccepted(structural, opts),
         NEW e \in Entries(records, structural, opts), NEW f \in Entries(records, structural, opts),
         KeyOf(e.action) = KeyOf(f.action)
  PROVE  e = f
<1>1. e.action.kind = f.action.kind
  BY DEF KeyOf
<1>2. ASSUME NEW x, FromStructural(x, structural, opts) PROVE x.action.kind \in Structural
  BY <1>2, StructuralKinds DEF FromStructural
<1>3. ASSUME NEW x, FromRecords(x, records, structural, opts) PROVE x.action.kind \notin Structural
  BY <1>3, RecordEntry DEF FromRecords, Structural
<1>4. CASE FromStructural(e, structural, opts) /\ FromStructural(f, structural, opts)
  <2>1. PICK i \in InScope(structural, opts) :
          e = [action |-> structural[i].action, announced |-> structural[i].announced, sources |-> structural[i].sources]
    BY <1>4 DEF FromStructural
  <2>2. PICK j \in InScope(structural, opts) :
          f = [action |-> structural[j].action, announced |-> structural[j].announced, sources |-> structural[j].sources]
    BY <1>4 DEF FromStructural
  <2>3. KeyOf(structural[i].action) = KeyOf(structural[j].action)
    BY <2>1, <2>2
  <2>4. i = j
    BY <2>3 DEF StructuralAccepted
  <2> QED BY <2>1, <2>2, <2>4
<1>5. CASE FromRecords(e, records, structural, opts) /\ FromRecords(f, records, structural, opts)
  <2>1. PICK g \in Groups(Reconciled(records, structural, opts)) : e = EntryOf(g, opts)
    BY <1>5 DEF FromRecords
  <2>2. PICK h \in Groups(Reconciled(records, structural, opts)) : f = EntryOf(h, opts)
    BY <1>5 DEF FromRecords
  <2>3. PICK R : R = Reconciled(records, structural, opts)
    OBVIOUS
  <2>4. PICK k \in {KeyOf(r) : r \in R} : g = {r \in R : KeyOf(r) = k}
    BY <2>3 DEF Groups
  <2>5. PICK l \in {KeyOf(r) : r \in R} : h = {r \in R : KeyOf(r) = l}
    BY <2>3 DEF Groups
  <2>6. PICK r \in g : KeyOf(e.action) = KeyOf(r)
    BY <2>1, RecordEntry DEF IsGroup
  <2>7. PICK o \in h : KeyOf(f.action) = KeyOf(o)
    BY <2>2, RecordEntry DEF IsGroup
  <2>8. k = l
    BY <2>4, <2>5, <2>6, <2>7
  <2> QED BY <2>1, <2>2, <2>4, <2>5, <2>8
<1> QED BY <1>1, <1>2, <1>3, <1>4, <1>5, EntriesComeFrom

(* Keys are ordered, whatever the entity, the kind and the day.            *)
LEMMA RanksOfKinds ==
  /\ \A k \in FileKinds : KindRank[k] \in Nat
  /\ \A k, l \in FileKinds : KindRank[k] = KindRank[l] => k = l
<1>1. /\ KindRank["CASH_DIVIDEND"] = 1 /\ KindRank["DELISTING"] = 2 /\ KindRank["MERGER"] = 3
      /\ KindRank["SPINOFF"] = 4 /\ KindRank["SPLIT"] = 5
  BY DEF KindRank
<1> QED BY <1>1 DEF FileKinds

Keys == Int \X FileKinds \X Int

LEMMA KeysAreOrdered ==
  /\ \A a \in Keys : ~KeyBefore(a, a)
  /\ \A a, b, c \in Keys : KeyBefore(a, b) /\ KeyBefore(b, c) => KeyBefore(a, c)
  /\ \A a, b \in Keys : a # b => KeyBefore(a, b) \/ KeyBefore(b, a)
<1>1. ASSUME NEW a \in Keys PROVE /\ a[1] \in Int /\ a[2] \in FileKinds /\ a[3] \in Int
                                  /\ KindRank[a[2]] \in Nat /\ a = <<a[1], a[2], a[3]>>
  BY RanksOfKinds DEF Keys
<1>2. ASSUME NEW a \in Keys PROVE ~KeyBefore(a, a)
  BY <1>1 DEF KeyBefore
<1>3. ASSUME NEW a \in Keys, NEW b \in Keys, NEW c \in Keys, KeyBefore(a, b), KeyBefore(b, c)
      PROVE  KeyBefore(a, c)
  BY <1>1, <1>3 DEF KeyBefore
<1>4. ASSUME NEW a \in Keys, NEW b \in Keys, a # b
      PROVE  KeyBefore(a, b) \/ KeyBefore(b, a)
  <2>1. a[1] # b[1] \/ a[2] # b[2] \/ a[3] # b[3]
    BY <1>1, <1>4
  <2>2. a[2] # b[2] => KindRank[a[2]] # KindRank[b[2]]
    BY <1>1, RanksOfKinds
  <2> QED BY <1>1, <2>1, <2>2 DEF KeyBefore
<1> QED BY <1>2, <1>3, <1>4

(* The file lists every entry once.                                        *)
LEMMA FileListsEntries ==
  ASSUME NEW records, NEW structural, NEW opts, Inputs(records, structural, opts),
         StructuralAccepted(structural, opts)
  PROVE  LET E == Entries(records, structural, opts)
             actions == InKeyOrder(E)
         IN /\ Cardinality(E) \in Nat
            /\ actions \in [1..Cardinality(E) -> E]
            /\ \A i, j \in DOMAIN actions : actions[i] = actions[j] => i = j
            /\ \A e \in E : \E i \in DOMAIN actions : actions[i] = e
<1>1. PICK E : E = Entries(records, structural, opts)
  OBVIOUS
<1>2. PICK R : R = {p \in E \X E : KeyBefore(KeyOf(p[1].action), KeyOf(p[2].action))}
  OBVIOUS
<1>3. ASSUME NEW x \in E, NEW y \in E
      PROVE  <<x, y>> \in R <=> KeyBefore(KeyOf(x.action), KeyOf(y.action))
  BY <1>2
<1>4. ASSUME NEW e \in E PROVE KeyOf(e.action) \in Keys
  <2>1. e.action \in Action /\ e.action.kind \in FileKinds
    BY <1>1, EntryTypes
  <2> QED BY <2>1 DEF Action, KeyOf, Keys
<1>5. ASSUME NEW x \in E, NEW y \in E, x # y PROVE KeyOf(x.action) # KeyOf(y.action)
  BY <1>1, <1>5, OneEntryPerKey
<1>6. StrictOrder(E, R)
  BY <1>3, <1>4, <1>5, KeysAreOrdered DEF StrictOrder
<1>7. IsFiniteSet(E)
  BY <1>1, EntriesAreFinite
<1>8. /\ Cardinality(E) \in Nat
      /\ Ranked(E, R) \in [1..Cardinality(E) -> E]
      /\ \A m, n \in 1..Cardinality(E) : Ranked(E, R)[m] = Ranked(E, R)[n] => m = n
      /\ \A e \in E : \E n \in 1..Cardinality(E) : Ranked(E, R)[n] = e
  BY <1>6, <1>7, RankedLists
<1>9. InKeyOrder(E) = Ranked(E, R)
  BY <1>2 DEF InKeyOrder
<1>10. DOMAIN InKeyOrder(E) = 1..Cardinality(E)
  BY <1>8, <1>9
<1> QED BY <1>1, <1>8, <1>9, <1>10

-----------------------------------------------------------------------------
(* What one accepted reconciliation writes.                                *)

(* A record in a window that no curator superseded is in the file.         *)
LEMMA RecordIsWritten ==
  ASSUME NEW records, NEW structural, NEW opts, Inputs(records, structural, opts),
         StructuralAccepted(structural, opts),
         NEW r \in InWindow(records, opts), RecordId(r) \notin SupersededIds(structural, opts),
         NEW actions, actions = InKeyOrder(Entries(records, structural, opts))
  PROVE  \E i \in DOMAIN actions : KeyOf(actions[i].action) = KeyOf(r)
<1>1. r \in Reconciled(records, structural, opts)
  BY DEF Reconciled
<1>2. PICK g \in Groups(Reconciled(records, structural, opts)) : r \in g
  <2>1. PICK R : R = Reconciled(records, structural, opts)
    OBVIOUS
  <2>2. PICK g : g = {o \in R : KeyOf(o) = KeyOf(r)}
    OBVIOUS
  <2>3. KeyOf(r) \in {KeyOf(o) : o \in R}
    BY <1>1, <2>1
  <2>4. g \in Groups(R)
    BY <2>2, <2>3 DEF Groups
  <2>5. r \in g
    BY <1>1, <2>1, <2>2
  <2> QED BY <2>1, <2>4, <2>5
<1>3. PICK e \in Entries(records, structural, opts) : e = EntryOf(g, opts)
  BY DEF Entries
<1>4. KeyOf(e.action) = KeyOf(r)
  BY <1>2, <1>3, RecordEntry
<1>5. PICK i \in DOMAIN actions : actions[i] = e
  BY FileListsEntries
<1> QED BY <1>4, <1>5

(* An entity has one end at most among the curated actions.                *)
LEMMA OneEnd ==
  ASSUME NEW records, NEW structural, NEW opts, Inputs(records, structural, opts),
         StructuralAccepted(structural, opts), NEW entity,
         NEW p \in EndsOf(structural, opts, entity), NEW q \in EndsOf(structural, opts, entity)
  PROVE  p = q
<1>1. p \in InEntities(structural, opts) /\ structural[p].action.entity = entity
  BY DEF EndsOf
<1>2. Cardinality(EndsOf(structural, opts, entity)) <= 1
  BY <1>1 DEF StructuralAccepted
<1>3. IsFiniteSet(EndsOf(structural, opts, entity))
  <2>1. IsFiniteSet(DOMAIN structural)
    <3>1. structural \in Seq(StructuralEntry)
      BY DEF Inputs
    <3> QED BY <3>1, PlacesAreFinite
  <2>2. EndsOf(structural, opts, entity) \in SUBSET DOMAIN structural
    BY DEF EndsOf, InEntities
  <2> QED BY <2>1, <2>2, FS_Subset
<1>4. ASSUME p # q PROVE FALSE
  <2>1. {p} \in SUBSET EndsOf(structural, opts, entity) /\ q \notin {p}
    BY <1>4
  <2>2. Cardinality({p}) < Cardinality(EndsOf(structural, opts, entity))
    BY <1>3, <2>1, PartIsSmaller
  <2>3. Cardinality({p}) = 1
    BY FS_Singleton
  <2>4. Cardinality(EndsOf(structural, opts, entity)) \in Nat
    BY <1>3, FS_CardinalityType
  <2> QED BY <1>2, <2>2, <2>3, <2>4
<1> QED BY <1>4

(* An end that a file sets is one the curator gave.                        *)
LEMMA EndsAreCurated ==
  ASSUME NEW records, NEW structural, NEW opts, Inputs(records, structural, opts),
         NEW e \in Entries(records, structural, opts), Terminal(e.action)
  PROVE  \E p \in EndsOf(structural, opts, e.action.entity) :
           /\ p \in InScope(structural, opts)
           /\ e = [action |-> structural[p].action, announced |-> structural[p].announced, sources |-> structural[p].sources]
<1>1. ~FromRecords(e, records, structural, opts)
  BY RecordEntry DEF FromRecords, Terminal
<1>2. PICK p \in InScope(structural, opts) :
        e = [action |-> structural[p].action, announced |-> structural[p].announced, sources |-> structural[p].sources]
  BY <1>1, EntriesComeFrom DEF FromStructural
<1>3. e.action = structural[p].action /\ p \in InEntities(structural, opts)
  BY <1>2 DEF InScope
<1>4. p \in EndsOf(structural, opts, e.action.entity)
  BY <1>3 DEF EndsOf
<1> QED BY <1>2, <1>4

(* A record past the end of its entity was superseded: it could only have  *)
(* been kept by an action on its own day, and none lies past an end.       *)
LEMMA NoneReconciledPastAnEnd ==
  ASSUME NEW records, NEW structural, NEW opts, Inputs(records, structural, opts),
         Accepted(records, structural, opts),
         NEW r \in Reconciled(records, structural, opts)
  PROVE  Beyond(structural, opts, r) = {}
<1> SUFFICES ASSUME NEW p \in Beyond(structural, opts, r) PROVE FALSE
  OBVIOUS
<1>1. StructuralAccepted(structural, opts)
  BY DEF Accepted
<1>2. p \in EndsOf(structural, opts, r.entity) /\ r.date > SeriesLastDate(structural[p].action)
  BY DEF Beyond
<1>3. r \in InWindow(records, opts) /\ RecordId(r) \notin SupersededIds(structural, opts)
  BY DEF Reconciled, MustClassify
<1>4. RecordId(r) \in KeptIds(structural, opts)
  BY <1>3 DEF Accepted, MustClassify
<1>5. PICK k \in InScope(structural, opts) : RecordId(r) \in Keeps(structural, k)
  BY <1>4 DEF KeptIds
<1>6. PICK n \in Named(structural[k], structural[k].keeps) : RecordId(n) = RecordId(r)
  BY <1>5 DEF Keeps
<1>7. n.entity = r.entity /\ n.date = r.date
  BY <1>6 DEF RecordId
<1>8. n.entity = structural[k].action.entity
  BY DEF Named
<1>9. SelectorsAllowed(structural[k])
  BY <1>1 DEF StructuralAccepted
<1>10. ~(Terminal(structural[k].action) /\ n.date > SeriesLastDate(structural[k].action))
  BY <1>9 DEF SelectorsAllowed
<1>11. n.date = structural[k].action.date
  <2>1. n \in Named(structural[k], structural[k].supersedes \cup structural[k].keeps)
    BY DEF Named
  <2> QED BY <1>9, <1>10, <2>1 DEF SelectorsAllowed
<1>12. k \in InEntities(structural, opts)
  BY DEF InScope
<1>13. CASE Terminal(structural[k].action)
  <2>1. k \in EndsOf(structural, opts, r.entity)
    BY <1>7, <1>8, <1>12, <1>13 DEF EndsOf
  <2>2. k = p
    BY <1>1, <1>2, <2>1, OneEnd
  <2> QED BY <1>2, <1>7, <1>10, <1>13, <2>2
<1>14. CASE ~Terminal(structural[k].action)
  <2>1. structural[k].action.kind = "SPINOFF"
    BY <1>1, <1>14, StructuralKinds DEF Terminal, Structural
  <2>2. Beyond(structural, opts, structural[k].action) = {}
    BY <1>1, <2>1 DEF StructuralAccepted
  <2>3. p \in Beyond(structural, opts, structural[k].action)
    BY <1>2, <1>7, <1>8, <1>11 DEF Beyond
  <2> QED BY <2>2, <2>3
<1> QED BY <1>13, <1>14

(* What is written can be read: no entry lies past the end of its series.  *)
LEMMA NoEntryPastAnEnd ==
  ASSUME NEW records, NEW structural, NEW opts, Inputs(records, structural, opts),
         Accepted(records, structural, opts),
         NEW e \in Entries(records, structural, opts), NEW f \in Entries(records, structural, opts),
         Terminal(f.action), f.action.entity = e.action.entity,
         e.action.kind \in {"CASH_DIVIDEND", "SPLIT", "SPINOFF"}
  PROVE  ~(e.action.date > SeriesLastDate(f.action))
<1> SUFFICES ASSUME e.action.date > SeriesLastDate(f.action) PROVE FALSE
  OBVIOUS
<1>1. StructuralAccepted(structural, opts)
  BY DEF Accepted
<1>2. PICK p \in EndsOf(structural, opts, e.action.entity) : f.action = structural[p].action
  BY EndsAreCurated
<1>3. CASE FromStructural(e, structural, opts)
  <2>1. PICK i \in InScope(structural, opts) : e.action = structural[i].action
    BY <1>3 DEF FromStructural
  <2>2. e.action.kind = "SPINOFF"
    BY <1>1, <2>1, StructuralKinds DEF Structural
  <2>3. Beyond(structural, opts, e.action) = {}
    BY <1>1, <2>1, <2>2 DEF StructuralAccepted
  <2> QED BY <1>2, <2>3 DEF Beyond
<1>4. CASE FromRecords(e, records, structural, opts)
  <2>1. PICK g \in Groups(Reconciled(records, structural, opts)) : e = EntryOf(g, opts)
    BY <1>4 DEF FromRecords
  <2>2. PICK r \in g : KeyOf(e.action) = KeyOf(r)
    BY <2>1, RecordEntry DEF IsGroup
  <2>3. r \in Reconciled(records, structural, opts)
    BY <2>1, RecordEntry
  <2>4. r.entity = e.action.entity /\ r.date = e.action.date
    BY <2>2 DEF KeyOf
  <2>5. p \in Beyond(structural, opts, r)
    BY <1>2, <2>4 DEF Beyond
  <2> QED BY <2>3, <2>5, NoneReconciledPastAnEnd
<1> QED BY <1>3, <1>4, EntriesComeFrom

(* The whole file can be ingested.                                         *)
LEMMA FileIsParsable ==
  ASSUME NEW records, NEW structural, NEW opts, Inputs(records, structural, opts),
         ReconcileAccepted(records, structural, opts),
         NEW actions, actions = InKeyOrder(Entries(records, structural, opts))
  PROVE  Parsable(actions)
<1>1. Accepted(records, structural, opts) /\ StructuralAccepted(structural, opts)
  BY DEF ReconcileAccepted, Accepted
<1>2. PICK E : E = Entries(records, structural, opts)
  OBVIOUS
<1>3. /\ \A i \in DOMAIN actions : actions[i] \in E
      /\ \A i, j \in DOMAIN actions : actions[i] = actions[j] => i = j
  BY <1>1, <1>2, FileListsEntries
<1>4. ASSUME NEW e \in E PROVE Curable(e.action)
  <2>1. CASE FromStructural(e, structural, opts)
    BY <1>1, <2>1, StructuralKinds DEF FromStructural
  <2>2. CASE FromRecords(e, records, structural, opts)
    <3>1. e.action.kind \in {"CASH_DIVIDEND", "SPLIT"} /\ e.action.unread = {}
      BY <2>2, RecordEntry DEF FromRecords
    <3>2. WellFormed(e.action)
      BY <1>2 DEF ReconcileAccepted
    <3> QED BY <3>1, <3>2 DEF Curable, Unvalued
  <2> QED BY <1>2, <2>1, <2>2, EntriesComeFrom
<1>5. ASSUME NEW i \in DOMAIN actions PROVE ~PastEnd(actions, actions[i].action)
  BY <1>1, <1>2, <1>3, NoEntryPastAnEnd DEF PastEnd, Ending
<1>6. ASSUME NEW entity, NEW i \in Ending(actions, entity), NEW j \in Ending(actions, entity) PROVE i = j
  <2>1. /\ i \in DOMAIN actions /\ Terminal(actions[i].action) /\ actions[i].action.entity = entity
        /\ j \in DOMAIN actions /\ Terminal(actions[j].action) /\ actions[j].action.entity = entity
    BY DEF Ending
  <2>2. PICK p \in EndsOf(structural, opts, entity) :
          actions[i] = [action |-> structural[p].action, announced |-> structural[p].announced, sources |-> structural[p].sources]
    BY <1>2, <1>3, <2>1, EndsAreCurated
  <2>3. PICK q \in EndsOf(structural, opts, entity) :
          actions[j] = [action |-> structural[q].action, announced |-> structural[q].announced, sources |-> structural[q].sources]
    BY <1>2, <1>3, <2>1, EndsAreCurated
  <2>4. p = q
    BY <1>1, OneEnd
  <2> QED BY <1>3, <2>1, <2>2, <2>3, <2>4
<1>7. ASSUME NEW entity PROVE Cardinality(Ending(actions, entity)) <= 1
  <2>1. CASE Ending(actions, entity) = {}
    BY <2>1, FS_EmptySet
  <2>2. CASE Ending(actions, entity) # {}
    <3>1. PICK i : Ending(actions, entity) = {i}
      BY <1>6, <2>2
    <3> QED BY <3>1, FS_Singleton
  <2> QED BY <2>1, <2>2
<1>8. ASSUME NEW i \in DOMAIN actions, NEW j \in DOMAIN actions, i # j
      PROVE  KeyOf(actions[i].action) # KeyOf(actions[j].action)
  BY <1>1, <1>2, <1>3, <1>8, OneEntryPerKey
<1> QED BY <1>3, <1>4, <1>5, <1>7, <1>8 DEF Parsable

-----------------------------------------------------------------------------
(* The workflow.                                                           *)

(* What every reachable state has: a finite history of vendor rows, and a  *)
(* file that has been signed for its hash or not at all.                   *)
InputInv ==
  /\ rows \subseteq VendorRow /\ IsFiniteSet(rows)
  /\ issuer \in IssuerSets

FileFields == {"dataset", "signed", "approvedAt", "hash", "actions"}

EditorInv == \A f \in editor : DOMAIN f = FileFields /\ (f.signed => f.hash \in signed)

WorkInv ==
  /\ InputInv /\ EditorInv /\ StoredWasSigned
  /\ NothingDropped /\ ReconciledIsIngestable /\ TwoSourcesAgree

(* Whatever the sources hand over, the reconciler is given finitely many   *)
(* records of the two kinds it reconciles.                                 *)
LEMMA RunHasInputs ==
  ASSUME InputInv, NEW c \in CuratedSet, NEW s \in StructuralSet, NEW o \in OwnerSet,
         NEW req, req.owner = o, req.curated = c,
         NEW records, records = AllRecords(req, rows, Options, Vendor, issuer)
  PROVE  Inputs(records, s, Options)
<1>1. OwnerRecords(o) \subseteq Record /\ IsFiniteSet(OwnerRecords(o))
  <2>1. o \in Seq(FundFile) /\ IsFiniteSet(OwnerRecords(o))
    BY SourcesAssumption
  <2>2. \A i \in DOMAIN o : o[i] \in FundFile
    BY <2>1, ElementOfSeq
  <2>3. \A i \in DOMAIN o : o[i].records \subseteq Record
    BY <2>2 DEF FundFile
  <2> QED BY <2>1, <2>3 DEF OwnerRecords
<1>2. ParseCuratedActions(c).records \subseteq Record /\ IsFiniteSet(ParseCuratedActions(c).records)
  <2>1. c \in Seq(CuratedRow)
    BY SourcesAssumption
  <2>2. CASE BadLines(c) = {}
    <3>1. ParseCuratedActions(c).records = {CuratedRecord(c[i]) : i \in DOMAIN c}
      BY <2>2 DEF ParseCuratedActions
    <3>2. ASSUME NEW i \in DOMAIN c PROVE CuratedRecord(c[i]) \in Record
      <4>1. c[i] \in CuratedRow
        BY <2>1, ElementOfSeq
      <4>2. RowReads(c[i])
        BY <2>2 DEF BadLines
      <4>3. c[i].kind \in {"CASH_DIVIDEND", "SPLIT"}
        BY <4>2 DEF RowReads
      <4> QED BY <4>1, <4>3 DEF CuratedRecord, CuratedRow, Record, Absent
    <3>3. PICK f : f = [i \in DOMAIN c |-> CuratedRecord(c[i])]
      OBVIOUS
    <3>4. {CuratedRecord(c[i]) : i \in DOMAIN c} = {f[i] : i \in DOMAIN c}
      BY <3>3
    <3>5. IsFiniteSet(DOMAIN c)
      BY <2>1, PlacesAreFinite
    <3>6. IsFiniteSet({f[i] : i \in DOMAIN c})
      BY <3>5, ImageIsFinite
    <3> QED BY <3>1, <3>2, <3>4, <3>6
  <2>3. CASE BadLines(c) # {}
    <3>1. ParseCuratedActions(c).records = {}
      BY <2>3 DEF ParseCuratedActions
    <3> QED BY <3>1, FS_EmptySet
  <2> QED BY <2>2, <2>3
<1>3. PICK V : V = VendorRecords(rows, Options.entities, Vendor)
  OBVIOUS
<1>4. V \subseteq Record /\ IsFiniteSet(V)
  <2>1. PICK N : N = Newest(VendorRows(rows, Options.entities))
    OBVIOUS
  <2>2. N \in SUBSET rows /\ \A r \in N : r.kind \in {"CASH_DIVIDEND", "SPLIT"}
    BY <2>1 DEF Newest, VendorRows
  <2>3. IsFiniteSet(N)
    BY <2>2, FS_Subset DEF InputInv
  <2>4. PICK f : f = [r \in N |-> [source |-> Vendor, entity |-> r.entity, kind |-> r.kind, date |-> r.date,
                                   value |-> r.value, pay |-> r.pay, announced |-> Absent]]
    OBVIOUS
  <2>5. V = {f[r] : r \in N}
    BY <1>3, <2>1, <2>4 DEF VendorRecords
  <2>6. IsFiniteSet({f[r] : r \in N})
    BY <2>3, ImageIsFinite
  <2>7. ASSUME NEW r \in N PROVE f[r] \in Record
    <3>1. r \in VendorRow /\ r.kind \in {"CASH_DIVIDEND", "SPLIT"}
      BY <2>2 DEF InputInv
    <3>2. Vendor \in Int /\ Absent \in Int
      BY SourcesAssumption DEF Absent
    <3> QED BY <2>4, <3>1, <3>2 DEF VendorRow, Record
  <2> QED BY <2>5, <2>6, <2>7
<1>5. issuer \subseteq Record /\ IsFiniteSet(issuer)
  BY SourcesAssumption DEF InputInv
<1>6. records = OwnerRecords(o) \cup ParseCuratedActions(c).records \cup V \cup issuer
  BY <1>3 DEF AllRecords
<1>7. records \subseteq Record /\ IsFiniteSet(records)
  <2>1. IsFiniteSet(OwnerRecords(o) \cup ParseCuratedActions(c).records)
    BY <1>1, <1>2, FS_Union
  <2>2. IsFiniteSet(OwnerRecords(o) \cup ParseCuratedActions(c).records \cup V)
    BY <1>4, <2>1, FS_Union
  <2>3. IsFiniteSet(OwnerRecords(o) \cup ParseCuratedActions(c).records \cup V \cup issuer)
    BY <1>5, <2>2, FS_Union
  <2>4. records \subseteq Record
    BY <1>1, <1>2, <1>4, <1>5, <1>6
  <2> QED BY <1>6, <2>3, <2>4
<1> QED BY <1>7, SourcesAssumption, OptionsAssumption DEF Inputs

(* What a run makes of its file: nothing, or one that an accepted          *)
(* reconciliation wrote.                                                   *)
Wrote(records, s, file) ==
  /\ Inputs(records, s, Options) /\ ReconcileAccepted(records, s, Options)
  /\ file = ReconciledFile(records, s, Options)
  /\ editor' = {file}
  /\ made' = {[records |-> records, structural |-> s, file |-> file]}

LEMMA RunWrites ==
  ASSUME InputInv, Run
  PROVE  UNCHANGED <<made, editor>> \/ \E records, s, file : Wrote(records, s, file)
<1>1. PICK c \in CuratedSet, s \in StructuralSet, o \in OwnerSet :
        LET req == [out |-> <<"out", runs>>, report |-> <<"report", runs>>, owner |-> o, curated |-> c, structural |-> s]
            done == RunReconcile(req, disk, rows, Options, Vendor, issuer)
        IN IF done.file = {} THEN UNCHANGED <<disk, made, editor>>
           ELSE /\ disk' = disk \cup {done.writes[1], done.writes[2]}
                /\ editor' = done.file
                /\ made' = {[records |-> AllRecords(req, rows, Options, Vendor, issuer), structural |-> s,
                             file |-> CHOOSE f \in done.file : TRUE]}
  BY Zenon DEF Run
<1>2. PICK req : req = [out |-> <<"out", runs>>, report |-> <<"report", runs>>, owner |-> o, curated |-> c, structural |-> s]
  OBVIOUS
<1>3. PICK done : done = RunReconcile(req, disk, rows, Options, Vendor, issuer)
  OBVIOUS
<1>4. PICK records : records = AllRecords(req, rows, Options, Vendor, issuer)
  OBVIOUS
<1>5. req.owner = o /\ req.curated = c /\ req.structural = s
  BY <1>2
<1>6. \/ UNCHANGED <<made, editor>>
      \/ /\ done.file # {} /\ editor' = done.file
         /\ made' = {[records |-> records, structural |-> s, file |-> CHOOSE f \in done.file : TRUE]}
  BY <1>1, <1>2, <1>3, <1>4
<1>7. ASSUME done.file # {}
      PROVE  /\ ReconcileAccepted(records, s, Options)
             /\ done.file = {ReconciledFile(records, s, Options)}
  <2>1. RunAccepted(req, disk, rows, Options, Vendor, issuer)
    BY <1>3, <1>7 DEF RunReconcile
  <2>2. done.file = {ReconciledFile(records, s, Options)}
    BY <1>3, <1>4, <1>5, <2>1 DEF RunReconcile
  <2> QED BY <1>4, <1>5, <2>1, <2>2 DEF RunAccepted
<1>8. Inputs(records, s, Options)
  BY <1>4, <1>5, RunHasInputs
<1>9. CASE done.file # {} /\ ~UNCHANGED <<made, editor>>
  <2>1. (CHOOSE f \in done.file : TRUE) = ReconciledFile(records, s, Options)
    BY <1>7, <1>9
  <2>2. Wrote(records, s, ReconciledFile(records, s, Options))
    BY <1>6, <1>7, <1>8, <1>9, <2>1 DEF Wrote
  <2> QED BY <2>2
<1> QED BY <1>6, <1>9

(* A file that was just written is not signed, loses no record, can be     *)
(* ingested, and names only sources that confirm it.                       *)
LEMMA WhatWasWritten ==
  ASSUME NEW records, NEW s, NEW file, Wrote(records, s, file)
  PROVE  EditorInv' /\ NothingDropped' /\ ReconciledIsIngestable' /\ TwoSourcesAgree'
<1>1. PICK actions : actions = InKeyOrder(Entries(records, s, Options))
  OBVIOUS
<1>2. file = [dataset |-> "reconciled", signed |-> FALSE, approvedAt |-> Absent,
              hash |-> CorporateActionsHash(actions), actions |-> actions]
  BY <1>1 DEF Wrote, ReconciledFile
<1>3. file.actions = actions /\ ~file.signed /\ DOMAIN file = FileFields
  BY <1>2 DEF FileFields
<1>4. Inputs(records, s, Options) /\ ReconcileAccepted(records, s, Options)
  BY DEF Wrote
<1>5. StructuralAccepted(s, Options)
  BY <1>4 DEF ReconcileAccepted, Accepted
<1>6. editor' = {file} /\ made' = {[records |-> records, structural |-> s, file |-> file]}
  BY DEF Wrote
<1>7. EditorInv'
  BY <1>3, <1>6 DEF EditorInv
<1>8. ASSUME NEW r \in InWindow(records, Options), RecordId(r) \notin SupersededIds(s, Options)
      PROVE  \E i \in DOMAIN actions : KeyOf(actions[i].action) = KeyOf(r)
  BY <1>1, <1>4, <1>5, <1>8, RecordIsWritten
<1>9. NothingDropped'
  BY <1>3, <1>6, <1>8 DEF NothingDropped
<1>10. Parsable(actions)
  BY <1>1, <1>4, FileIsParsable
<1>11. ReconciledIsIngestable'
  BY <1>3, <1>6, <1>10 DEF ReconciledIsIngestable
<1>12. ASSUME NEW i \in DOMAIN actions, actions[i].action.kind \in {"CASH_DIVIDEND", "SPLIT"},
              NEW x \in actions[i].sources
       PROVE  \E r \in records :
                /\ r.source = x /\ KeyOf(r) = KeyOf(actions[i].action)
                /\ r.value - actions[i].action.value \in (-Options.tolerance)..Options.tolerance
                /\ r.kind = "SPLIT" => r.value = actions[i].action.value
  <2>1. PICK e \in Entries(records, s, Options) : e = actions[i]
    BY <1>1, <1>4, <1>5, FileListsEntries
  <2>2. ~FromStructural(e, s, Options)
    BY <1>4, <1>5, <1>12, <2>1, StructuralKinds DEF FromStructural, Structural
  <2>3. PICK g \in Groups(Reconciled(records, s, Options)) : e = EntryOf(g, Options)
    BY <2>2, EntriesComeFrom DEF FromRecords
  <2>4. /\ g \subseteq records
        /\ \E r \in g :
             /\ r.source = x /\ KeyOf(r) = KeyOf(e.action)
             /\ r.value - e.action.value \in (-Options.tolerance)..Options.tolerance
             /\ r.kind = "SPLIT" => r.value = e.action.value
    BY <1>4, <1>12, <2>1, <2>3, RecordEntry
  <2> QED BY <2>1, <2>4
<1>13. TwoSourcesAgree'
  BY <1>3, <1>6, <1>12 DEF TwoSourcesAgree
<1> QED BY <1>7, <1>9, <1>11, <1>13

(* The properties of what was made change with made alone.                 *)
LEMMA MadeAlone ==
  ASSUME NothingDropped, ReconciledIsIngestable, TwoSourcesAgree, UNCHANGED made
  PROVE  NothingDropped' /\ ReconciledIsIngestable' /\ TwoSourcesAgree'
BY DEF NothingDropped, ReconciledIsIngestable, TwoSourcesAgree

(* What an ingest stores is in a content that was signed.                  *)
LEMMA IngestStoresSigned ==
  ASSUME EditorInv, StoredWasSigned, Ingest
  PROVE  StoredWasSigned'
<1>1. PICK f \in editor : stored' = stored \cup ParseCorporateActions(f, Now)
  BY DEF Ingest
<1>2. UNCHANGED signed
  BY DEF Ingest
<1>3. ASSUME NEW o \in ParseCorporateActions(f, Now)
      PROVE  \E c \in signed : \E i \in DOMAIN c : c[i].action = o.value
  <2>1. Approved(f, Now)
    BY <1>3 DEF ParseCorporateActions
  <2>2. f.signed /\ f.hash = f.actions
    BY <2>1 DEF Approved, CorporateActionsHash
  <2>3. f.actions \in signed
    BY <2>2 DEF EditorInv
  <2>4. PICK i \in DOMAIN f.actions : o.value = f.actions[i].action
    BY <1>3, <2>1 DEF ParseCorporateActions, CorporateActionObservation
  <2> QED BY <2>3, <2>4
<1> QED BY <1>1, <1>2, <1>3 DEF StoredWasSigned

LEMMA WorkStep ==
  ASSUME WorkInv, [Next]_vars
  PROVE  WorkInv'
<1> USE DEF WorkInv
<1>1. CASE VendorIngest
  <2>1. PICK r \in VendorRowSet : rows' = rows \cup {r}
    BY <1>1 DEF VendorIngest
  <2>2. UNCHANGED <<issuer, made, editor, signed, stored>>
    BY <1>1 DEF VendorIngest
  <2>3. r \in VendorRow
    BY SourcesAssumption
  <2>4. InputInv'
    BY <2>1, <2>2, <2>3, FS_AddElement DEF InputInv
  <2>5. EditorInv' /\ StoredWasSigned'
    BY <2>2 DEF EditorInv, StoredWasSigned
  <2> QED BY <2>2, <2>4, <2>5, MadeAlone
<1>2. CASE Run
  <2>1. UNCHANGED <<rows, issuer, signed, stored>>
    BY Zenon, <1>2 DEF Run
  <2>2. InputInv' /\ StoredWasSigned'
    BY <2>1 DEF InputInv, StoredWasSigned
  <2>3. CASE UNCHANGED <<made, editor>>
    BY <2>1, <2>2, <2>3, MadeAlone DEF EditorInv
  <2>4. CASE \E records, s, file : Wrote(records, s, file)
    BY <2>2, <2>4, WhatWasWritten
  <2> QED BY <1>2, <2>3, <2>4, RunWrites
<1>3. CASE Edit
  <2>1. PICK f \in editor : \E i \in DOMAIN f.actions : editor' = {[f EXCEPT !.actions[i].action.value = @ + 1]}
    BY <1>3 DEF Edit
  <2>2. PICK i \in DOMAIN f.actions : editor' = {[f EXCEPT !.actions[i].action.value = @ + 1]}
    BY <2>1
  <2>3. UNCHANGED <<rows, issuer, made, signed, stored>>
    BY <1>3 DEF Edit
  <2>4. PICK g : g = [f EXCEPT !.actions[i].action.value = @ + 1]
    OBVIOUS
  <2>5. DOMAIN g = FileFields /\ g.signed = f.signed /\ g.hash = f.hash
    BY <2>4 DEF EditorInv, FileFields
  <2>6. EditorInv'
    BY <2>2, <2>3, <2>4, <2>5 DEF EditorInv
  <2>7. InputInv' /\ StoredWasSigned'
    BY <2>3 DEF InputInv, StoredWasSigned
  <2> QED BY <2>3, <2>6, <2>7, MadeAlone
<1>4. CASE Sign
  <2>1. PICK f \in editor, at \in {Now, Now + 1} :
          /\ editor' = {[f EXCEPT !.signed = TRUE, !.approvedAt = at]}
          /\ signed' = signed \cup {f.hash}
    BY Zenon, <1>4 DEF Sign
  <2>2. UNCHANGED <<rows, issuer, made, stored>>
    BY Zenon, <1>4 DEF Sign
  <2>3. PICK g : g = [f EXCEPT !.signed = TRUE, !.approvedAt = at]
    OBVIOUS
  <2>4. DOMAIN g = FileFields /\ g.hash = f.hash
    BY <2>3 DEF EditorInv, FileFields
  <2>5. EditorInv'
    BY <2>1, <2>3, <2>4 DEF EditorInv
  <2>6. InputInv' /\ StoredWasSigned'
    BY <2>1, <2>2 DEF InputInv, StoredWasSigned
  <2> QED BY <2>2, <2>5, <2>6, MadeAlone
<1>5. CASE Ingest
  <2>1. UNCHANGED <<rows, issuer, made, editor, signed>>
    BY <1>5 DEF Ingest
  <2>2. InputInv' /\ EditorInv'
    BY <2>1 DEF InputInv, EditorInv
  <2> QED BY <1>5, <2>1, <2>2, IngestStoresSigned, MadeAlone
<1>6. CASE UNCHANGED vars
  <2>1. UNCHANGED <<rows, issuer, made, editor, signed, stored>>
    BY <1>6 DEF vars
  <2>2. InputInv' /\ EditorInv' /\ StoredWasSigned'
    BY <2>1 DEF InputInv, EditorInv, StoredWasSigned
  <2> QED BY <2>1, <2>2, MadeAlone
<1> QED BY <1>1, <1>2, <1>3, <1>4, <1>5, <1>6 DEF Next

LEMMA WorkAlways == Spec => []WorkInv
<1>1. Init => WorkInv
  BY FS_EmptySet DEF Init, WorkInv, InputInv, EditorInv, StoredWasSigned, NothingDropped,
     ReconciledIsIngestable, TwoSourcesAgree
<1>2. WorkInv /\ [Next]_vars => WorkInv'
  BY WorkStep
<1> QED BY <1>1, <1>2, PTL DEF Spec

(* Nothing is stored that no owner signed, however often the file is       *)
(* edited, signed, run again and ingested.                                 *)
THEOREM OnlySignedIsStored == Spec => []StoredWasSigned
<1>1. WorkInv => StoredWasSigned
  BY DEF WorkInv
<1> QED BY <1>1, WorkAlways, PTL

(* No record in a window is lost without a curator naming it.              *)
THEOREM NoRecordIsDropped == Spec => []NothingDropped
<1>1. WorkInv => NothingDropped
  BY DEF WorkInv
<1> QED BY <1>1, WorkAlways, PTL

(* No reconciliation writes a file that the ingest would refuse to read.   *)
THEOREM WrittenIsReadable == Spec => []ReconciledIsIngestable
<1>1. WorkInv => ReconciledIsIngestable
  BY DEF WorkInv
<1> QED BY <1>1, WorkAlways, PTL

(* The sources of an entry are sources whose own records confirm it.       *)
THEOREM SourcesConfirm == Spec => []TwoSourcesAgree
<1>1. WorkInv => TwoSourcesAgree
  BY DEF WorkInv
<1> QED BY <1>1, WorkAlways, PTL

=============================================================================
