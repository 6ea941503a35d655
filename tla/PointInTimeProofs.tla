--------------------------- MODULE PointInTimeProofs ---------------------------
(***************************************************************************)
(* Proofs about the point-in-time repository: for every set of locators,   *)
(* artifacts and vintages and every processing delay, what a decision was  *)
(* given can be given again, and a quarantine reaches every later one.     *)
(***************************************************************************)
EXTENDS PointInTime, FiniteSetTheorems, SequenceTheorems, TLAPS

Missing == "ARTIFACT_MISSING"

FlagSets == SUBSET {"CORRECTED", Missing}

Row == [loc : Locators, art : Arts, avail : Nat, vintage : Vintages,
        flags : FlagSets, given : FlagSets]

TypeOK == clock \in Nat /\ rows \in Seq(Row) /\ snaps \in Seq(Nat)

(* A snapshot is of rows there are.                                        *)
SnapsPast == \A n \in DOMAIN snaps : snaps[n] <= Len(rows)

(* append keeps one row of an identity and a content.                      *)
RowsDistinct ==
  \A i, j \in Ids :
    SameIdentity(rows[i], rows[j]) /\ SameContent(rows[i], rows[j]) => i = j

(* c is a correction of row i that markArtifactMissing wrote by the time   *)
(* now: i is not itself one, and c was not made available after now unless *)
(* i was.                                                                  *)
Marks(c, i, now) ==
  /\ SameIdentity(c, rows[i]) /\ c.art = rows[i].art
  /\ Missing \notin rows[i].flags
  /\ c.given = rows[i].flags \cup {Missing}
  /\ c.avail <= now \/ c.avail <= rows[i].avail

(* Every row is an observation, hashed without flags, or the correction of *)
(* an earlier one.                                                         *)
MarksFollow ==
  \A k \in Ids :
    /\ rows[k].given \subseteq rows[k].flags
    /\ \/ Missing \notin rows[k].flags /\ rows[k].given = {}
       \/ \E i \in 1..(k - 1) : Marks(rows[k], i, clock)

PitInv == TypeOK /\ SnapsPast /\ RowsDistinct /\ MarksFollow

(* What a step leaves of the rows and the snapshots.                       *)
RowsKept == \A i \in Ids : i \in Ids' /\ rows'[i] = rows[i]

SnapsKept == \A n \in DOMAIN snaps : n \in (DOMAIN snaps)' /\ snaps'[n] = snaps[n]

-----------------------------------------------------------------------------
(* The operators.                                                          *)

LEMMA TypedRow ==
  ASSUME TypeOK, NEW i \in Ids
  PROVE  rows[i] \in Row
BY DEF TypeOK, Ids

LEMMA StoredIsRow ==
  ASSUME NEW obs \in Row
  PROVE  /\ Stored(obs) \in Row
         /\ SameIdentity(Stored(obs), obs) /\ SameContent(Stored(obs), obs)
         /\ Stored(obs).avail = obs.avail
         /\ obs.flags \subseteq Stored(obs).flags
         /\ Missing \in Stored(obs).flags => Missing \in obs.flags
<1>1. {"CORRECTED"} \in FlagSets /\ {} \in FlagSets
  BY DEF FlagSets
<1>2. obs.flags \cup (IF Conflict(obs) THEN {"CORRECTED"} ELSE {}) \in FlagSets
  BY <1>1 DEF Row, FlagSets
<1> QED
  BY <1>2 DEF Stored, Row, SameIdentity, SameContent, Missing

LEMMA CorrectionIsRow ==
  ASSUME NEW r \in Row, clock \in Nat
  PROVE  /\ Correction(r) \in Row
         /\ SameIdentity(Correction(r), r) /\ Correction(r).art = r.art
         /\ Correction(r).given = r.flags \cup {Missing}
         /\ Correction(r).flags = r.flags \cup {Missing}
         /\ Correction(r).avail = IF clock > r.avail THEN clock ELSE r.avail
<1>1. r.flags \cup {Missing} \in FlagSets
  BY DEF Row, FlagSets
<1>2. (IF clock > r.avail THEN clock ELSE r.avail) \in Nat
  BY DEF Row
<1> QED
  BY <1>1, <1>2 DEF Correction, Row, SameIdentity, Missing

(* What markArtifactMissing appends: for each row to mark, in some order,  *)
(* its correction.                                                         *)
Marked(h, m, s) ==
  /\ \A i \in ToMark(h) : \E n \in 1..m : s[n] = i
  /\ \A n, k \in 1..m : n < k => s[n] < s[k]
  /\ rows' \in Seq(Row)
  /\ Len(rows') = Len(rows) + m
  /\ \A i \in Ids : rows'[i] = rows[i]
  /\ \A n \in 1..m : rows'[Len(rows) + n] = Stored(Correction(rows[s[n]]))

LEMMA MarkAppends ==
  ASSUME TypeOK, NEW h, MarkArtifactMissing(h)
  PROVE  \E m \in Nat : \E s \in [1..m -> ToMark(h)] : Marked(h, m, s)
<1>1. PICK s \in Listings(ToMark(h)) :
        rows' = rows \o [n \in DOMAIN s |-> Stored(Correction(rows[s[n]]))]
  BY DEF MarkArtifactMissing
<1>2. Ids = 1..Len(rows) /\ Len(rows) \in Nat
  BY DEF TypeOK, Ids
<1>3. IsFiniteSet(ToMark(h))
  <2>1. IsFiniteSet(1..Len(rows))
    BY <1>2, FS_Interval
  <2>2. ToMark(h) \subseteq 1..Len(rows)
    BY <1>2 DEF ToMark
  <2> QED  BY <2>1, <2>2, FS_Subset
<1>4. PICK m \in Nat : m = Cardinality(ToMark(h))
  BY <1>3, FS_CardinalityType
<1>5. /\ s \in [1..m -> ToMark(h)]
      /\ \A i \in ToMark(h) : \E n \in 1..m : s[n] = i
      /\ \A n, k \in 1..m : n < k => s[n] < s[k]
  BY <1>4 DEF Listings
<1>6. PICK t : t = [n \in 1..m |-> Stored(Correction(rows[s[n]]))]
  OBVIOUS
<1>7. \A n \in 1..m : t[n] \in Row /\ t[n] = Stored(Correction(rows[s[n]]))
  <2> TAKE n \in 1..m
  <2>1. s[n] \in Ids
    BY <1>5 DEF ToMark
  <2>2. Correction(rows[s[n]]) \in Row
    BY <2>1, TypedRow, CorrectionIsRow DEF TypeOK
  <2> QED  BY <1>6, <2>2, StoredIsRow
<1>8. t \in Seq(Row) /\ Len(t) = m
  BY <1>6, <1>7
<1>9. rows \in Seq(Row) /\ rows' = rows \o t
  BY <1>1, <1>5, <1>6 DEF TypeOK
<1>10. /\ rows' \in Seq(Row)
       /\ Len(rows') = Len(rows) + m
       /\ \A i \in 1..Len(rows) : rows'[i] = rows[i]
       /\ \A n \in 1..m : rows'[Len(rows) + n] = t[n]
  <2>1. /\ rows \o t \in Seq(Row)
        /\ Len(rows \o t) = Len(rows) + m
        /\ \A i \in 1..Len(rows) + m :
             (rows \o t)[i] = IF i <= Len(rows) THEN rows[i] ELSE t[i - Len(rows)]
    BY <1>8, <1>9, ConcatProperties
  <2> QED  BY <1>2, <1>9, <2>1
<1>11. s \in [1..m -> ToMark(h)]
  BY <1>5
<1> USE <1>11
<1> WITNESS m \in Nat
<1> WITNESS s \in [1..m -> ToMark(h)]
<1> QED
  BY <1>2, <1>5, <1>7, <1>10 DEF Marked

-----------------------------------------------------------------------------
(* The invariant.                                                          *)

(* The new row is neither the same as an old one nor out of place.         *)
NewRow(r) ==
  /\ \A i \in Ids : ~(SameIdentity(rows[i], r) /\ SameContent(rows[i], r))
  /\ r.given \subseteq r.flags
  /\ \/ Missing \notin r.flags /\ r.given = {}
     \/ \E i \in Ids : Marks(r, i, clock)

(* Rows that are new, and differ from each other, may follow in any number.*)
LEMMA ExtensionKeepsRows ==
  ASSUME PitInv, NEW m \in Nat,
         clock' \in Nat, clock' >= clock,
         rows' \in Seq(Row), Len(rows') = Len(rows) + m,
         \A i \in Ids : rows'[i] = rows[i],
         \A n \in 1..m : NewRow(rows'[Len(rows) + n]),
         \A n, k \in 1..m :
           SameIdentity(rows'[Len(rows) + n], rows'[Len(rows) + k])
             /\ SameContent(rows'[Len(rows) + n], rows'[Len(rows) + k]) => n = k
  PROVE  RowsDistinct' /\ MarksFollow' /\ RowsKept
<1>1. /\ Len(rows) \in Nat /\ Ids = 1..Len(rows) /\ Ids' = 1..(Len(rows) + m)
  BY DEF PitInv, TypeOK, Ids
<1>2. \A i \in Ids' : i \in Ids \/ \E n \in 1..m : i = Len(rows) + n
  <2> TAKE i \in Ids'
  <2>1. i \in Ids \/ (i - Len(rows) \in 1..m /\ i = Len(rows) + (i - Len(rows)))
    BY <1>1
  <2> QED  BY <2>1
<1>3. RowsDistinct'
  <2> SUFFICES ASSUME NEW i \in Ids', NEW j \in Ids',
                      SameIdentity(rows'[i], rows'[j]), SameContent(rows'[i], rows'[j])
               PROVE  i = j
    BY DEF RowsDistinct
  <2>1. CASE i \in Ids /\ j \in Ids
    BY <2>1 DEF PitInv, RowsDistinct
  <2>2. ASSUME NEW n \in 1..m, i = Len(rows) + n, j \in Ids
        PROVE  FALSE
    BY <2>2 DEF NewRow, SameIdentity, SameContent
  <2>3. ASSUME NEW n \in 1..m, j = Len(rows) + n, i \in Ids
        PROVE  FALSE
    BY <2>3 DEF NewRow
  <2>4. ASSUME NEW n \in 1..m, i = Len(rows) + n, NEW k \in 1..m, j = Len(rows) + k
        PROVE  i = j
    BY <2>4
  <2> QED
    BY <1>2, <2>1, <2>2, <2>3, <2>4
<1>4. MarksFollow'
  <2> SUFFICES ASSUME NEW k \in Ids'
               PROVE  /\ rows'[k].given \subseteq rows'[k].flags
                      /\ \/ Missing \notin rows'[k].flags /\ rows'[k].given = {}
                         \/ \E i \in 1..(k - 1) : Marks(rows[k], i, clock)'
    BY DEF MarksFollow
  <2>1. ASSUME NEW r \in Row, NEW i \in Ids, Marks(r, i, clock), rows'[k] = r, i < k
        PROVE  \E j \in 1..(k - 1) : Marks(rows[k], j, clock)'
    <3>1. Marks(rows[k], i, clock)'
      <4>1. rows'[i] = rows[i] /\ rows[i].avail \in Nat /\ r.avail \in Nat /\ clock \in Nat
        BY <2>1, TypedRow DEF PitInv, TypeOK, Row
      <4>2. r.avail <= clock' \/ r.avail <= rows[i].avail
        BY <2>1, <4>1 DEF Marks
      <4> QED  BY <2>1, <4>1, <4>2 DEF Marks, SameIdentity
    <3>2. i \in 1..(k - 1)
      BY <2>1, <1>1
    <3> QED  BY <3>1, <3>2
  <2>2. CASE k \in Ids
    <3>1. rows'[k] = rows[k] /\ rows[k] \in Row
      BY <2>2, TypedRow DEF PitInv
    <3>2. /\ rows[k].given \subseteq rows[k].flags
          /\ \/ Missing \notin rows[k].flags /\ rows[k].given = {}
             \/ \E i \in 1..(k - 1) : Marks(rows[k], i, clock)
      BY <2>2 DEF PitInv, MarksFollow
    <3>3. ASSUME NEW i \in 1..(k - 1), Marks(rows[k], i, clock)
          PROVE  \E j \in 1..(k - 1) : Marks(rows[k], j, clock)'
      <4>1. i \in Ids /\ i < k
        BY <2>2, <1>1
      <4> QED  BY <4>1, <3>1, <3>3, <2>1
    <3> QED  BY <3>1, <3>2, <3>3
  <2>3. ASSUME NEW n \in 1..m, k = Len(rows) + n
        PROVE  /\ rows'[k].given \subseteq rows'[k].flags
               /\ \/ Missing \notin rows'[k].flags /\ rows'[k].given = {}
                  \/ \E i \in 1..(k - 1) : Marks(rows[k], i, clock)'
    <3>1. NewRow(rows'[k])
      BY <2>3
    <3>2. rows'[k] \in Row
      BY DEF Ids
    <3>3. \A i \in Ids : i < k
      BY <2>3, <1>1
    <3> QED  BY <3>1, <3>2, <3>3, <2>1 DEF NewRow
  <2> QED  BY <1>2, <2>2, <2>3
<1>5. RowsKept
  BY <1>1 DEF RowsKept
<1> QED
  BY <1>3, <1>4, <1>5

LEMMA ObserveKeeps ==
  ASSUME PitInv, NEW loc \in Locators, NEW art \in Arts, NEW avail \in Nat,
         NEW vintage \in Vintages, Observe(loc, art, avail, vintage)
  PROVE  PitInv' /\ RowsKept /\ SnapsKept
<1>1. PICK obs \in Row : /\ obs = Observation(loc, art, avail, vintage)
                         /\ obs.flags = {} /\ obs.given = {}
  <2>1. {} \in FlagSets
    BY DEF FlagSets
  <2>2. Observation(loc, art, avail, vintage) \in Row
    BY <2>1 DEF Observation, Row
  <2>3. /\ Observation(loc, art, avail, vintage).flags = {}
        /\ Observation(loc, art, avail, vintage).given = {}
    BY DEF Observation
  <2> QED  BY <2>2, <2>3
<1>2. clock' = clock /\ snaps' = snaps /\ AppendRow(obs)
  BY <1>1 DEF Observe
<1>3. rows \in Seq(Row) /\ clock \in Nat /\ Ids = 1..Len(rows) /\ Len(rows) \in Nat
  BY DEF PitInv, TypeOK, Ids
<1>4. CASE Duplicate(obs)
  <2>1. rows' = rows
    BY <1>2, <1>4 DEF AppendRow
  <2> QED
    BY <1>2, <2>1 DEF PitInv, TypeOK, SnapsPast, RowsDistinct, MarksFollow, Marks,
                      SameIdentity, SameContent, RowsKept, SnapsKept, Ids
<1>5. CASE ~Duplicate(obs)
  <2>1. PICK r \in Row : r = Stored(obs)
    BY <1>1, StoredIsRow
  <2>2. rows' = Append(rows, r)
    BY <1>2, <1>5, <2>1 DEF AppendRow
  <2>3. /\ rows' \in Seq(Row) /\ Len(rows') = Len(rows) + 1
        /\ \A i \in Ids : rows'[i] = rows[i]
        /\ rows'[Len(rows) + 1] = r
    BY <1>3, <2>1, <2>2, AppendProperties
  <2>4. NewRow(r)
    <3>1. /\ SameIdentity(r, obs) /\ SameContent(r, obs)
          /\ obs.flags \subseteq r.flags /\ (Missing \in r.flags => Missing \in obs.flags)
      BY <2>1, StoredIsRow
    <3>2. Missing \notin r.flags /\ r.given = {}
      BY <3>1, <1>1 DEF SameContent
    <3>3. \A i \in Ids : ~(SameIdentity(rows[i], r) /\ SameContent(rows[i], r))
      BY <3>1, <1>5 DEF Duplicate, SameIdentity, SameContent
    <3> QED  BY <3>2, <3>3 DEF NewRow
  <2>5. RowsDistinct' /\ MarksFollow' /\ RowsKept
    <3>1. \A n \in 1..1 : NewRow(rows'[Len(rows) + n])
      BY <2>3, <2>4
    <3>2. \A n, k \in 1..1 : n = k
      OBVIOUS
    <3>3. clock' \in Nat /\ clock' >= clock /\ 1 \in Nat
      BY <1>2, <1>3
    <3> QED  BY <2>3, <3>1, <3>2, <3>3, ExtensionKeepsRows
  <2>6. TypeOK' /\ SnapsPast' /\ SnapsKept
    BY <1>2, <1>3, <2>3 DEF PitInv, TypeOK, SnapsPast, SnapsKept
  <2> QED  BY <2>5, <2>6 DEF PitInv
<1> QED  BY <1>4, <1>5

LEMMA MarkKeeps ==
  ASSUME PitInv, NEW h \in Arts, MarkArtifactMissing(h)
  PROVE  PitInv' /\ RowsKept /\ SnapsKept
<1>1. TypeOK /\ Ids = 1..Len(rows) /\ Len(rows) \in Nat
      /\ clock \in Nat /\ clock' = clock /\ snaps' = snaps
  BY DEF PitInv, TypeOK, Ids, MarkArtifactMissing
<1>a. PICK m \in Nat : \E s \in [1..m -> ToMark(h)] : Marked(h, m, s)
  BY <1>1, MarkAppends
<1>b. PICK s \in [1..m -> ToMark(h)] : Marked(h, m, s)
  BY <1>a
<1>2. /\ \A n, k \in 1..m : n < k => s[n] < s[k]
      /\ rows' \in Seq(Row)
      /\ Len(rows') = Len(rows) + m
      /\ \A i \in Ids : rows'[i] = rows[i]
      /\ \A n \in 1..m : rows'[Len(rows) + n] = Stored(Correction(rows[s[n]]))
  BY <1>b DEF Marked
<1>3. ASSUME NEW n \in 1..m
      PROVE  /\ s[n] \in Ids /\ s[n] \in ToMark(h)
             /\ NewRow(rows'[Len(rows) + n])
             /\ SameIdentity(rows'[Len(rows) + n], rows[s[n]])
             /\ rows'[Len(rows) + n].art = rows[s[n]].art
             /\ rows[s[n]].given = {}
  <2>1. PICK i \in Ids : /\ i = s[n] /\ i \in ToMark(h)
                         /\ rows[i].art = h /\ Missing \notin rows[i].flags
                         /\ ~Duplicate(Correction(rows[i]))
    BY DEF ToMark, Missing
  <2>2. rows[i] \in Row
    BY <1>1, TypedRow
  <2>3. PICK c \in Row : c = Correction(rows[i])
    BY <1>1, <2>2, CorrectionIsRow
  <2>4. PICK r \in Row : r = rows'[Len(rows) + n] /\ r = Stored(c)
    BY <1>2, <2>1, <2>3, StoredIsRow
  <2>5. /\ SameIdentity(c, rows[i]) /\ c.art = rows[i].art
        /\ c.given = rows[i].flags \cup {Missing}
        /\ c.flags = rows[i].flags \cup {Missing}
        /\ c.avail = IF clock > rows[i].avail THEN clock ELSE rows[i].avail
    BY <1>1, <2>2, <2>3, CorrectionIsRow
  <2>6. /\ SameIdentity(r, c) /\ SameContent(r, c) /\ r.avail = c.avail
        /\ c.flags \subseteq r.flags
    BY <2>4, StoredIsRow
  <2>7. Marks(r, i, clock)
    BY <1>1, <2>1, <2>2, <2>5, <2>6 DEF Marks, SameIdentity, SameContent, Row
  <2>8. \A j \in Ids : ~(SameIdentity(rows[j], r) /\ SameContent(rows[j], r))
    BY <2>1, <2>3, <2>6 DEF Duplicate, SameIdentity, SameContent
  <2>9. r.given \subseteq r.flags
    BY <2>5, <2>6 DEF SameContent
  <2>10. NewRow(r)
    BY <2>1, <2>7, <2>8, <2>9 DEF NewRow
  <2>11. rows[i].given = {}
    <3>1. ASSUME NEW j \in 1..(i - 1), Marks(rows[i], j, clock)
          PROVE  FALSE
      <4>1. Missing \in rows[i].given /\ rows[i].given \subseteq rows[i].flags
        BY <3>1 DEF Marks, PitInv, MarksFollow
      <4> QED  BY <4>1, <2>1
    <3> QED  BY <3>1 DEF PitInv, MarksFollow
  <2>12. SameIdentity(r, rows[i]) /\ r.art = rows[i].art
    BY <2>5, <2>6 DEF SameIdentity, SameContent
  <2> QED  BY <2>1, <2>4, <2>10, <2>11, <2>12
<1>4. ASSUME NEW n \in 1..m, NEW k \in 1..m,
             SameIdentity(rows'[Len(rows) + n], rows'[Len(rows) + k])
      PROVE  n = k
  <2>1. SameIdentity(rows[s[n]], rows[s[k]])
    BY <1>3, <1>4 DEF SameIdentity
  <2>2. SameContent(rows[s[n]], rows[s[k]])
    BY <1>3 DEF SameContent, ToMark
  <2>3. s[n] = s[k]
    BY <1>3, <2>1, <2>2 DEF PitInv, RowsDistinct
  <2>4. s[n] \in Int /\ ~(n < k) /\ ~(k < n)
    BY <1>1, <1>2, <1>3, <2>3
  <2> QED  BY <2>4
<1>5. RowsDistinct' /\ MarksFollow' /\ RowsKept
  <2>1. clock' \in Nat /\ clock' >= clock
    BY <1>1
  <2>2. \A n \in 1..m : NewRow(rows'[Len(rows) + n])
    BY <1>3
  <2> QED  BY <1>2, <1>4, <2>1, <2>2, ExtensionKeepsRows
<1>6. TypeOK' /\ SnapsPast' /\ SnapsKept
  <2>1. snaps \in Seq(Nat) /\ m \in Nat
    BY <1>1 DEF TypeOK
  <2>2. TypeOK'
    BY <1>1, <1>2, <2>1 DEF TypeOK
  <2>3. ASSUME NEW n \in DOMAIN snaps
        PROVE  snaps[n] <= Len(rows')
    <3>1. snaps[n] <= Len(rows) /\ snaps[n] \in Nat
      BY <2>1 DEF PitInv, SnapsPast
    <3> QED  BY <3>1, <2>1, <1>1, <1>2
  <2> QED  BY <1>1, <2>2, <2>3 DEF SnapsPast, SnapsKept
<1> QED  BY <1>5, <1>6 DEF PitInv

LEMMA SnapshotKeeps ==
  ASSUME PitInv, CreateSnapshot
  PROVE  PitInv' /\ RowsKept /\ SnapsKept
<1>1. /\ rows' = rows /\ clock' = clock /\ snaps' = Append(snaps, Len(rows))
      /\ snaps \in Seq(Nat) /\ Len(rows) \in Nat
  BY DEF CreateSnapshot, PitInv, TypeOK
<1>2. /\ snaps' \in Seq(Nat) /\ Len(snaps') = Len(snaps) + 1
      /\ \A n \in 1..Len(snaps) : snaps'[n] = snaps[n]
      /\ snaps'[Len(snaps) + 1] = Len(rows)
  BY <1>1, AppendProperties
<1>3. SnapsKept /\ SnapsPast'
  BY <1>1, <1>2 DEF PitInv, SnapsPast, SnapsKept
<1> QED
  BY <1>1, <1>2, <1>3 DEF PitInv, TypeOK, RowsDistinct, MarksFollow, Marks,
                          SameIdentity, SameContent, RowsKept, Ids

LEMMA AdvanceKeeps ==
  ASSUME PitInv, Advance
  PROVE  PitInv' /\ RowsKept /\ SnapsKept
<1>1. rows' = rows /\ snaps' = snaps /\ clock' = clock + 1 /\ clock \in Nat
      /\ rows \in Seq(Row)
  BY DEF Advance, PitInv, TypeOK
<1>2. RowsDistinct' /\ MarksFollow' /\ RowsKept
  <2>1. /\ 0 \in Nat /\ clock' \in Nat /\ clock' >= clock
        /\ rows' \in Seq(Row) /\ Len(rows') = Len(rows) + 0
        /\ \A i \in Ids : rows'[i] = rows[i]
        /\ 1..0 = {}
    BY <1>1
  <2> QED  BY <2>1, ExtensionKeepsRows
<1> QED
  BY <1>1, <1>2 DEF PitInv, TypeOK, SnapsPast, SnapsKept

LEMMA StepKeeps == PitInv /\ [Next]_vars => PitInv' /\ RowsKept /\ SnapsKept
<1> SUFFICES ASSUME PitInv, [Next]_vars
             PROVE  PitInv' /\ RowsKept /\ SnapsKept
  OBVIOUS
<1>1. ASSUME NEW loc \in Locators, NEW art \in Arts, NEW avail \in 0..(clock + 1),
             NEW vintage \in Vintages, Observe(loc, art, avail, vintage)
      PROVE  PitInv' /\ RowsKept /\ SnapsKept
  <2>1. avail \in Nat
    BY DEF PitInv, TypeOK
  <2> QED  BY <1>1, <2>1, ObserveKeeps
<1>2. ASSUME NEW h \in Arts, MarkArtifactMissing(h)
      PROVE  PitInv' /\ RowsKept /\ SnapsKept
  BY <1>2, MarkKeeps
<1>3. CASE CreateSnapshot
  BY <1>3, SnapshotKeeps
<1>4. CASE Advance
  BY <1>4, AdvanceKeeps
<1>5. CASE UNCHANGED vars
  BY <1>5 DEF vars, PitInv, TypeOK, SnapsPast, RowsDistinct, MarksFollow, Marks,
              SameIdentity, SameContent, RowsKept, SnapsKept, Ids
<1> QED
  BY <1>1, <1>2, <1>3, <1>4, <1>5 DEF Next

(* The clock is a time, the rows and the snapshots are sequences.          *)
THEOREM TypeCorrect == Spec => []TypeOK
<1>1. Init => PitInv
  BY DEF Init, PitInv, TypeOK, SnapsPast, RowsDistinct, MarksFollow, Ids
<1>2. PitInv /\ [Next]_vars => PitInv'
  BY StepKeeps
<1>3. PitInv => TypeOK
  BY DEF PitInv
<1> QED  BY <1>1, <1>2, <1>3, PTL DEF Spec

-----------------------------------------------------------------------------
(* Earlier decisions.                                                      *)

(* The answer depends on the candidates' rows alone.                       *)
Answer(ids) == {i \in Collapsed(ids) : Missing \notin rows[i].flags}

LEMMA CandidatesDecide ==
  ASSUME RowsKept, NEW C \in SUBSET Ids
  PROVE  Answer(C)' = Answer(C)
<1>1. \A i \in C : rows'[i] = rows[i]
  BY DEF RowsKept
<1>2. PICK D : D = Collapsed(C)
  OBVIOUS
<1>3. D \subseteq C /\ Collapsed(C)' = D
  BY <1>1, <1>2 DEF Collapsed, SameKey, Supersedes
<1> QED
  BY <1>1, <1>2, <1>3 DEF Answer

(* What a query scoped to the first max rows gets depends on them alone.   *)
LEMMA PrefixDecides ==
  ASSUME RowsKept, TypeOK, TypeOK', NEW t, NEW max \in Nat, max <= Len(rows)
  PROVE  AsOf(t, max)' = AsOf(t, max)
<1>1. Ids = 1..Len(rows) /\ Len(rows) \in Nat /\ Ids' = 1..Len(rows') /\ Len(rows') \in Nat
  BY DEF TypeOK, Ids
<1>2. PICK C \in SUBSET Ids : C = Candidates(t, max)
  BY DEF Candidates
<1>3. Candidates(t, max)' = C
  BY <1>1, <1>2 DEF Candidates, RowsKept
<1> QED
  BY <1>2, <1>3, CandidatesDecide DEF AsOf, Answer, Missing

(* Rows that come too late for a decision leave it as it was.              *)
LEMMA LateRowsIgnored ==
  ASSUME RowsKept, TypeOK, TypeOK', NEW t,
         \A i \in Ids' : i > Len(rows) => ~(rows'[i].avail <= t - Delay)
  PROVE  Now(t)' = Now(t)
<1>1. Ids = 1..Len(rows) /\ Len(rows) \in Nat /\ Ids' = 1..Len(rows') /\ Len(rows') \in Nat
  BY DEF TypeOK, Ids
<1>2. PICK C \in SUBSET Ids : C = Candidates(t, Len(rows))
  BY DEF Candidates
<1>3. Candidates(t, Len(rows))' = C
  BY <1>1, <1>2 DEF Candidates, RowsKept
<1> QED
  BY <1>2, <1>3, CandidatesDecide DEF Now, AsOf, Answer, Missing

(* What a snapshot gives, whatever the step.                               *)
LEMMA SnapshotsReproduce ==
  ASSUME PitInv, PitInv', RowsKept, SnapsKept, NEW t, NEW n \in DOMAIN snaps
  PROVE  AsOf(t, snaps[n])' = AsOf(t, snaps[n])
<1>1. PICK max \in Nat : max = snaps[n] /\ max <= Len(rows)
  BY DEF PitInv, TypeOK, SnapsPast
<1>2. snaps'[n] = max
  BY <1>1 DEF SnapsKept
<1>3. AsOf(t, max)' = AsOf(t, max)
  BY <1>1, PrefixDecides DEF PitInv
<1> QED
  BY <1>1, <1>2, <1>3

(* A quarantine is not available before it is made.                        *)
LEMMA QuarantineIsLater ==
  ASSUME PitInv, PitInv', RowsKept, NEW h \in Arts, MarkArtifactMissing(h),
         NEW t \in Nat, t < clock + Delay
  PROVE  Now(t)' = Now(t)
<1>1. TypeOK /\ TypeOK' /\ Len(rows) \in Nat /\ clock \in Nat /\ Delay \in Nat
  BY SourceAssumption DEF PitInv, TypeOK
<1>2. PICK m \in Nat : \E s \in [1..m -> ToMark(h)] : Marked(h, m, s)
  BY <1>1, MarkAppends
<1>3. PICK s \in [1..m -> ToMark(h)] : Marked(h, m, s)
  BY <1>2
<1>4. ASSUME NEW i \in Ids', i > Len(rows)
      PROVE  ~(rows'[i].avail <= t - Delay)
  <2>1. PICK n \in 1..m : i = Len(rows) + n
    <3>1. i \in 1..(Len(rows) + m) /\ Len(rows') = Len(rows) + m
      BY <1>3, <1>1 DEF Ids, Marked, TypeOK
    <3>2. i - Len(rows) \in 1..m /\ i = Len(rows) + (i - Len(rows))
      BY <3>1, <1>1, <1>4
    <3> QED  BY <3>2
  <2>2. PICK j \in Ids : j = s[n]
    BY DEF ToMark
  <2>3. rows[j] \in Row
    BY <1>1, TypedRow
  <2>4. Correction(rows[j]) \in Row /\ Correction(rows[j]).avail >= clock
    BY <1>1, <2>3, CorrectionIsRow DEF Row
  <2>5. rows'[i] = Stored(Correction(rows[j]))
    BY <1>3, <2>1, <2>2 DEF Marked
  <2>6. rows'[i].avail >= clock /\ rows'[i].avail \in Nat
    BY <2>4, <2>5, StoredIsRow DEF Row
  <2> QED  BY <2>6, <1>1
<1> QED
  BY <1>1, <1>4, LateRowsIgnored

(* What a decision was given can be given again: every step leaves what    *)
(* each snapshot gives, and a quarantine what is decided before it has     *)
(* passed the processing delay.                                            *)
THEOREM PastIsReproduced == Spec => PastReproduces
<1>1. Init => PitInv
  BY DEF Init, PitInv, TypeOK, SnapsPast, RowsDistinct, MarksFollow, Ids
<1>2. PitInv /\ [Next]_vars => PitInv'
  BY StepKeeps
<1> DEFINE Reproduced ==
      \A t \in Decisions :
        /\ \A n \in DOMAIN snaps : AsOf(t, snaps[n])' = AsOf(t, snaps[n])
        /\ (t < clock + Delay /\ \E h \in Arts : MarkArtifactMissing(h)) => Now(t)' = Now(t)
<1>3. PitInv /\ [Next]_vars => [Reproduced]_vars
  <2> SUFFICES ASSUME PitInv, [Next]_vars
               PROVE  Reproduced
    OBVIOUS
  <2>1. PitInv' /\ RowsKept /\ SnapsKept
    BY StepKeeps
  <2>2. \A t \in Decisions : t \in Nat
    BY SourceAssumption, BoundsAssumption DEF Decisions
  <2> QED
    BY <2>1, <2>2, SnapshotsReproduce, QuarantineIsLater
<1> HIDE DEF Reproduced
<1>4. Spec => [][Reproduced]_vars
  BY <1>1, <1>2, <1>3, PTL DEF Spec
<1> QED
  BY <1>4 DEF Reproduced, PastReproduces

-----------------------------------------------------------------------------
(* Quarantines.                                                            *)

(* A row that has a correction already is hidden by it.                    *)
LEMMA EarlierMarkHides ==
  ASSUME PitInv, NEW i \in Ids, Missing \notin rows[i].flags,
         Duplicate(Correction(rows[i]))
  PROVE  \E k \in Ids : /\ k > i /\ SameIdentity(rows[k], rows[i])
                        /\ Missing \in rows[k].flags
                        /\ rows[k].avail <= clock \/ rows[k].avail <= rows[i].avail
<1>1. TypeOK /\ Ids = 1..Len(rows) /\ Len(rows) \in Nat /\ clock \in Nat
  BY DEF PitInv, TypeOK, Ids
<1>2. rows[i] \in Row
  BY <1>1, TypedRow
<1>3. PICK k \in Ids : SameIdentity(rows[k], Correction(rows[i]))
                       /\ SameContent(rows[k], Correction(rows[i]))
  BY DEF Duplicate
<1>4. /\ SameIdentity(rows[k], rows[i]) /\ rows[k].art = rows[i].art
      /\ rows[k].given = rows[i].flags \cup {Missing}
  BY <1>1, <1>2, <1>3, CorrectionIsRow DEF SameIdentity, SameContent
<1>5. Missing \in rows[k].flags /\ rows[k].given # {}
  BY <1>4 DEF PitInv, MarksFollow
<1>6. PICK j \in 1..(k - 1) : Marks(rows[k], j, clock)
  BY <1>5 DEF PitInv, MarksFollow
<1>7. j \in Ids /\ j < k
  BY <1>1, <1>6
<1>8. j = i
  <2>1. SameIdentity(rows[j], rows[i]) /\ rows[j].art = rows[i].art
    BY <1>4, <1>6 DEF Marks, SameIdentity
  <2>2. \A x \in Ids : Missing \notin rows[x].flags => rows[x].given = {}
    BY DEF PitInv, MarksFollow, Marks
  <2>3. rows[j].given = rows[i].given
    BY <1>6, <1>7, <2>2 DEF Marks
  <2> QED  BY <1>7, <2>1, <2>3 DEF PitInv, RowsDistinct, SameContent
<1> QED
  BY <1>1, <1>4, <1>5, <1>6, <1>7, <1>8 DEF Marks

(* After the step that quarantines h, an answer to a decision past the     *)
(* delay holds no row of h: the row is a correction, has had one or is     *)
(* given one, and corrections hide.                                        *)
LEMMA NoQuarantinedRow ==
  ASSUME PitInv, PitInv', RowsKept, NEW h \in Arts, MarkArtifactMissing(h),
         NEW t \in Nat, t >= clock + Delay,
         NEW i \in Now(t)', rows'[i].art = h
  PROVE  FALSE
<1>1. /\ TypeOK /\ TypeOK' /\ Delay \in Nat /\ clock \in Nat
      /\ Ids = 1..Len(rows) /\ Len(rows) \in Nat /\ Ids' = 1..Len(rows')
  BY SourceAssumption DEF PitInv, TypeOK, Ids
<1>2. PICK m \in Nat : \E s \in [1..m -> ToMark(h)] : Marked(h, m, s)
  BY <1>1, MarkAppends
<1>3. PICK s \in [1..m -> ToMark(h)] : Marked(h, m, s)
  BY <1>2
<1>4. PICK C : C = Candidates(t, Len(rows))'
  OBVIOUS
<1>5. C = {k \in Ids' : rows'[k].avail <= t - Delay /\ rows'[k].vintage <= t - Delay}
  BY <1>1, <1>4 DEF Candidates
<1>6. /\ i \in C /\ Missing \notin rows'[i].flags
      /\ \A k \in C \ {i} : SameKey(rows'[i], rows'[k]) =>
           \/ rows'[i].vintage > rows'[k].vintage
           \/ rows'[i].vintage = rows'[k].vintage /\ i > k
  BY <1>4 DEF Now, AsOf, Collapsed, Supersedes, Missing
<1>7. ASSUME NEW k \in Ids', k > i, SameIdentity(rows'[k], rows'[i]),
             rows'[k].avail <= clock \/ rows'[k].avail <= rows'[i].avail
      PROVE  FALSE
  <2>1. /\ rows'[i] \in Row /\ rows'[k] \in Row
    BY <1>1, <1>5, <1>6 DEF TypeOK
  <2>2. rows'[k].vintage = rows'[i].vintage /\ rows'[i].vintage \in Int
    <3>1. rows'[i].vintage \in Vintages
      BY <2>1 DEF Row
    <3>2. \A v \in Vintages : v \in Int
      BY SourceAssumption DEF Never
    <3> QED  BY <1>7, <3>1, <3>2 DEF SameIdentity
  <2>3. rows'[k].avail <= t - Delay /\ i # k
    BY <1>1, <1>5, <1>6, <1>7, <2>1 DEF Row
  <2>4. SameKey(rows'[i], rows'[k])
    BY <1>7 DEF SameKey, SameIdentity
  <2>5. k \in C \ {i}
    BY <1>5, <1>6, <1>7, <2>2, <2>3
  <2>6. i \in Int /\ k \in Int
    BY <1>1, <1>5, <1>6
  <2> QED  BY <1>6, <1>7, <2>2, <2>4, <2>5, <2>6
<1>8. CASE i \in Ids
  <2>1. rows'[i] = rows[i] /\ rows[i] \in Row
    BY <1>1, <1>8, TypedRow DEF RowsKept
  <2>2. ASSUME Duplicate(Correction(rows[i]))
        PROVE  FALSE
    <3>1. PICK k \in Ids : /\ k > i /\ SameIdentity(rows[k], rows[i])
                           /\ rows[k].avail <= clock \/ rows[k].avail <= rows[i].avail
      BY <1>6, <1>8, <2>1, <2>2, EarlierMarkHides
    <3> QED  BY <3>1, <2>1, <1>7 DEF RowsKept
  <2>3. ASSUME ~Duplicate(Correction(rows[i]))
        PROVE  FALSE
    <3>1. i \in ToMark(h)
      BY <1>6, <1>8, <2>1, <2>3 DEF ToMark, Missing
    <3>2. PICK n \in 1..m : s[n] = i
      BY <1>3, <3>1 DEF Marked
    <3>3. PICK k \in Ids' : k = Len(rows) + n /\ k > i
      <4>1. Len(rows') = Len(rows) + m
        BY <1>3 DEF Marked
      <4>2. i \in 1..Len(rows)
        BY <1>1, <1>8
      <4>3. Len(rows) + n \in 1..Len(rows') /\ Len(rows) + n > i
        BY <1>1, <4>1, <4>2
      <4> QED  BY <1>1, <4>3
    <3>4. rows'[k] = Stored(Correction(rows[i]))
      BY <1>3, <3>2, <3>3 DEF Marked
    <3>5. /\ Correction(rows[i]) \in Row /\ SameIdentity(Correction(rows[i]), rows[i])
          /\ Correction(rows[i]).avail <= clock \/ Correction(rows[i]).avail <= rows[i].avail
      <4>1. PICK r \in Row, c \in Nat : r = rows[i] /\ c = clock
        BY <1>1, <2>1
      <4>2. /\ Correction(r) \in Row /\ SameIdentity(Correction(r), r)
            /\ Correction(r).avail = IF c > r.avail THEN c ELSE r.avail
        BY <4>1, CorrectionIsRow, Zenon
      <4>3. r.avail \in Nat
        BY <4>1 DEF Row
      <4>4. Correction(r).avail <= c \/ Correction(r).avail <= r.avail
        BY <4>1, <4>2, <4>3
      <4> QED  BY <4>1, <4>2, <4>4, Zenon
    <3>6. SameIdentity(rows'[k], rows'[i])
          /\ (rows'[k].avail <= clock \/ rows'[k].avail <= rows'[i].avail)
      BY <2>1, <3>4, <3>5, StoredIsRow DEF SameIdentity
    <3> QED  BY <3>3, <3>6, <1>7
  <2> QED  BY <2>2, <2>3
<1>9. CASE i \notin Ids
  <2>1. PICK n \in 1..m : i = Len(rows) + n
    <3>1. i \in 1..(Len(rows) + m) /\ i > Len(rows)
      BY <1>1, <1>3, <1>5, <1>6, <1>9 DEF Marked
    <3>2. i - Len(rows) \in 1..m /\ i = Len(rows) + (i - Len(rows))
      BY <3>1, <1>1
    <3> QED  BY <3>2
  <2>2. PICK j \in Ids : j = s[n]
    BY DEF ToMark
  <2>3. rows[j] \in Row /\ rows'[i] = Stored(Correction(rows[j]))
    BY <1>1, <1>3, <2>1, <2>2, TypedRow DEF Marked
  <2>4. Missing \in rows'[i].flags
    BY <1>1, <2>3, CorrectionIsRow, StoredIsRow
  <2> QED  BY <2>4, <1>6
<1> QED  BY <1>8, <1>9

(* Once the detection has passed the processing delay, no decision gets an *)
(* observation of the quarantined artifact, whatever was corrected, revised*)
(* or flagged before.                                                      *)
THEOREM QuarantineHolds == Spec => QuarantineExcludes
<1>1. Init => PitInv
  BY DEF Init, PitInv, TypeOK, SnapsPast, RowsDistinct, MarksFollow, Ids
<1>2. PitInv /\ [Next]_vars => PitInv'
  BY StepKeeps
<1> DEFINE Excluded ==
      \A h \in Arts, t \in Decisions :
        t >= clock + Delay /\ MarkArtifactMissing(h) => \A g \in Given(t)' : g[2] # h
<1>3. PitInv /\ [Next]_vars => [Excluded]_vars
  <2> SUFFICES ASSUME PitInv, [Next]_vars,
                      NEW h \in Arts, NEW t \in Decisions,
                      t >= clock + Delay, MarkArtifactMissing(h),
                      NEW g \in Given(t)', g[2] = h
               PROVE  FALSE
    OBVIOUS
  <2>1. PitInv' /\ RowsKept
    BY StepKeeps
  <2>2. t \in Nat
    BY SourceAssumption, BoundsAssumption DEF Decisions
  <2>3. PICK i \in Now(t)' : g = <<rows'[i].loc, rows'[i].art, rows'[i].vintage>>
    BY DEF Given
  <2>4. rows'[i].art = h
    BY <2>3
  <2> QED
    BY <2>1, <2>2, <2>4, NoQuarantinedRow
<1> HIDE DEF Excluded
<1>4. Spec => [][Excluded]_vars
  BY <1>1, <1>2, <1>3, PTL DEF Spec
<1> QED
  BY <1>4 DEF Excluded, QuarantineExcludes

=============================================================================
