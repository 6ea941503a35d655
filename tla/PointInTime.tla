----------------------------- MODULE PointInTime -----------------------------
(***************************************************************************)
(* The point-in-time repository (packages/core/src/data/pit/repository.ts):*)
(* an append-only table of observations, the decision-time query over it,  *)
(* its frozen snapshots, and the quarantine of observations whose artifact *)
(* failed verification (data/artifacts/verify.ts).                         *)
(*                                                                         *)
(* One source, one entity and one effective time stand for all: rows of    *)
(* different ones never meet.  The artifact of an observation stands for   *)
(* its value too, since a parser is a function of the artifact.            *)
(***************************************************************************)
EXTENDS Integers, Sequences, FiniteSets, TLC, Ordered

CONSTANTS Locators,    \* source locators
          Arts,        \* raw content hashes
          Vintages,    \* vintages of the source, Never for none
          Delay,       \* processing delay of the source
          MaxTime,     \* bound on the clock
          MaxRows,     \* bound on the rows there are when one is observed
          MaxSnaps     \* bound on the number of snapshots

Never == -1

ASSUME SourceAssumption ==
  Delay \in Nat /\ Vintages \subseteq Nat \cup {Never}
ASSUME BoundsAssumption ==
  MaxTime \in Nat /\ MaxRows \in Nat /\ MaxSnaps \in Nat

VARIABLES clock,
          rows,     \* observations, by id
          snaps     \* pit_snapshots, their max_observation_id in order

vars == <<clock, rows, snaps>>

Init == clock = 0 /\ rows = <<>> /\ snaps = <<>>

-----------------------------------------------------------------------------
(* append.                                                                 *)

SameIdentity(a, b) == a.loc = b.loc /\ a.vintage = b.vintage

SameContent(a, b) == a.art = b.art /\ a.given = b.given

Ids == DOMAIN rows

Duplicate(obs) == \E i \in Ids : SameIdentity(rows[i], obs) /\ SameContent(rows[i], obs)

Conflict(obs) == \E i \in Ids : SameIdentity(rows[i], obs)

Stored(obs) ==
  [obs EXCEPT !.flags = @ \cup IF Conflict(obs) THEN {"CORRECTED"} ELSE {}]

AppendRow(obs) ==
  rows' = IF Duplicate(obs) THEN rows ELSE Append(rows, Stored(obs))

(* given holds the flags the row's value_hash was computed from.           *)
Observation(loc, art, avail, vintage) ==
  [loc |-> loc, art |-> art, avail |-> avail, vintage |-> vintage,
   flags |-> {}, given |-> {}]

-----------------------------------------------------------------------------
(* asOf, over the rows up to the id max.                                   *)

Candidates(t, max) ==
  {i \in Ids : /\ rows[i].avail <= t - Delay
               /\ rows[i].vintage <= t - Delay
               /\ i <= max}

(* Revisable rows are collapsed across locators.                           *)
SameKey(a, b) ==
  \/ a.vintage # Never /\ b.vintage # Never
  \/ a.vintage = Never /\ b.vintage = Never /\ a.loc = b.loc

Supersedes(i, j) ==
  \/ rows[i].vintage > rows[j].vintage
  \/ rows[i].vintage = rows[j].vintage /\ i > j

(* Slip: a superseded observation is kept when its successor is barred.    *)
CollapsedUnlessBarred(ids) ==
  {i \in ids : \A j \in ids \ {i} :
     SameKey(rows[i], rows[j]) /\ "ARTIFACT_MISSING" \notin rows[j].flags
       => Supersedes(i, j)}

Collapsed(ids) ==
  {i \in ids : \A j \in ids \ {i} :
     SameKey(rows[i], rows[j]) => Supersedes(i, j)}

(* Collapse first, then exclude.                                           *)
AsOf(t, max) ==
  {i \in Collapsed(Candidates(t, max)) :
     "ARTIFACT_MISSING" \notin rows[i].flags}

-----------------------------------------------------------------------------
(* markArtifactMissing.                                                    *)

(* Slip: the correction counts from when the observation was available.    *)
CorrectionBackdated(row) ==
  [row EXCEPT !.flags = @ \cup {"ARTIFACT_MISSING"},
              !.given = row.flags \cup {"ARTIFACT_MISSING"}]

(* Available from the detection, never earlier than the original.          *)
Correction(row) ==
  [row EXCEPT !.flags = @ \cup {"ARTIFACT_MISSING"},
              !.given = row.flags \cup {"ARTIFACT_MISSING"},
              !.avail = IF clock > @ THEN clock ELSE @]

(* The rows not flagged yet, current or superseded.  No two of them have   *)
(* the same correction.                                                    *)
ToMark(h) ==
  {i \in Ids : /\ rows[i].art = h
               /\ "ARTIFACT_MISSING" \notin rows[i].flags
               /\ ~Duplicate(Correction(rows[i]))}

MarkArtifactMissing(h) ==
  /\ \E s \in Listings(ToMark(h)) :
       rows' = rows \o [n \in DOMAIN s |-> Stored(Correction(rows[s[n]]))]
  /\ UNCHANGED <<clock, snaps>>

-----------------------------------------------------------------------------
(* What is published may be made available with a lag, or backfilled late. *)
Observe(loc, art, avail, vintage) ==
  /\ Len(rows) < MaxRows
  /\ AppendRow(Observation(loc, art, avail, vintage))
  /\ UNCHANGED <<clock, snaps>>

CreateSnapshot ==
  /\ Len(snaps) < MaxSnaps
  /\ snaps' = Append(snaps, Len(rows))
  /\ UNCHANGED <<clock, rows>>

Advance ==
  /\ clock < MaxTime
  /\ clock' = clock + 1
  /\ UNCHANGED <<rows, snaps>>

Next ==
  \/ \E loc \in Locators, art \in Arts, avail \in 0..(clock + 1),
        vintage \in Vintages :
       vintage <= avail /\ Observe(loc, art, avail, vintage)
  \/ \E h \in Arts : MarkArtifactMissing(h)
  \/ CreateSnapshot
  \/ Advance

Spec == Init /\ [][Next]_vars

-----------------------------------------------------------------------------
(* What the repository guarantees.                                         *)

Decisions == 0..(MaxTime + Delay + 1)

Now(t) == AsOf(t, Len(rows))

(* What a decision at t gets, as the artifacts it was given.               *)
Given(t) == {<<rows[i].loc, rows[i].art, rows[i].vintage>> : i \in Now(t)}

(* repository.ts:246, 191, 202: what a decision was given can be given
   again.  A query scoped to a snapshot ignores later rows, corrections and
   quarantines included; without one, a quarantine leaves every decision
   made before it has passed the processing delay as it was.               *)
PastReproduces ==
  [][\A t \in Decisions :
       /\ \A n \in DOMAIN snaps : AsOf(t, snaps[n])' = AsOf(t, snaps[n])
       /\ (t < clock + Delay /\ \E h \in Arts : MarkArtifactMissing(h)) => Now(t)' = Now(t)]_vars

(* repository.ts:188-191: once the detection has passed the processing
   delay, no decision gets an observation of the quarantined artifact,
   however it was corrected, revised or flagged before.                    *)
QuarantineExcludes ==
  [][\A h \in Arts, t \in Decisions :
       t >= clock + Delay /\ MarkArtifactMissing(h) =>
         \A g \in Given(t)' : g[2] # h]_vars

-----------------------------------------------------------------------------
(* The instance of TLC's run.                                              *)

Mixed == {Never, 1}

Symmetric == Permutations(Locators) \cup Permutations(Arts)

=============================================================================
