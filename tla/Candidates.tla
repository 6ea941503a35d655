------------------------- MODULE Candidates -------------------------
(***************************************************************************)
(* Who may be bought: the members of the universe, and the candidates      *)
(* among them.                                                             *)
(***************************************************************************)
EXTENDS Ordered

-----------------------------------------------------------------------------
(***************************************************************************)
(* Date-effective membership (packages/core/src/universe/snapshots.ts). A  *)
(* row is an observation [id, universe, effective, avail, members, free].  *)
(***************************************************************************)

LabelsFor(free) == IF free THEN {} ELSE {"SURVIVORSHIP_BIASED"}

(* The members are a set, and never none; what repeats a row adds nothing. *)
AddSnapshot(rows, s) ==
  LET same == {r \in rows : r.universe = s.universe /\ r.effective = s.effective /\ r.members = s.members /\ r.free = s.free}
      row == [id |-> Cardinality(rows) + 1, universe |-> s.universe, effective |-> s.effective, avail |-> s.avail,
              members |-> s.members, free |-> s.free]
  IN IF s.members = {} \/ same # {} THEN rows ELSE rows \cup {row}

(* The newest that is available: by its own date, then by its row.         *)
MembersAsOf(rows, universe, decisionAt) ==
  LET seen == {r \in rows : r.universe = universe /\ r.avail <= decisionAt}
      best == {r \in seen : \A o \in seen : o.effective < r.effective \/ (o.effective = r.effective /\ o.id <= r.id)}
  IN {[members |-> r.members, labels |-> LabelsFor(r.free), snapshot |-> r.id] : r \in best}

-----------------------------------------------------------------------------
(***************************************************************************)
(* The charter's rule table (packages/core/src/strategy/candidates.ts):    *)
(* eligibility, the momentum ranking, the bands of entry and hold, the cap *)
(* of correlated clusters, the book size with incumbents first, and the    *)
(* fill of what a cluster cap left free.                                   *)
(***************************************************************************)

CONSTANTS EntryRank, HoldRank, MaxPositions, MaxNewPositions, MinAdv,
          Clusters,   \* disjoint sets of correlated entities
          MaxMembers, \* members of a cluster that may be held
          Missing,    \* the value of a feature that could not be computed
          EntityOrder \* entities in the order of their names

ASSUME RanksAssumption ==
  /\ EntryRank \in Nat /\ HoldRank \in Nat /\ HoldRank >= EntryRank
  /\ MaxPositions \in Nat \ {0} /\ MaxNewPositions \in Nat /\ MaxMembers \in Nat

ASSUME NamesAssumption == EntityOrder \in Seq(ToSet(EntityOrder)) /\ IsInjective(EntityOrder)

Ineligible(f, cashMom) ==
  CASE Missing \in {f.mom, f.trend, f.vol, f.px, f.adv} -> "NO_FEATURES"
    [] cashMom = Missing -> "CASH_HURDLE_UNAVAILABLE"
    [] f.trend = 0 -> "TREND_DOWN"
    [] f.mom <= cashMom -> "MOMENTUM_BELOW_CASH"
    [] f.adv < MinAdv -> "BELOW_ADV_FLOOR"
    [] OTHER -> "none"

(* By momentum, and by name on a tie: the names come in their order.       *)
SortedByMomentum(names, features) ==
  LET Sorted[k \in 0..Len(names)] ==
        IF k = 0 THEN <<>>
        ELSE Inserted(Sorted[k - 1], names[k], {e \in ToSet(names) : features[e].mom < features[names[k]].mom})
  IN Sorted[Len(names)]

Ranking(features, cashMom, restricted) ==
  LET eligible == {e \in DOMAIN features \ restricted : Ineligible(features[e], cashMom) = "none"}
  IN SortedByMomentum(Keeping(EntityOrder, {i \in DOMAIN EntityOrder : EntityOrder[i] \in eligible}), features)

RankOf(ranking, e) == CHOOSE k \in DOMAIN ranking : ranking[k] = e

InBand(ranking, held) ==
  Keeping(ranking, {k \in DOMAIN ranking : k <= IF ranking[k] \in held THEN HoldRank ELSE EntryRank})

Mates(e) == UNION {c \in Clusters : e \in c}

(* Strictly by rank: the first MaxMembers of a cluster in the band.        *)
ClusterCleared(inBand) ==
  Keeping(inBand, {k \in DOMAIN inBand :
    inBand[k] \in UNION Clusters =>
      Cardinality({j \in 1..(k - 1) : inBand[j] \in Mates(inBand[k])}) < MaxMembers})

Prefix(s, n) == SubSeq(s, 1, IF n < Len(s) THEN n ELSE Len(s))

(* Slip: the book is filled by rank alone, so the band of hold is dead.    *)
FillBookByRank(cleared, held) == Prefix(cleared, MaxPositions)

(* Incumbents keep their slots; newcomers take what is left, at most so    *)
(* many at one decision.                                                   *)
FillBook(cleared, held) ==
  LET incumbents == Prefix(Keeping(cleared, {k \in DOMAIN cleared : cleared[k] \in held}), MaxPositions)
      newcomers == Keeping(cleared, {k \in DOMAIN cleared : cleared[k] \notin held})
      free == MaxPositions - Len(incumbents)
  IN incumbents \o Prefix(newcomers, IF free < MaxNewPositions THEN free ELSE MaxNewPositions)

(* A slot a cluster skip left free goes to the next eligible names up to   *)
(* the hold rank.                                                          *)
Backfill(ranking, inBand, cleared, book, held) ==
  LET Slots(e, sel) == Cardinality({x \in ToSet(cleared) \cup (sel \ ToSet(book)) : x \in Mates(e)})
      Try(sel, rank, e) ==
        IF \/ Cardinality(sel) >= MaxPositions \/ e \in ToSet(inBand) \/ e \in held
           \/ rank > HoldRank
           \/ (e \in UNION Clusters /\ Slots(e, sel) >= MaxMembers)
           \/ Cardinality(sel \ held) >= MaxNewPositions
        THEN sel ELSE sel \cup {e}
      Filled[k \in 0..Len(ranking)] ==
        IF k = 0 THEN ToSet(book) ELSE Try(Filled[k - 1], k, ranking[k])
  IN IF cleared = inBand THEN ToSet(book) ELSE Filled[Len(ranking)]

SelectCandidates(features, cashMom, held, restricted) ==
  LET Chosen(ranking, inBand, cleared, selected) ==
        [selected |-> Keeping(ranking, {k \in DOMAIN ranking : ranking[k] \in selected}),
         exits |-> held \ selected, entries |-> selected \ held,
         ranking |-> ranking, clusterFull |-> ToSet(inBand) \ ToSet(cleared)]
      Cleared(ranking, inBand, cleared) ==
        Chosen(ranking, inBand, cleared, Backfill(ranking, inBand, cleared, FillBook(cleared, held), held))
      Banded(ranking, inBand) == Cleared(ranking, inBand, ClusterCleared(inBand))
      From(ranking) == Banded(ranking, InBand(ranking, held))
  IN From(Ranking(features, cashMom, restricted))

=============================================================================
