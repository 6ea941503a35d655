-------------------------------- MODULE Ordered --------------------------------
(***************************************************************************)
(* Sorting and filtering, as the code's queries and arrays do.             *)
(***************************************************************************)
EXTENDS Integers, FiniteSets, FiniteSetsExt, SequencesExt

(* f itself, compared with itself so that TLC computes it at every point   *)
(* of its domain once and for all.                                         *)
Tabulated(f) == CHOOSE g \in {f} : g = f

(* x put into s before the later ones: the step of an insertion sort.      *)
Inserted(s, x, later) ==
  LET n == Cardinality({i \in DOMAIN s : s[i] \notin later})
  IN Tabulated([i \in 1..(Len(s) + 1) |-> IF i <= n THEN s[i] ELSE IF i = n + 1 THEN x ELSE s[i - 1]])

(* The members of a finite set in the order in which after[x] are those    *)
(* that come after x: what an ORDER BY or a sort of rows returns.          *)
InOrder(S, after) ==
  LET Listed[T \in SUBSET S] ==
        IF T = {} THEN <<>> ELSE LET x == CHOOSE x \in T : TRUE IN Inserted(Listed[T \ {x}], x, after[x])
  IN Listed[S]

(* The ascending sequence of a finite set of integers, as a set of one for *)
(* use under \E.                                                           *)
Listings(S) ==
  {s \in [1..Cardinality(S) -> S] :
     /\ \A x \in S : \E n \in DOMAIN s : s[n] = x
     /\ \A m, n \in DOMAIN s : m < n => s[m] < s[n]}

(* The same for an order that is given as a set of pairs: each member at   *)
(* the place after those that come before it.                              *)
Ranked(S, R) ==
  [n \in 1..Cardinality(S) |-> CHOOSE e \in S : Cardinality({x \in S : <<x, e>> \in R}) = n - 1]

(* The same for an order that is given by a number for each member.        *)
RankedBy(S, key) ==
  LET place == Tabulated([e \in S |-> Cardinality({x \in S : key[x] < key[e]}) + 1])
  IN Tabulated([n \in 1..Cardinality(S) |-> CHOOSE e \in S : place[e] = n])

(* What a sequence has at some of its places, in its order.                *)
Keeping(s, places) ==
  LET kept == Ranked(places, {p \in places \X places : p[1] < p[2]})
  IN Tabulated([n \in DOMAIN kept |-> s[kept[n]]])

=============================================================================
