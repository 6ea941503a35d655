----------------------------- MODULE ShadowProofs -----------------------------
(***************************************************************************)
(* What the shadow loop guarantees for every market, every number of       *)
(* sessions and any number of troubles and re-arms.                        *)
(***************************************************************************)
EXTENDS ShadowLoop, FiniteSetTheorems, SequenceTheorems, FunctionTheorems, WellFoundedInduction, TLAPS

-----------------------------------------------------------------------------
(* Numbers and logs.                                                       *)

(* A nonempty set of naturals has a least member.                          *)
LEMMA LeastNat ==
  ASSUME NEW S \in SUBSET Nat, S # {}
  PROVE  \E n \in S : \A m \in S : n <= m
<1>1. PICK n \in S : \A m \in S : ~(<<m, n>> \in OpToRel(<, Nat))
  BY WFMin, NatLessThanWellFounded, Zenon
<1>2. \A m \in S : ~(m < n)
  BY <1>1, Zenon DEF OpToRel
<1> QED BY <1>2

(* A nonempty set of numbers up to a bound has a greatest member.          *)
LEMMA GreatestPlace ==
  ASSUME NEW n \in Nat, NEW S \in SUBSET (1..n), S # {}
  PROVE  \E i \in S : \A j \in S : j <= i
<1> DEFINE T == {n - i : i \in S}
<1>1. T \in SUBSET Nat /\ T # {}
  <2>1. ASSUME NEW i \in S PROVE n - i \in Nat
    <3>1. i \in 1..n
      OBVIOUS
    <3> QED BY <3>1
  <2> QED BY <2>1
<1>2. PICK t \in T : \A u \in T : t <= u
  BY <1>1, LeastNat
<1>3. PICK i \in S : t = n - i
  OBVIOUS
<1>4. ASSUME NEW j \in S PROVE j <= i
  <2>1. n - j \in T
    OBVIOUS
  <2>2. n - i <= n - j
    BY <1>2, <1>3, <2>1
  <2>3. i \in Int /\ j \in Int
    OBVIOUS
  <2> QED BY <2>2, <2>3
<1> QED BY <1>4

(* A log is a sequence, of whatever entries.                               *)
IsLog(q) == \E S : q \in Seq(S)

LEMMA LogPlaces ==
  ASSUME NEW q, IsLog(q)
  PROVE  Len(q) \in Nat /\ DOMAIN q = 1..Len(q)
<1>1. PICK S : q \in Seq(S)
  BY DEF IsLog
<1> QED BY <1>1

(* An appended entry changes none of those before it.                      *)
LEMMA AppendedLog ==
  ASSUME NEW q, IsLog(q), NEW x
  PROVE  /\ IsLog(Append(q, x)) /\ Len(q) \in Nat
         /\ DOMAIN q = 1..Len(q) /\ DOMAIN Append(q, x) = 1..(Len(q) + 1)
         /\ Len(Append(q, x)) = Len(q) + 1
         /\ \A i \in 1..Len(q) : Append(q, x)[i] = q[i]
         /\ Append(q, x)[Len(q) + 1] = x
<1>1. PICK S : q \in Seq(S)
  BY DEF IsLog
<1>2. PICK T : T = S \cup {x}
  OBVIOUS
<1>3. q \in Seq(T) /\ x \in T
  BY <1>1, <1>2
<1>4. Append(q, x) \in Seq(T)
  BY <1>3
<1> QED BY <1>3, <1>4 DEF IsLog

-----------------------------------------------------------------------------
(* The pending decisions, in their order.                                  *)

(* A part of a finite set that leaves a member out is smaller.             *)
LEMMA PartIsSmaller ==
  ASSUME NEW S, IsFiniteSet(S), NEW T \in SUBSET S, NEW x \in S, x \notin T
  PROVE  /\ IsFiniteSet(T) /\ Cardinality(T) \in Nat /\ Cardinality(S) \in Nat
         /\ Cardinality(T) < Cardinality(S)
<1>1. IsFiniteSet(T) /\ Cardinality(T) <= Cardinality(S) /\ (Cardinality(S) = Cardinality(T) => S = T)
  BY FS_Subset
<1>2. Cardinality(T) \in Nat /\ Cardinality(S) \in Nat
  BY <1>1, FS_CardinalityType
<1>3. S # T
  OBVIOUS
<1> QED BY <1>1, <1>2, <1>3

(* R orders S strictly and leaves no two members uncompared.               *)
StrictOrder(S, R) ==
  /\ \A x \in S : <<x, x>> \notin R
  /\ \A x, y, z \in S : <<x, y>> \in R /\ <<y, z>> \in R => <<x, z>> \in R
  /\ \A x, y \in S : x # y => <<x, y>> \in R \/ <<y, x>> \in R

(* Ranked lists every member once, after as many as come before it.        *)
LEMMA RankedLists ==
  ASSUME NEW S, IsFiniteSet(S), NEW R, StrictOrder(S, R)
  PROVE  /\ Cardinality(S) \in Nat
         /\ Ranked(S, R) \in [1..Cardinality(S) -> S]
         /\ \A n \in 1..Cardinality(S) : Cardinality({x \in S : <<x, Ranked(S, R)[n]>> \in R}) = n - 1
         /\ \A m, n \in 1..Cardinality(S) : Ranked(S, R)[m] = Ranked(S, R)[n] => m = n
         /\ \A e \in S : \E n \in 1..Cardinality(S) : Ranked(S, R)[n] = e
<1> DEFINE Below(e) == {x \in S : <<x, e>> \in R}
           f == [e \in S |-> Cardinality(Below(e)) + 1]
           N == Cardinality(S)
<1>1. N \in Nat
  BY FS_CardinalityType
<1>2. ASSUME NEW e \in S PROVE Cardinality(Below(e)) \in Nat /\ Cardinality(Below(e)) < N /\ IsFiniteSet(Below(e))
  <2>1. Below(e) \in SUBSET S /\ e \notin Below(e)
    BY DEF StrictOrder
  <2> HIDE DEF Below
  <2> QED BY <2>1, PartIsSmaller
<1>3. ASSUME NEW x \in S, NEW y \in S, <<x, y>> \in R PROVE Cardinality(Below(x)) < Cardinality(Below(y))
  <2>1. Below(x) \in SUBSET Below(y) /\ x \in Below(y) /\ x \notin Below(x)
    BY <1>3 DEF StrictOrder
  <2>2. IsFiniteSet(Below(y))
    BY <1>2
  <2> HIDE DEF Below
  <2> QED BY <2>1, <2>2, PartIsSmaller
<1>4. \A x, y \in S : Cardinality(Below(x)) = Cardinality(Below(y)) => x = y
  <2> SUFFICES ASSUME NEW x \in S, NEW y \in S, Cardinality(Below(x)) = Cardinality(Below(y)), x # y PROVE FALSE
    OBVIOUS
  <2>1. <<x, y>> \in R \/ <<y, x>> \in R
    BY DEF StrictOrder
  <2>2. Cardinality(Below(x)) \in Nat /\ Cardinality(Below(y)) \in Nat
    BY <1>2
  <2>3. Cardinality(Below(x)) < Cardinality(Below(y)) \/ Cardinality(Below(y)) < Cardinality(Below(x))
    BY <2>1, <1>3
  <2> HIDE DEF Below
  <2> QED BY <2>2, <2>3
<1> HIDE DEF Below
<1>5. f \in [S -> 1..N]
  BY <1>1, <1>2
<1>6. \A x, y \in S : f[x] = f[y] => x = y
  BY <1>2, <1>4
<1>7. f \in Injection(S, 1..N)
  BY <1>5, <1>6, Fun_IsInj
<1>8. IsFiniteSet(1..N) /\ Cardinality(1..N) = N
  <2>1. 1 \in Int /\ N \in Int
    BY <1>1
  <2>2. IsFiniteSet(1..N) /\ Cardinality(1..N) = IF 1 > N THEN 0 ELSE N - 1 + 1
    BY <2>1, FS_Interval
  <2> QED BY <2>2, <1>1
<1>9. f \in Surjection(S, 1..N)
  BY <1>7, <1>8, FS_Injection
<1>10. ASSUME NEW n \in 1..N PROVE \E e \in S : Cardinality(Below(e)) = n - 1
  <2>1. PICK e \in S : f[e] = n
    <3> HIDE DEF f
    <3> QED BY <1>9 DEF Surjection
  <2> QED BY <2>1, <1>1, <1>2
<1>11. Ranked(S, R) = [n \in 1..N |-> CHOOSE e \in S : Cardinality(Below(e)) = n - 1]
  BY DEF Ranked, Below
<1>12. ASSUME NEW n \in 1..N PROVE Ranked(S, R)[n] \in S /\ Cardinality(Below(Ranked(S, R)[n])) = n - 1
  BY <1>10, <1>11
<1>13. Ranked(S, R) \in [1..N -> S]
  BY <1>11, <1>12
<1>14. \A m, n \in 1..N : Ranked(S, R)[m] = Ranked(S, R)[n] => m = n
  BY <1>1, <1>12
<1>15. ASSUME NEW e \in S PROVE \E n \in 1..N : Ranked(S, R)[n] = e
  <2>1. f[e] \in 1..N /\ f[e] - 1 = Cardinality(Below(e))
    BY <1>5, <1>2, <1>1
  <2>2. Ranked(S, R)[f[e]] \in S /\ Cardinality(Below(Ranked(S, R)[f[e]])) = Cardinality(Below(e))
    BY <2>1, <1>12
  <2>3. Ranked(S, R)[f[e]] = e
    BY <2>2, <1>4
  <2> QED BY <2>1, <2>3
<1> QED BY <1>1, <1>12, <1>13, <1>14, <1>15 DEF Below

(* Of two members the one that comes before has the earlier place.         *)
LEMMA RankedAscends ==
  ASSUME NEW S, IsFiniteSet(S), NEW R, StrictOrder(S, R),
         NEW m \in 1..Cardinality(S), NEW n \in 1..Cardinality(S), m < n
  PROVE  <<Ranked(S, R)[m], Ranked(S, R)[n]>> \in R
<1>1. PICK a \in S, b \in S : a = Ranked(S, R)[m] /\ b = Ranked(S, R)[n]
  BY RankedLists
<1>2. PICK A, B : A = {x \in S : <<x, a>> \in R} /\ B = {x \in S : <<x, b>> \in R}
  OBVIOUS
<1>3. Cardinality(A) = m - 1 /\ Cardinality(B) = n - 1
  BY <1>1, <1>2, RankedLists
<1>4. IsFiniteSet(A) /\ IsFiniteSet(B) /\ Cardinality(S) \in Nat
  BY <1>2, FS_Subset, FS_CardinalityType
<1>5. a # b
  <2>1. m - 1 # n - 1
    BY <1>4
  <2>2. A # B
    BY <1>3, <2>1
  <2> QED BY <2>2, <1>2
<1> SUFFICES ASSUME <<b, a>> \in R PROVE FALSE
  BY <1>1, <1>5 DEF StrictOrder
<1>6. B \in SUBSET A
  BY <1>2 DEF StrictOrder
<1>7. b \in A /\ b \notin B
  BY <1>2 DEF StrictOrder
<1>8. Cardinality(B) < Cardinality(A)
  BY <1>4, <1>6, <1>7, PartIsSmaller
<1> QED BY <1>3, <1>4, <1>8

(* An arm seals one decision of a session.                                 *)
SealedOnce ==
  /\ IsFiniteSet(sealed)
  /\ \A d \in sealed : d.arm \in Arms /\ d.session \in Int
  /\ \A d, e \in sealed : d.arm = e.arm /\ d.session = e.session => d = e

PendingSet(s) == {d \in sealed : ~Recorded(outcomes, d) /\ FillDueSession(d.session) <= s}

(* The pending decisions are listed once each and oldest first.            *)
LEMMA PendingAreListed ==
  ASSUME SealedOnce, NEW s
  PROVE  LET q == PendingDecisions(s)
         IN /\ Len(q) \in Nat /\ q \in [1..Len(q) -> PendingSet(s)]
            /\ \A d \in PendingSet(s) : \E n \in 1..Len(q) : q[n] = d
            /\ \A m, n \in 1..Len(q) : m < n => DecisionBefore(q[m], q[n])
<1>1. PICK P, R : P = PendingSet(s) /\ R = {p \in P \X P : DecisionBefore(p[1], p[2])}
  OBVIOUS
<1>2. \A a, b \in P : <<a, b>> \in R <=> DecisionBefore(a, b)
  BY <1>1
<1>3. P \in SUBSET sealed
  BY <1>1 DEF PendingSet
<1>4. IsFiniteSet(P)
  BY <1>3, FS_Subset DEF SealedOnce
<1>5. \A a \in P : a.arm \in Arms /\ a.session \in Int
  BY <1>3 DEF SealedOnce
<1>6. \A a, b \in P : a.arm = b.arm /\ a.session = b.session => a = b
  BY <1>3 DEF SealedOnce
<1>7. StrictOrder(P, R)
  <2>1. \A a \in P : <<a, a>> \notin R
    BY <1>2, <1>5 DEF DecisionBefore
  <2>2. ASSUME NEW a \in P, NEW b \in P, NEW c \in P, <<a, b>> \in R, <<b, c>> \in R
        PROVE  <<a, c>> \in R
    <3>1. a.session \in Int /\ b.session \in Int /\ c.session \in Int
      BY <1>5
    <3>2. DecisionBefore(a, b) /\ DecisionBefore(b, c)
      BY <1>2, <2>2
    <3>3. DecisionBefore(a, c)
      BY <3>1, <3>2 DEF DecisionBefore
    <3> QED BY <1>2, <3>3
  <2>3. ASSUME NEW a \in P, NEW b \in P, a # b
        PROVE  <<a, b>> \in R \/ <<b, a>> \in R
    <3>1. a.arm # b.arm \/ a.session # b.session
      BY <1>6, <2>3
    <3>2. DecisionBefore(a, b) \/ DecisionBefore(b, a)
      BY <3>1, <1>5 DEF DecisionBefore, Arms
    <3> QED BY <1>2, <3>2
  <2> QED BY <2>1, <2>2, <2>3 DEF StrictOrder
<1>8. PICK q : q = Ranked(P, R)
  OBVIOUS
<1>9. PendingDecisions(s) = q
  BY <1>1, <1>8 DEF PendingDecisions, PendingSet
<1>10. PICK N \in Nat : N = Cardinality(P)
  BY <1>4, FS_CardinalityType
<1>11. q \in [1..N -> P] /\ \A d \in P : \E n \in 1..N : q[n] = d
  BY <1>4, <1>7, <1>8, <1>10, RankedLists
<1>12. Len(q) = N
  <2>1. q \in Seq(P)
    BY <1>11, SeqDef
  <2> QED BY <2>1, <1>11, LenProperties
<1>13. ASSUME NEW m \in 1..N, NEW n \in 1..N, m < n PROVE DecisionBefore(q[m], q[n])
  <2>1. <<q[m], q[n]>> \in R
    BY <1>4, <1>7, <1>8, <1>10, <1>13, RankedAscends
  <2> QED BY <2>1, <1>2, <1>11
<1> QED BY <1>1, <1>9, <1>11, <1>12, <1>13

-----------------------------------------------------------------------------
(* The fills of a decision.                                                *)
-----------------------------------------------------------------------------
(* Lists made of lists and of sets.                                        *)

(* Computed once or each time, it is the same function.                    *)
LEMMA TabulatedIs ==
  ASSUME NEW f
  PROVE  Tabulated(f) = f
<1> QED BY DEF Tabulated

(* The places 1..n are those of a sequence of length n.                    *)
LEMMA PlacesCount ==
  ASSUME NEW s, NEW n \in Nat, s = [i \in 1..n |-> s[i]]
  PROVE  IsLog(s) /\ Len(s) = n
<1>1. PICK S : S = {s[i] : i \in 1..n}
  OBVIOUS
<1>2. s \in [1..n -> S]
  BY <1>1
<1>3. s \in Seq(S)
  BY <1>2, SeqDef
<1>4. DOMAIN s = 1..Len(s) /\ Len(s) \in Nat
  BY <1>3
<1>5. PICK k : k = Len(s)
  OBVIOUS
<1>6. 1..n = 1..k
  <2>1. DOMAIN s = 1..n
    BY <1>2
  <2> QED BY <1>4, <1>5, <2>1, Zenon
<1>7. k \in Nat
  BY <1>4, <1>5, Zenon
<1>8. ~(n < k) /\ ~(k < n)
  <2>1. n < k => k \in 1..k /\ k \notin 1..n
    BY <1>7
  <2>2. k < n => n \in 1..n /\ n \notin 1..k
    BY <1>7
  <2> QED BY <2>1, <2>2, <1>6
<1> QED BY <1>3, <1>5, <1>7, <1>8 DEF IsLog

(* What a function makes of finitely many points is finitely many.         *)
LEMMA ImageIsFinite ==
  ASSUME NEW S, IsFiniteSet(S), NEW f
  PROVE  IsFiniteSet({f[x] : x \in S})
<1>1. PICK g : g = [x \in S |-> f[x]]
  OBVIOUS
<1>2. g \in Surjection(S, {f[x] : x \in S})
  BY <1>1 DEF Surjection
<1> QED BY <1>2, FS_Surjection

(* A log of members of T.                                                  *)
LogOf(q, T) == IsLog(q) /\ \A i \in 1..Len(q) : q[i] \in T

LEMMA LogIsFinite ==
  ASSUME NEW q, IsLog(q)
  PROVE  IsFiniteSet(ToSet(q))
<1>1. Len(q) \in Nat /\ DOMAIN q = 1..Len(q)
  BY LogPlaces
<1>2. IsFiniteSet(1..Len(q))
  BY <1>1, FS_Interval
<1>3. PICK D : D = DOMAIN q
  OBVIOUS
<1>4. IsFiniteSet({q[i] : i \in D})
  BY <1>1, <1>2, <1>3, ImageIsFinite
<1> QED BY <1>3, <1>4 DEF ToSet

(* What is kept of a log is a log.                                         *)
LEMMA KeptIsLog ==
  ASSUME NEW q, IsLog(q), NEW I \in SUBSET (1..Len(q))
  PROVE  IsLog(Keeping(q, I))
<1> DEFINE R == {p \in I \X I : p[1] < p[2]}
<1>1. IsFiniteSet(I)
  <2>1. IsFiniteSet(1..Len(q))
    BY LogPlaces, FS_Interval
  <2> QED BY <2>1, FS_Subset
<1>2. StrictOrder(I, R)
  <2>1. \A i \in I : i \in Int
    BY LogPlaces
  <2> QED BY <2>1 DEF StrictOrder
<1>3. PICK order : order = Ranked(I, R)
  OBVIOUS
<1>4. PICK n \in Nat : order \in [1..n -> I]
  <2> HIDE DEF R
  <2> QED BY <1>1, <1>2, <1>3, RankedLists
<1>5. PICK t : t = [k \in 1..n |-> q[order[k]]]
  OBVIOUS
<1>6. Keeping(q, I) = t
  <2>1. Keeping(q, I) = Tabulated([k \in DOMAIN order |-> q[order[k]]])
    BY <1>3 DEF Keeping
  <2>2. DOMAIN order = 1..n
    BY <1>4
  <2> QED BY <2>1, <2>2, <1>5, TabulatedIs
<1>7. t = [k \in 1..n |-> t[k]]
  BY <1>5
<1>8. IsLog(t)
  BY <1>7, PlacesCount
<1> QED BY <1>6, <1>8

(* The bars of a session and before are the first of all the bars.         *)
LEMMA ClosedIsBeginning ==
  ASSUME NEW q, IsLog(q), NEW session
  PROVE  /\ IsLog(ClosedBy(q, session)) /\ Len(ClosedBy(q, session)) <= Len(q)
         /\ \A i \in 1..Len(ClosedBy(q, session)) : i \in 1..Len(q) /\ ClosedBy(q, session)[i] = q[i]
<1>1. PICK I : I = {i \in DOMAIN q : q[i].session <= session}
  OBVIOUS
<1>2. PICK m \in Nat : m = Len(q) /\ DOMAIN q = 1..m
  BY LogPlaces
<1>3. PICK n \in Nat : n = Cardinality(I) /\ n <= m
  <2>1. IsFiniteSet(1..m) /\ Cardinality(1..m) = m
    BY FS_Interval
  <2>2. I \in SUBSET (1..m)
    BY <1>1, <1>2
  <2>3. Cardinality(I) <= m /\ Cardinality(I) \in Nat
    BY <2>1, <2>2, FS_Subset, FS_CardinalityType
  <2> QED BY <2>3
<1>4. PICK S : q \in Seq(S)
  BY DEF IsLog
<1>5. PICK t : t = SubSeq(q, 1, n)
  OBVIOUS
<1>6. t \in Seq(S) /\ Len(t) = n /\ \A i \in 1..n : t[i] = q[i]
  BY <1>2, <1>3, <1>4, <1>5
<1>7. ClosedBy(q, session) = t
  BY <1>1, <1>3, <1>5 DEF ClosedBy
<1>8. \A i \in 1..n : i \in 1..m
  BY <1>3
<1> QED BY <1>2, <1>3, <1>6, <1>7, <1>8 DEF IsLog

LEMMA InsertedIsLog ==
  ASSUME NEW s, NEW T, LogOf(s, T), NEW x \in T, NEW later
  PROVE  LogOf(Inserted(s, x, later), T)
<1> DEFINE before == {i \in DOMAIN s : s[i] \notin later}
<1>1. PICK m \in Nat : m = Len(s) /\ DOMAIN s = 1..m /\ \A i \in 1..m : s[i] \in T
  BY LogPlaces DEF LogOf
<1>2. before \in SUBSET (1..m)
  BY <1>1
<1>3. IsFiniteSet(1..m) /\ Cardinality(1..m) = m
  BY FS_Interval
<1>4. PICK n : n = Cardinality(before)
  OBVIOUS
<1>5. n \in Nat /\ n <= m
  <2> HIDE DEF before
  <2> QED BY <1>2, <1>3, <1>4, FS_Subset, FS_CardinalityType
<1>6. PICK t : t = [i \in 1..(m + 1) |-> IF i <= n THEN s[i] ELSE IF i = n + 1 THEN x ELSE s[i - 1]]
  OBVIOUS
<1>7. Inserted(s, x, later) = t
  <2>1. Inserted(s, x, later) = Tabulated(t)
    BY <1>1, <1>4, <1>6, Zenon DEF Inserted
  <2> QED BY <2>1, TabulatedIs
<1> HIDE DEF before
<1>8. ASSUME NEW i \in 1..(m + 1) PROVE t[i] \in T
  <2>1. /\ i <= n => i \in 1..m
        /\ i > n + 1 => i - 1 \in 1..m
        /\ i <= n \/ i = n + 1 \/ i > n + 1
    BY <1>1, <1>5
  <2> QED BY <1>1, <1>6, <2>1
<1>9. m + 1 \in Nat /\ t = [i \in 1..(m + 1) |-> t[i]]
  BY <1>1, <1>6
<1>10. IsLog(t) /\ Len(t) = m + 1
  BY <1>9, PlacesCount
<1>11. LogOf(t, T)
  BY <1>8, <1>10 DEF LogOf
<1> QED BY <1>7, <1>11

(* The sort of the parts of S of at most n members.                        *)
PartsOf(S, n) == {T \in SUBSET S : Cardinality(T) <= n}

SortOf(f, T, after) ==
  IF T = {} THEN <<>>
  ELSE LET x == CHOOSE x \in T : TRUE IN Inserted(f[T \ {x}], x, after[x])

IsSort(f, S, after, n) == f = [T \in PartsOf(S, n) |-> SortOf(f, T, after)]

(* To take one away leaves a smaller part.                                 *)
LEMMA OneLess ==
  ASSUME NEW S, IsFiniteSet(S), NEW n \in Nat, NEW T \in PartsOf(S, n), T # {}, NEW x \in T
  PROVE  T \ {x} \in PartsOf(S, n - 1) /\ n - 1 \in Nat
<1>1. T \in SUBSET S /\ Cardinality(T) <= n
  BY DEF PartsOf
<1>2. IsFiniteSet(T)
  BY <1>1, FS_Subset
<1>3. PICK P : P = T \ {x}
  OBVIOUS
<1>4. P \in SUBSET T /\ x \notin P
  BY <1>3
<1>5. Cardinality(P) \in Nat /\ Cardinality(T) \in Nat /\ Cardinality(P) < Cardinality(T)
  BY <1>2, <1>4, PartIsSmaller
<1>6. Cardinality(P) <= n - 1 /\ n - 1 \in Nat
  BY <1>1, <1>5
<1>7. P \in SUBSET S
  BY <1>1, <1>4
<1> QED BY <1>3, <1>6, <1>7 DEF PartsOf

LEMMA SmallerParts ==
  ASSUME NEW S, IsFiniteSet(S), NEW n \in Nat
  PROVE  /\ PartsOf(S, 0) = {{}} /\ PartsOf(S, Cardinality(S)) = SUBSET S
         /\ \A T \in PartsOf(S, n) : {} \in PartsOf(S, n) /\ Cardinality(T) \in Nat
<1>1. \A T \in SUBSET S : IsFiniteSet(T) /\ Cardinality(T) <= Cardinality(S)
  BY FS_Subset
<1>2. \A T \in SUBSET S : Cardinality(T) \in Nat
  BY <1>1, FS_CardinalityType
<1>3. ASSUME NEW T \in SUBSET S, Cardinality(T) <= 0 PROVE T = {}
  <2>1. Cardinality(T) = 0
    BY <1>2, <1>3
  <2> QED BY <1>1, <2>1, FS_EmptySet
<1>4. Cardinality({}) = 0
  BY FS_EmptySet
<1>5. PartsOf(S, 0) = {{}}
  BY <1>3, <1>4 DEF PartsOf
<1>6. PartsOf(S, Cardinality(S)) = SUBSET S
  BY <1>1 DEF PartsOf
<1>7. {} \in PartsOf(S, n)
  BY <1>4 DEF PartsOf
<1>8. \A T \in PartsOf(S, n) : Cardinality(T) \in Nat
  BY <1>2 DEF PartsOf
<1> QED BY <1>5, <1>6, <1>7, <1>8

LEMMA SortsExist ==
  ASSUME NEW S, IsFiniteSet(S), NEW after, NEW n \in Nat
  PROVE  \E f : IsSort(f, S, after, n)
<1> DEFINE Lacking == {m \in Nat : ~\E f : IsSort(f, S, after, m)}
<1> SUFFICES ASSUME Lacking # {} PROVE FALSE
  OBVIOUS
<1>1. PICK m \in Lacking : \A x \in Lacking : m <= x
  <2>1. Lacking \in SUBSET Nat
    OBVIOUS
  <2> HIDE DEF Lacking
  <2> QED BY <2>1, LeastNat
<1>2. m \in Nat /\ ~\E f : IsSort(f, S, after, m)
  OBVIOUS
<1>3. CASE m = 0
  <2>1. PICK f : f = [T \in PartsOf(S, 0) |-> <<>>]
    OBVIOUS
  <2>2. ASSUME NEW T \in PartsOf(S, 0) PROVE f[T] = SortOf(f, T, after)
    <3>1. T = {}
      BY SmallerParts
    <3> QED BY <2>1, <3>1 DEF SortOf
  <2>3. f = [T \in PartsOf(S, 0) |-> SortOf(f, T, after)]
    BY <2>1, <2>2
  <2> QED BY <2>3, <1>2, <1>3 DEF IsSort
<1>4. CASE m # 0
  <2>1. m - 1 \in Nat /\ m - 1 \notin Lacking
    BY <1>1, <1>2, <1>4
  <2>2. PICK f : IsSort(f, S, after, m - 1)
    BY <2>1
  <2>3. PICK g : g = [T \in PartsOf(S, m) |-> SortOf(f, T, after)]
    OBVIOUS
  <2>4. \A T \in PartsOf(S, m - 1) : T \in PartsOf(S, m) /\ g[T] = f[T]
    <3>1. \A T \in PartsOf(S, m - 1) : Cardinality(T) \in Nat
      BY <2>1, SmallerParts
    <3>2. \A T \in PartsOf(S, m - 1) : T \in PartsOf(S, m)
      BY <1>2, <3>1 DEF PartsOf
    <3>3. \A T \in PartsOf(S, m - 1) : f[T] = SortOf(f, T, after)
      BY <2>2, Zenon DEF IsSort
    <3> QED BY <2>3, <3>2, <3>3
  <2>5. ASSUME NEW T \in PartsOf(S, m) PROVE g[T] = SortOf(g, T, after)
    <3>1. CASE T = {}
      BY <2>3, <3>1 DEF SortOf
    <3>2. CASE T # {}
      <4>1. PICK x : x = CHOOSE y \in T : TRUE
        OBVIOUS
      <4>2. x \in T
        BY <3>2, <4>1
      <4>3. T \ {x} \in PartsOf(S, m - 1)
        BY <1>2, <3>2, <4>2, OneLess
      <4>4. g[T \ {x}] = f[T \ {x}]
        BY <2>4, <4>3
      <4>5. g[T] = Inserted(f[T \ {x}], x, after[x])
        BY <2>3, <3>2, <4>1 DEF SortOf
      <4> QED BY <3>2, <4>1, <4>4, <4>5 DEF SortOf
    <3> QED BY <3>1, <3>2
  <2>6. g = [T \in PartsOf(S, m) |-> SortOf(g, T, after)]
    BY <2>3, <2>5
  <2> QED BY <2>6, <1>2 DEF IsSort
<1> QED BY <1>3, <1>4

(* The sort of a finite set is a log of its members.                       *)
LEMMA InOrderIsLog ==
  ASSUME NEW S, IsFiniteSet(S), NEW after
  PROVE  LogOf(InOrder(S, after), S)
<1> DEFINE P(f) == f = [T \in SUBSET S |->
                          IF T = {} THEN <<>>
                          ELSE LET x == CHOOSE x \in T : TRUE IN Inserted(f[T \ {x}], x, after[x])]
<1>1. PICK N \in Nat : N = Cardinality(S)
  BY FS_CardinalityType
<1>2. PartsOf(S, N) = SUBSET S
  BY <1>1, SmallerParts
<1>3. \E f : P(f)
  <2>1. PICK f : IsSort(f, S, after, N)
    BY SortsExist
  <2>2. P(f)
    BY <2>1, <1>2 DEF IsSort, SortOf
  <2> HIDE DEF P
  <2> QED BY <2>2
<1>4. InOrder(S, after) = (CHOOSE f : P(f))[S]
  BY Zenon DEF InOrder
<1>5. P(CHOOSE f : P(f))
  <2> HIDE DEF P
  <2> QED BY <1>3
<1>6. PICK f : P(f) /\ InOrder(S, after) = f[S]
  <2> HIDE DEF P
  <2> QED BY <1>4, <1>5
<1>7. \A T \in SUBSET S : f[T] = SortOf(f, T, after)
  <2>1. f = [T \in SUBSET S |-> SortOf(f, T, after)]
    BY <1>6 DEF SortOf
  <2> QED BY <2>1, Zenon
<1> HIDE DEF P
<1> DEFINE Unsorted == {n \in Nat : \E T \in SUBSET S : Cardinality(T) = n /\ ~LogOf(f[T], T)}
<1>8. Unsorted = {}
  <2> SUFFICES ASSUME Unsorted # {} PROVE FALSE
    OBVIOUS
  <2>1. PICK m \in Unsorted : \A x \in Unsorted : m <= x
    <3>1. Unsorted \in SUBSET Nat
      OBVIOUS
    <3> HIDE DEF Unsorted
    <3> QED BY <3>1, LeastNat
  <2>2. PICK T \in SUBSET S : Cardinality(T) = m /\ ~LogOf(f[T], T) /\ m \in Nat
    OBVIOUS
  <2>3. IsLog(<<>>) /\ Len(<<>>) = 0
    <3>1. <<>> \in Seq({})
      OBVIOUS
    <3> QED BY <3>1 DEF IsLog
  <2>4. T # {}
    <3>1. T = {} => f[T] = <<>>
      BY <1>7, <2>2 DEF SortOf
    <3>2. LogOf(<<>>, {})
      BY <2>3 DEF LogOf
    <3> QED BY <2>2, <3>1, <3>2
  <2>5. PICK x : x = CHOOSE y \in T : TRUE
    OBVIOUS
  <2>6. x \in T
    BY <2>4, <2>5
  <2>7. PICK U, s : U = T \ {x} /\ s = f[U]
    OBVIOUS
  <2>8. U \in SUBSET T /\ x \notin U /\ U \in SUBSET S /\ IsFiniteSet(T)
    BY <2>7, FS_Subset
  <2>9. Cardinality(U) \in Nat /\ Cardinality(U) < m
    BY <2>2, <2>6, <2>8, PartIsSmaller
  <2>10. LogOf(s, U)
    <3>1. Cardinality(U) \notin Unsorted
      BY <2>1, <2>2, <2>9
    <3> QED BY <2>7, <2>8, <2>9, <3>1
  <2>11. LogOf(s, T)
    BY <2>8, <2>10 DEF LogOf
  <2>12. f[T] = Inserted(s, x, after[x])
    <3>1. f[T] = SortOf(f, T, after)
      BY <1>7, <2>2
    <3> QED BY <3>1, <2>4, <2>5, <2>7 DEF SortOf
  <2>13. LogOf(f[T], T)
    BY <2>6, <2>11, <2>12, InsertedIsLog
  <2> QED BY <2>2, <2>13
<1>9. LogOf(f[S], S)
  <2>1. Cardinality(S) \notin Unsorted
    BY <1>8
  <2> QED BY <1>1, <2>1
<1> QED BY <1>6, <1>9

-----------------------------------------------------------------------------
(* What the gate of a decision lets its orders do.                         *)

(* The work of an order: a list of fills and what is left.                 *)
Working(acc) == "left" \in DOMAIN acc /\ "fills" \in DOMAIN acc /\ "skipped" \in DOMAIN acc /\ IsLog(acc.fills)

WorkOn(side, acc, bar) == IF acc.left = 0 THEN acc ELSE WorkBar(side, acc, bar, bar.open)

IsWorked(f, side, first, window, n) ==
  f = [k \in 0..n |-> IF k = 0 THEN first ELSE WorkOn(side, f[k - 1], window[k])]

LEMMA WorksExist ==
  ASSUME NEW side, NEW first, NEW window, NEW n \in Nat
  PROVE  \E f : IsWorked(f, side, first, window, n)
<1> DEFINE Lacking == {m \in Nat : ~\E f : IsWorked(f, side, first, window, m)}
<1> SUFFICES ASSUME Lacking # {} PROVE FALSE
  OBVIOUS
<1>1. PICK m \in Lacking : \A x \in Lacking : m <= x
  <2>1. Lacking \in SUBSET Nat
    OBVIOUS
  <2> HIDE DEF Lacking
  <2> QED BY <2>1, LeastNat
<1>2. m \in Nat /\ ~\E f : IsWorked(f, side, first, window, m)
  OBVIOUS
<1>3. CASE m = 0
  <2>1. PICK f : f = [k \in 0..0 |-> first]
    OBVIOUS
  <2>2. f = [k \in 0..0 |-> IF k = 0 THEN first ELSE WorkOn(side, f[k - 1], window[k])]
    BY <2>1
  <2> QED BY <2>2, <1>2, <1>3 DEF IsWorked
<1>4. CASE m # 0
  <2>1. m - 1 \in Nat /\ m - 1 \notin Lacking
    BY <1>1, <1>2, <1>4
  <2>2. PICK f : IsWorked(f, side, first, window, m - 1)
    BY <2>1
  <2>3. PICK x : x = WorkOn(side, f[m - 1], window[m])
    OBVIOUS
  <2>4. PICK g : g = [k \in 0..m |-> IF k = m THEN x ELSE f[k]]
    OBVIOUS
  <2>5. ASSUME NEW k \in 0..m PROVE g[k] = IF k = 0 THEN first ELSE WorkOn(side, g[k - 1], window[k])
    <3>1. f = [j \in 0..(m - 1) |-> IF j = 0 THEN first ELSE WorkOn(side, f[j - 1], window[j])]
      BY <2>2 DEF IsWorked
    <3>2. k # m => k \in 0..(m - 1) /\ g[k] = f[k]
      BY <2>1, <2>4
    <3>3. k # 0 => k - 1 \in 0..(m - 1) /\ g[k - 1] = f[k - 1]
      BY <2>1, <2>4
    <3>4. g[m] = x
      BY <2>1, <2>4
    <3>5. k # m => g[k] = IF k = 0 THEN first ELSE WorkOn(side, f[k - 1], window[k])
      BY <3>1, <3>2, Zenon
    <3> QED BY <1>4, <2>3, <3>3, <3>4, <3>5, Zenon
  <2>6. g = [k \in 0..m |-> IF k = 0 THEN first ELSE WorkOn(side, g[k - 1], window[k])]
    BY <2>4, <2>5
  <2> QED BY <2>6, <1>2 DEF IsWorked
<1> QED BY <1>3, <1>4

LEMMA WorkBarKeeps ==
  ASSUME NEW side, NEW acc, Working(acc), NEW bar, NEW ref
  PROVE  Working(WorkBar(side, acc, bar, ref))
<1> DEFINE next == WorkBar(side, acc, bar, ref)
           qty == Least(acc.left, ParticipationCap(bar.volume))
<1>1. CASE ~bar.tradable
  <2>1. next = [acc EXCEPT !.skipped = Append(@, bar.session)]
    BY <1>1 DEF WorkBar
  <2> QED BY <2>1 DEF Working
<1>2. CASE bar.tradable /\ qty = 0
  BY <1>2 DEF WorkBar
<1>3. CASE bar.tradable /\ qty # 0
  <2>1. PICK x : x = MakeFill(side, bar.session, qty, ref)
    OBVIOUS
  <2>2. next = [acc EXCEPT !.left = @ - qty, !.fills = Append(@, x)]
    BY <1>3, <2>1 DEF WorkBar
  <2>3. IsLog(Append(acc.fills, x))
    BY AppendedLog DEF Working
  <2> HIDE DEF qty, next
  <2>4. Working(next)
    BY <2>2, <2>3 DEF Working
  <2> QED BY <2>4 DEF next
<1> QED BY <1>1, <1>2, <1>3

LEMMA WorkIsListed ==
  ASSUME NEW side, NEW first, Working(first), NEW window, Len(window) \in Nat
  PROVE  Working(WorkThrough(side, first, window))
<1> DEFINE P(f) == f = [k \in 0..Len(window) |->
                          IF k = 0 THEN first
                          ELSE IF f[k - 1].left = 0 THEN f[k - 1]
                          ELSE WorkBar(side, f[k - 1], window[k], window[k].open)]
<1>1. \E f : P(f)
  <2>1. PICK f : IsWorked(f, side, first, window, Len(window))
    BY WorksExist
  <2>2. P(f)
    BY <2>1 DEF IsWorked, WorkOn
  <2> HIDE DEF P
  <2> QED BY <2>2
<1>2. WorkThrough(side, first, window) = (CHOOSE f : P(f))[Len(window)]
  BY Zenon DEF WorkThrough
<1>3. P(CHOOSE f : P(f))
  <2> HIDE DEF P
  <2> QED BY <1>1
<1>4. PICK f : P(f) /\ WorkThrough(side, first, window) = f[Len(window)]
  <2> HIDE DEF P
  <2> QED BY <1>2, <1>3
<1>5. PICK n \in Nat : n = Len(window)
  OBVIOUS
<1>6. IsWorked(f, side, first, window, n)
  BY <1>4, <1>5 DEF IsWorked, WorkOn
<1>7. \A k \in 0..n : f[k] = IF k = 0 THEN first ELSE WorkOn(side, f[k - 1], window[k])
  BY <1>6, Zenon DEF IsWorked
<1> HIDE DEF P
<1> DEFINE Broken == {k \in 0..n : ~Working(f[k])}
<1>8. Broken = {}
  <2> SUFFICES ASSUME Broken # {} PROVE FALSE
    OBVIOUS
  <2>1. PICK m \in Broken : \A x \in Broken : m <= x
    <3>1. Broken \in SUBSET Nat
      BY <1>5
    <3> HIDE DEF Broken
    <3> QED BY <3>1, LeastNat
  <2>2. m \in 0..n /\ ~Working(f[m])
    OBVIOUS
  <2>3. m # 0
    <3>1. m = 0 => f[m] = first
      BY <1>7, <2>2, Zenon
    <3> QED BY <2>2, <3>1
  <2>4. m - 1 \in 0..n /\ m - 1 \notin Broken
    BY <1>5, <2>1, <2>2, <2>3
  <2>5. PICK acc : acc = f[m - 1]
    OBVIOUS
  <2>6. Working(acc)
    BY <2>4, <2>5
  <2>7. f[m] = WorkOn(side, acc, window[m])
    BY <1>7, <2>2, <2>3, <2>5, Zenon
  <2>8. Working(WorkOn(side, acc, window[m]))
    BY <2>6, WorkBarKeeps DEF WorkOn
  <2> QED BY <2>2, <2>7, <2>8
<1>9. Working(f[n])
  BY <1>5, <1>8
<1> QED BY <1>4, <1>5, <1>9

(* What the simulator returns is a list of fills, whatever the bars.       *)
LEMMA SimulationIsListed ==
  ASSUME NEW intent, NEW q, IsLog(q), NEW session, HasBar(q, session),
         NEW delay \in Nat, NEW most \in Nat
  PROVE  Working(SimulateFill(intent, q, session, delay, most))
<1>1. PICK d : d = CHOOSE i \in DOMAIN q : q[i].session = session
  OBVIOUS
<1>2. d \in DOMAIN q
  BY <1>1 DEF HasBar
<1>3. PICK N \in Nat : N = Len(q) /\ DOMAIN q = 1..N
  BY LogPlaces
<1>4. PICK S : q \in Seq(S)
  BY DEF IsLog
<1>5. PICK start : start = d + IF delay = 0 THEN 1 ELSE delay
  OBVIOUS
<1>6. start \in Nat \ {0}
  BY <1>2, <1>3, <1>5
<1>7. PICK end : end = Least(Len(q), start + most - 1)
  OBVIOUS
<1>8. end \in Int /\ end <= N
  BY <1>3, <1>6, <1>7 DEF Least
<1>9. PICK window : window = SubSeq(q, start, end)
  OBVIOUS
<1>10. Len(window) \in Nat
  <2>1. CASE start <= end
    <3>1. window \in Seq(S)
      BY <1>3, <1>4, <1>6, <1>8, <1>9, <2>1
    <3> QED BY <3>1
  <2>2. CASE end < start
    <3>1. Len(window) = 0
      BY <1>3, <1>4, <1>6, <1>8, <1>9, <2>2
    <3> QED BY <3>1
  <2> QED BY <1>6, <1>8, <2>1, <2>2
<1>11. PICK begun : begun = [left |-> intent.qty, fills |-> <<>>, skipped |-> <<>>]
  OBVIOUS
<1>12. Working(begun)
  <2>1. IsLog(<<>>)
    <3>1. <<>> \in Seq({})
      OBVIOUS
    <3> QED BY <3>1 DEF IsLog
  <2> QED BY <1>11, <2>1 DEF Working
<1>13. PICK first : first = IF delay = 0 THEN WorkBar(intent.side, begun, q[d], q[d].close) ELSE begun
  OBVIOUS
<1>14. Working(first)
  BY <1>12, <1>13, WorkBarKeeps
<1>15. SimulateFill(intent, q, session, delay, most) = WorkThrough(intent.side, first, window)
  <2> DEFINE day == CHOOSE i \in DOMAIN q : q[i].session = session
             from == day + IF delay = 0 THEN 1 ELSE delay
             none == [left |-> intent.qty, fills |-> <<>>, skipped |-> <<>>]
  <2>1. SimulateFill(intent, q, session, delay, most)
          = WorkThrough(intent.side,
                        IF delay = 0 THEN WorkBar(intent.side, none, q[day], q[day].close) ELSE none,
                        SubSeq(q, from, Least(Len(q), from + most - 1)))
    BY Zenon DEF SimulateFill
  <2>2. day = d /\ none = begun
    BY <1>1, <1>11
  <2> HIDE DEF day, none
  <2>3. from = start
    BY <2>2, <1>5
  <2> HIDE DEF from
  <2> QED BY <1>7, <1>9, <1>13, <2>1, <2>2, <2>3
<1>16. Working(WorkThrough(intent.side, first, window))
  BY <1>10, <1>14, WorkIsListed
<1> QED BY <1>15, <1>16

(* Bars are dated.                                                         *)
DatedLog(q) == IsLog(q) /\ \A i \in 1..Len(q) : "session" \in DOMAIN q[i]

(* An order is worked from a bar that there is.                            *)
LEMMA AnchorIsABar ==
  ASSUME NEW q, IsLog(q), NEW session, SimulatorAnchor(q, session) # NoAnchor
  PROVE  HasBar(q, SimulatorAnchor(q, session))
<1>1. CASE HasBar(q, session)
  BY <1>1 DEF SimulatorAnchor
<1>2. CASE ~HasBar(q, session)
  <2>1. PICK before : before = ClosedBy(q, session)
    OBVIOUS
  <2>2. before # <<>> /\ SimulatorAnchor(q, session) = before[Len(before)].session
    BY <1>2, <2>1 DEF SimulatorAnchor
  <2>3. /\ IsLog(before)
        /\ \A i \in 1..Len(before) : i \in 1..Len(q) /\ before[i] = q[i]
    BY <2>1, ClosedIsBeginning
  <2>4. PICK S : before \in Seq(S)
    BY <2>3 DEF IsLog
  <2>5. Len(before) \in 1..Len(before)
    BY <2>2, <2>4
  <2>6. Len(before) \in DOMAIN q /\ q[Len(before)] = before[Len(before)]
    BY <2>3, <2>5, LogPlaces
  <2> QED BY <2>2, <2>6 DEF HasBar
<1> QED BY <1>1, <1>2

LEMMA UnitsKeepBars ==
  ASSUME NEW q, DatedLog(q), NEW splits, NEW session
  PROVE  LET t == InDecisionUnits(q, splits, session)
         IN IsLog(t) /\ DOMAIN t = DOMAIN q /\ \A i \in DOMAIN q : t[i].session = q[i].session
<1>1. PICK t : t = InDecisionUnits(q, splits, session)
  OBVIOUS
<1>2. CASE splits = <<>>
  BY <1>2 DEF InDecisionUnits, DatedLog
<1>3. CASE splits # <<>>
  <2>1. PICK n \in Nat : n = Len(q) /\ DOMAIN q = 1..n
    BY LogPlaces DEF DatedLog
  <2> DEFINE w == [i \in 1..n |-> SplitFactor(splits, session, q[i].session)]
             Restate(b, k) == [b EXCEPT !.open = @ * k, !.close = @ * k, !.volume = @ \div k]
  <2>2. t = [i \in 1..n |-> Restate(q[i], w[i])]
    <3>1. t = [i \in DOMAIN q |-> Restate(q[i], SplitFactor(splits, session, q[i].session))]
      BY <1>1, <1>3, Zenon DEF InDecisionUnits
    <3>2. \A i \in 1..n : w[i] = SplitFactor(splits, session, q[i].session)
      OBVIOUS
    <3> HIDE DEF w, Restate
    <3> QED BY <2>1, <3>1, <3>2, Zenon
  <2>a. \A b, k : "session" \in DOMAIN b => Restate(b, k).session = b.session
    OBVIOUS
  <2> HIDE DEF w, Restate
  <2>3. DOMAIN t = 1..n /\ t = [i \in 1..n |-> t[i]]
    BY <2>2
  <2>4. IsLog(t)
    BY <2>3, PlacesCount
  <2>5. ASSUME NEW i \in 1..n PROVE t[i].session = q[i].session
    <3>1. t[i] = Restate(q[i], w[i])
      BY <2>2
    <3>2. "session" \in DOMAIN q[i]
      BY <2>1 DEF DatedLog
    <3> QED BY <2>a, <3>1, <3>2
  <2> QED BY <1>1, <2>1, <2>3, <2>4, <2>5
<1> QED BY <1>2, <1>3

(* The steps of an order are finitely many, and on its side.               *)
LEMMA StepsOfAnOrder ==
  ASSUME NEW o, NEW market, NEW session, DatedLog(market.bars[o.entity]),
         SimulatorAnchor(market.bars[o.entity], session) # NoAnchor
  PROVE  /\ IsFiniteSet(WorkOrder(o, market, session).steps)
         /\ \A x \in WorkOrder(o, market, session).steps : x.side = SideOf(o)
<1> DEFINE splits == SplitsAfter(market, o.entity, session)
           Restated(f) ==
             LET k == SplitFactor(splits, session, f.session)
             IN [type |-> "FILL", session |-> f.session, entity |-> o.entity, side |-> SideOf(o),
                 qty |-> f.qty * k, price |-> f.price \div k, fees |-> f.fees, factor |-> k]
<1>1. PICK q : q = market.bars[o.entity]
  OBVIOUS
<1>2. PICK t : t = InDecisionUnits(q, splits, session)
  OBVIOUS
<1>3. PICK anchor : anchor = SimulatorAnchor(q, session)
  OBVIOUS
<1>4. PICK sim : sim = SimulateFill([side |-> SideOf(o), qty |-> SizeOf(o)], t, anchor, DelayBars, MaxFillBars)
  OBVIOUS
<1>5. WorkOrder(o, market, session) =
        [left |-> sim.left, steps |-> {Restated(sim.fills[i]) : i \in DOMAIN sim.fills}]
  <2> DEFINE run == SimulateFill([side |-> SideOf(o), qty |-> SizeOf(o)],
                                 InDecisionUnits(market.bars[o.entity], splits, session),
                                 SimulatorAnchor(market.bars[o.entity], session), DelayBars, MaxFillBars)
  <2>1. WorkOrder(o, market, session) =
          [left |-> run.left, steps |-> {Restated(run.fills[i]) : i \in DOMAIN run.fills}]
    BY DEF WorkOrder
  <2>2. run = sim
    BY <1>1, <1>2, <1>3, <1>4
  <2> HIDE DEF run
  <2> QED BY <2>1, <2>2
<1>6. Working(sim)
  <2>1. IsLog(t) /\ DOMAIN t = DOMAIN q /\ \A i \in DOMAIN q : t[i].session = q[i].session
    <3> HIDE DEF splits
    <3> QED BY <1>1, <1>2, UnitsKeepBars
  <2>2. HasBar(q, anchor)
    BY <1>1, <1>3, AnchorIsABar DEF DatedLog
  <2>3. HasBar(t, anchor)
    BY <2>1, <2>2 DEF HasBar
  <2>4. DelayBars \in Nat /\ MaxFillBars \in Nat
    BY FillsAssumption
  <2> QED BY <1>4, <2>1, <2>3, <2>4, SimulationIsListed
<1>7. PICK D, h : D = DOMAIN sim.fills /\ h = [i \in D |-> Restated(sim.fills[i])]
  OBVIOUS
<1>8. IsFiniteSet(D)
  <2>1. D = 1..Len(sim.fills) /\ Len(sim.fills) \in Nat
    BY <1>6, <1>7, LogPlaces DEF Working
  <2> QED BY <2>1, FS_Interval
<1>9. \A i \in D : h[i].side = SideOf(o)
  BY <1>7
<1>10. {Restated(sim.fills[i]) : i \in DOMAIN sim.fills} = {h[i] : i \in D}
  <2> HIDE DEF Restated
  <2> QED BY <1>7
<1> HIDE DEF Restated
<1>11. WorkOrder(o, market, session).steps = {h[i] : i \in D}
  BY <1>5, <1>10
<1>12. IsFiniteSet({h[i] : i \in D})
  BY <1>8, ImageIsFinite
<1> QED BY <1>9, <1>11, <1>12

(* Orders are of entities that have a price, finitely many.                *)
LEMMA OrdersAreFew ==
  ASSUME NEW decision, NEW book, NEW prices, DOMAIN prices = Entities
  PROVE  /\ IsFiniteSet(OrdersOf(decision, book, prices))
         /\ \A o \in OrdersOf(decision, book, prices) : o.entity \in Entities
<1>1. PICK nav, targets, current :
        /\ nav = book.nav /\ targets = ShareTargets(nav, decision.weights, prices).targets /\ current = book.positions
  OBVIOUS
<1> DEFINE Cur(e) == IF e \in DOMAIN current THEN current[e] ELSE 0
           moved == {e \in DOMAIN targets : targets[e] # Cur(e)}
           entries == {e \in moved : Cur(e) = 0}
           drifted == {e \in moved \ entries : Distance(targets[e], Cur(e)) * prices[e] * Whole > Band * nav}
           exits == {e \in DOMAIN current \ DOMAIN targets : current[e] > 0 /\ Priced(prices, e)}
<1>2. OrdersOf(decision, book, prices) = RebalanceOrders(nav, targets, current, prices)
  BY <1>1 DEF OrdersOf
<1>3. RebalanceOrders(nav, targets, current, prices)
        = {Order(e, targets[e], "ENTRY") : e \in entries}
            \cup {Order(e, targets[e] - Cur(e), "BAND_EXCEEDED") : e \in drifted}
            \cup {Order(e, -Cur(e), "EXIT") : e \in exits}
  BY Zenon DEF RebalanceOrders
<1>4. DOMAIN targets \subseteq Entities
  <2>1. PICK P : P = {e \in DOMAIN decision.weights : Priced(prices, e)}
    OBVIOUS
  <2>2. DOMAIN targets = P
    BY <1>1, <2>1 DEF ShareTargets
  <2> QED BY <2>1, <2>2 DEF Priced
<1>5. entries \in SUBSET Entities /\ drifted \in SUBSET Entities /\ exits \in SUBSET Entities
  BY <1>4 DEF Priced
<1> HIDE DEF entries, drifted, exits, Cur
<1>6. PICK f, g, h :
        /\ f = [e \in entries |-> Order(e, targets[e], "ENTRY")]
        /\ g = [e \in drifted |-> Order(e, targets[e] - Cur(e), "BAND_EXCEEDED")]
        /\ h = [e \in exits |-> Order(e, -Cur(e), "EXIT")]
  OBVIOUS
<1>7. /\ \A e \in entries : f[e].entity = e
      /\ \A e \in drifted : g[e].entity = e
      /\ \A e \in exits : h[e].entity = e
  BY <1>6 DEF Order
<1>8. OrdersOf(decision, book, prices) = {f[e] : e \in entries} \cup {g[e] : e \in drifted} \cup {h[e] : e \in exits}
  BY <1>2, <1>3, <1>6
<1>9. IsFiniteSet(entries) /\ IsFiniteSet(drifted) /\ IsFiniteSet(exits)
  BY <1>5, EntitiesAssumption, FS_Subset
<1>10. IsFiniteSet({f[e] : e \in entries}) /\ IsFiniteSet({g[e] : e \in drifted}) /\ IsFiniteSet({h[e] : e \in exits})
  BY <1>9, ImageIsFinite
<1>11. IsFiniteSet(OrdersOf(decision, book, prices))
  <2>1. PICK A, B, C : A = {f[e] : e \in entries} /\ B = {g[e] : e \in drifted} /\ C = {h[e] : e \in exits}
    OBVIOUS
  <2>2. IsFiniteSet(A) /\ IsFiniteSet(B) /\ IsFiniteSet(C)
    BY <1>10, <2>1
  <2>3. PICK D : D = A \cup B
    OBVIOUS
  <2>4. IsFiniteSet(D)
    BY <2>2, <2>3, FS_Union
  <2>5. IsFiniteSet(D \cup C)
    BY <2>2, <2>4, FS_Union
  <2>6. OrdersOf(decision, book, prices) = D \cup C
    BY <1>8, <2>1, <2>3
  <2> QED BY <2>5, <2>6
<1>12. \A o \in OrdersOf(decision, book, prices) : o.entity \in Entities
  BY <1>5, <1>7, <1>8
<1> QED BY <1>11, <1>12

(* The gate lets a step through: a split, or a fill of a book that is not  *)
(* held, which buys nothing unless new risk is allowed.                    *)
Permits(d, step) == step.type = "SPLIT" \/ (d.halt # "HOLD_ONLY" /\ (step.side = "BUY" => d.newRisk))

Allowed(d, fills) ==
  /\ d.halt = "HOLD_ONLY" => fills = <<>>
  /\ \A k \in DOMAIN fills : fills[k].side = "BUY" => d.newRisk

AppliedFor(d, acc) == "fills" \in DOMAIN acc /\ IsLog(acc.fills) /\ Allowed(d, acc.fills)

LEMMA StepKeepsTheGate ==
  ASSUME NEW d, NEW acc, AppliedFor(d, acc), NEW step, Permits(d, step)
  PROVE  AppliedFor(d, ApplyStep(acc, step))
<1>1. CASE step.type = "SPLIT"
  <2>1. ApplyStep(acc, step) = [acc EXCEPT !.held[step.entity] = @ * step.ratio[1]]
    BY <1>1, Zenon DEF ApplyStep
  <2>2. PICK v : [acc EXCEPT !.held[step.entity] = @ * step.ratio[1]] = [acc EXCEPT !.held = v]
    OBVIOUS
  <2> QED BY <2>1, <2>2 DEF AppliedFor
<1>2. CASE step.type # "SPLIT"
  <2> DEFINE have == acc.held[step.entity]
             qty == IF step.side = "BUY" THEN Affordable(acc.cash, step)
                    ELSE IF step.qty > have THEN have ELSE step.qty
             fees == (step.fees * qty) \div step.qty
             change == qty * step.price
             fill == [session |-> step.session, entity |-> step.entity, side |-> step.side,
                      qty |-> qty, price |-> step.price, fees |-> fees]
             short == IF step.side = "BUY" /\ qty < step.qty THEN {step.entity} ELSE {}
             filled == [acc EXCEPT
                          !.cash = IF step.side = "BUY" THEN @ - change - fees ELSE @ + change - fees,
                          !.held[step.entity] = IF step.side = "BUY" THEN @ + qty ELSE @ - qty,
                          !.applied[step.entity] = @ + qty \div step.factor,
                          !.short = @ \cup short,
                          !.fills = Append(@, fill)]
  <2>1. ApplyStep(acc, step) = IF qty <= 0 THEN [acc EXCEPT !.short = @ \cup short] ELSE filled
    BY <1>2, Zenon DEF ApplyStep
  <2>2. CASE qty <= 0
    <3>1. AppliedFor(d, [acc EXCEPT !.short = @ \cup short])
      <4> HIDE DEF short, qty
      <4> QED BY DEF AppliedFor
    <3> QED BY <2>1, <2>2, <3>1, Zenon
  <2>3. CASE ~(qty <= 0)
    <3>1. fill.side = step.side
      OBVIOUS
    <3>2. PICK x : x = fill
      OBVIOUS
    <3>3. "fills" \in DOMAIN filled /\ filled.fills = Append(acc.fills, x)
      <4> HIDE DEF fill, short, qty, fees, change
      <4> QED BY <3>2 DEF AppliedFor
    <3> HIDE DEF filled, fill, short, qty, fees, change
    <3>4. x.side = step.side
      BY <3>1, <3>2
    <3>5. /\ IsLog(Append(acc.fills, x)) /\ Len(acc.fills) \in Nat
          /\ DOMAIN acc.fills = 1..Len(acc.fills) /\ DOMAIN Append(acc.fills, x) = 1..(Len(acc.fills) + 1)
          /\ \A i \in 1..Len(acc.fills) : Append(acc.fills, x)[i] = acc.fills[i]
          /\ Append(acc.fills, x)[Len(acc.fills) + 1] = x
      BY AppendedLog DEF AppliedFor
    <3>6. d.halt # "HOLD_ONLY" /\ (x.side = "BUY" => d.newRisk)
      BY <1>2, <3>4 DEF Permits
    <3>7. ASSUME NEW k \in DOMAIN Append(acc.fills, x), Append(acc.fills, x)[k].side = "BUY" PROVE d.newRisk
      <4>1. k \in 1..Len(acc.fills) \/ k = Len(acc.fills) + 1
        BY <3>5
      <4> QED BY <3>5, <3>6, <3>7, <4>1 DEF AppliedFor, Allowed
    <3>8. AppliedFor(d, filled)
      BY <3>3, <3>5, <3>6, <3>7 DEF AppliedFor, Allowed
    <3> QED BY <2>1, <2>3, <3>8, Zenon
  <2> QED BY <2>2, <2>3
<1> QED BY <1>1, <1>2

IsApplied(f, steps, first, n) ==
  f = [k \in 0..n |-> IF k = 0 THEN first ELSE ApplyStep(f[k - 1], steps[k])]

LEMMA AppliedExist ==
  ASSUME NEW steps, NEW first, NEW n \in Nat
  PROVE  \E f : IsApplied(f, steps, first, n)
<1> DEFINE Lacking == {m \in Nat : ~\E f : IsApplied(f, steps, first, m)}
<1> SUFFICES ASSUME Lacking # {} PROVE FALSE
  OBVIOUS
<1>1. PICK m \in Lacking : \A x \in Lacking : m <= x
  <2>1. Lacking \in SUBSET Nat
    OBVIOUS
  <2> HIDE DEF Lacking
  <2> QED BY <2>1, LeastNat
<1>2. m \in Nat /\ ~\E f : IsApplied(f, steps, first, m)
  OBVIOUS
<1>3. CASE m = 0
  <2>1. PICK f : f = [k \in 0..0 |-> first]
    OBVIOUS
  <2>2. f = [k \in 0..0 |-> IF k = 0 THEN first ELSE ApplyStep(f[k - 1], steps[k])]
    BY <2>1
  <2> QED BY <2>2, <1>2, <1>3 DEF IsApplied
<1>4. CASE m # 0
  <2>1. m - 1 \in Nat /\ m - 1 \notin Lacking
    BY <1>1, <1>2, <1>4
  <2>2. PICK f : IsApplied(f, steps, first, m - 1)
    BY <2>1
  <2>3. PICK x : x = ApplyStep(f[m - 1], steps[m])
    OBVIOUS
  <2>4. PICK g : g = [k \in 0..m |-> IF k = m THEN x ELSE f[k]]
    OBVIOUS
  <2>5. ASSUME NEW k \in 0..m PROVE g[k] = IF k = 0 THEN first ELSE ApplyStep(g[k - 1], steps[k])
    <3>1. f = [j \in 0..(m - 1) |-> IF j = 0 THEN first ELSE ApplyStep(f[j - 1], steps[j])]
      BY <2>2 DEF IsApplied
    <3>2. k # m => k \in 0..(m - 1) /\ g[k] = f[k]
      BY <2>1, <2>4
    <3>3. k # 0 => k - 1 \in 0..(m - 1) /\ g[k - 1] = f[k - 1]
      BY <2>1, <2>4
    <3>4. g[m] = x
      BY <2>1, <2>4
    <3>5. k # m => g[k] = IF k = 0 THEN first ELSE ApplyStep(f[k - 1], steps[k])
      BY <3>1, <3>2, Zenon
    <3> QED BY <1>4, <2>3, <3>3, <3>4, <3>5, Zenon
  <2>6. g = [k \in 0..m |-> IF k = 0 THEN first ELSE ApplyStep(g[k - 1], steps[k])]
    BY <2>4, <2>5
  <2> QED BY <2>6, <1>2 DEF IsApplied
<1> QED BY <1>3, <1>4

LEMMA StepsKeepTheGate ==
  ASSUME NEW d, NEW first, AppliedFor(d, first), NEW steps, IsLog(steps),
         \A k \in 1..Len(steps) : Permits(d, steps[k])
  PROVE  AppliedFor(d, ApplySteps(steps, first))
<1> DEFINE P(f) == f = [k \in 0..Len(steps) |-> IF k = 0 THEN first ELSE ApplyStep(f[k - 1], steps[k])]
<1>1. PICK n \in Nat : n = Len(steps)
  BY LogPlaces
<1>2. \E f : P(f)
  <2>1. PICK f : IsApplied(f, steps, first, n)
    BY AppliedExist
  <2>2. P(f)
    BY <1>1, <2>1 DEF IsApplied
  <2> HIDE DEF P
  <2> QED BY <2>2
<1>3. ApplySteps(steps, first) = (CHOOSE f : P(f))[Len(steps)]
  BY Zenon DEF ApplySteps
<1>4. P(CHOOSE f : P(f))
  <2> HIDE DEF P
  <2> QED BY <1>2
<1>5. PICK f : P(f) /\ ApplySteps(steps, first) = f[Len(steps)]
  <2> HIDE DEF P
  <2> QED BY <1>3, <1>4
<1>6. \A k \in 0..n : f[k] = IF k = 0 THEN first ELSE ApplyStep(f[k - 1], steps[k])
  BY <1>1, <1>5, Zenon
<1> HIDE DEF P
<1> DEFINE Broken == {k \in 0..n : ~AppliedFor(d, f[k])}
<1>7. Broken = {}
  <2> SUFFICES ASSUME Broken # {} PROVE FALSE
    OBVIOUS
  <2>1. PICK m \in Broken : \A x \in Broken : m <= x
    <3>1. Broken \in SUBSET Nat
      OBVIOUS
    <3> HIDE DEF Broken
    <3> QED BY <3>1, LeastNat
  <2>2. m \in 0..n /\ ~AppliedFor(d, f[m])
    OBVIOUS
  <2>3. m # 0
    <3>1. m = 0 => f[m] = first
      BY <1>6, <2>2, Zenon
    <3> QED BY <2>2, <3>1
  <2>4. m - 1 \in 0..n /\ m \in 1..n /\ m - 1 \notin Broken
    BY <2>1, <2>2, <2>3
  <2>5. PICK acc : acc = f[m - 1]
    OBVIOUS
  <2>6. AppliedFor(d, acc)
    BY <2>4, <2>5
  <2>7. f[m] = ApplyStep(acc, steps[m])
    BY <1>6, <2>2, <2>3, <2>5, Zenon
  <2>8. AppliedFor(d, ApplyStep(acc, steps[m]))
    BY <1>1, <2>4, <2>6, StepKeepsTheGate
  <2> QED BY <2>2, <2>7, <2>8
<1>8. AppliedFor(d, f[n])
  BY <1>7
<1> QED BY <1>1, <1>5, <1>8

(* A market: dated bars, and splits in a list.                             *)
IsMarket(market) ==
  /\ \A e \in Entities : DatedLog(market.bars[e])
  /\ IsLog(market.splits)

(* What the gate of a decision forbids is in none of its fills.            *)
LEMMA FillsAreAllowed ==
  ASSUME NEW d, NEW book, NEW market, IsMarket(market), NEW session, NEW rank
  PROVE  Allowed(d, CounterfactualFills(d, book, market, session, rank).fills)
<1>1. PICK prices : prices = ClosesAt(market, session)
  OBVIOUS
<1>a. DOMAIN prices = Entities
  <2>1. DOMAIN ClosesAt(market, session) = Entities
    BY Zenon DEF ClosesAt
  <2> QED BY <1>1, <2>1
<1>2. PICK orders : orders = OrdersOf(d, book, prices)
  OBVIOUS
<1>3. PICK acted : acted = Actionable(d, orders)
  OBVIOUS
<1>4. PICK worked : worked = {o \in acted : SimulatorAnchor(market.bars[o.entity], session) # NoAnchor}
  OBVIOUS
<1>5. PICK work : work = [o \in worked |-> WorkOrder(o, market, session)]
  OBVIOUS
<1>6. PICK later : later = {s \in ToSet(market.splits) : s.session > session}
  OBVIOUS
<1>7. PICK steps : steps = (UNION {work[o].steps : o \in worked}) \cup {SplitStep(s) : s \in later}
  OBVIOUS
<1>b. PICK A, B : A = UNION {work[o].steps : o \in worked} /\ B = {SplitStep(s) : s \in later}
  OBVIOUS
<1>c. ASSUME NEW x \in steps PROVE x \in A \/ x \in B
  <2>1. (\E o \in worked : x \in work[o].steps) \/ (\E s \in later : x = SplitStep(s))
    BY <1>7
  <2> QED BY <1>b, <2>1
<1>8. PICK held : held = [e \in Entities |-> IF e \in DOMAIN book.positions THEN book.positions[e] ELSE 0]
  OBVIOUS
<1>9. PICK first : first = [cash |-> book.cash, held |-> held, applied |-> [e \in Entities |-> 0],
                            short |-> {}, fills |-> <<>>]
  OBVIOUS
<1>10. PICK list : list = StepsInOrder(steps, rank)
  OBVIOUS
<1>11. \/ CounterfactualFills(d, book, market, session, rank).fills = <<>>
       \/ CounterfactualFills(d, book, market, session, rank).fills = ApplySteps(list, first).fills
  <2> DEFINE cf == CounterfactualFills(d, book, market, session, rank)
  <2>1. CASE book.nav <= 0
    <3>1. cf = [fills |-> <<>>, unfilled |-> {}, entries |-> {}, exits |-> RemovedHeld(d, book)]
      BY <2>1, Zenon DEF CounterfactualFills
    <3> HIDE DEF cf
    <3>2. cf.fills = <<>>
      BY <3>1
    <3> QED BY <3>2 DEF cf
  <2>2. CASE ~(book.nav <= 0)
    <3>1. cf = [fills |-> ApplySteps(list, first).fills,
                unfilled |-> Remainders(acted, work, worked, ApplySteps(list, first)),
                entries |-> {o.entity : o \in {x \in orders \ acted : Increases(x)}},
                exits |-> {o.entity : o \in {x \in orders \ acted : ~Increases(x)}}
                            \cup {e \in RemovedHeld(d, book) : prices[e] = -1}]
      BY <1>1, <1>2, <1>3, <1>4, <1>5, <1>6, <1>7, <1>8, <1>9, <1>10, <2>2, Zenon DEF CounterfactualFills
    <3> HIDE DEF cf
    <3>2. cf.fills = ApplySteps(list, first).fills
      BY <3>1
    <3> QED BY <3>2 DEF cf
  <2> QED BY <2>1, <2>2
<1>12. worked \subseteq orders /\ \A o \in worked : d.halt # "HOLD_ONLY" /\ (d.newRisk \/ ~Increases(o))
  BY <1>3, <1>4 DEF Actionable
<1>13. IsFiniteSet(worked) /\ \A o \in worked : o.entity \in Entities
  BY <1>a, <1>2, <1>12, OrdersAreFew, FS_Subset
<1>14. ASSUME NEW o \in worked
       PROVE  IsFiniteSet(work[o].steps) /\ \A x \in work[o].steps : x.side = SideOf(o)
  <2>1. DatedLog(market.bars[o.entity]) /\ SimulatorAnchor(market.bars[o.entity], session) # NoAnchor
    BY <1>4, <1>13 DEF IsMarket
  <2>2. work[o] = WorkOrder(o, market, session)
    BY <1>5
  <2> QED BY <2>1, <2>2, StepsOfAnOrder
<1>15. IsFiniteSet(A)
  <2>1. PICK h : h = [o \in worked |-> work[o].steps]
    OBVIOUS
  <2>2. IsFiniteSet({h[o] : o \in worked})
    BY <1>13, ImageIsFinite
  <2>3. \A S \in {h[o] : o \in worked} : IsFiniteSet(S)
    BY <1>14, <2>1
  <2>4. {work[o].steps : o \in worked} = {h[o] : o \in worked}
    BY <2>1
  <2> QED BY <1>b, <2>2, <2>3, <2>4, FS_UNION
<1>16. IsFiniteSet(B)
  <2>1. PICK h : h = [s \in later |-> SplitStep(s)]
    OBVIOUS
  <2>2. IsFiniteSet(later)
    BY <1>6, LogIsFinite, FS_Subset DEF IsMarket
  <2>3. IsFiniteSet({h[s] : s \in later})
    BY <2>2, ImageIsFinite
  <2>4. {SplitStep(s) : s \in later} = {h[s] : s \in later}
    BY <2>1
  <2> QED BY <1>b, <2>3, <2>4
<1>17. IsFiniteSet(steps)
  <2>1. IsFiniteSet(A \cup B) /\ steps \subseteq A \cup B
    BY <1>c, <1>15, <1>16, FS_Union
  <2> QED BY <2>1, FS_Subset
<1>18. LogOf(list, steps)
  BY <1>10, <1>17, InOrderIsLog DEF StepsInOrder
<1>19. ASSUME NEW x \in steps PROVE Permits(d, x)
  <2>1. CASE x \in B
    BY <1>b, <2>1 DEF SplitStep, Permits
  <2>2. CASE x \in A
    <3>1. PICK o \in worked : x \in work[o].steps
      BY <1>b, <2>2
    <3>2. x.side = "BUY" => Increases(o)
      BY <1>14, <3>1 DEF SideOf
    <3> QED BY <1>12, <3>2 DEF Permits
  <2> QED BY <1>c, <2>1, <2>2
<1>20. IsLog(<<>>) /\ Allowed(d, <<>>)
  <2>1. <<>> \in Seq({}) /\ DOMAIN <<>> = {}
    OBVIOUS
  <2> QED BY <2>1 DEF IsLog, Allowed
<1>21. AppliedFor(d, first)
  BY <1>9, <1>20 DEF AppliedFor
<1>22. AppliedFor(d, ApplySteps(list, first))
  BY <1>18, <1>19, <1>21, StepsKeepTheGate DEF LogOf
<1> QED BY <1>11, <1>20, <1>22 DEF AppliedFor

-----------------------------------------------------------------------------
(* One fill pass.                                                          *)

Pass(records, deferred, err) == [records |-> records, deferred |-> deferred, err |-> err]

Names(o, d) == o.arm = d.arm /\ o.session = d.session

(* An outcome of a decision has the fills of a simulation of it.           *)
OutcomeIn(market, o, d) ==
  Names(o, d) /\ \E book : o.fills = CounterfactualFills(d, book, market, d.session, EntityRank).fills

LEMMA OutcomeIsOfItsDecision ==
  ASSUME NEW market, NEW records, NEW d, NEW now
  PROVE  OutcomeIn(market, OutcomeOf(market, records, d, now), d)
<1>1. PICK book : book = BookAt(market, FillsOf(records, d.arm), d.session)
  OBVIOUS
<1>2. PICK cf : cf = CounterfactualFills(d, book, market, d.session, EntityRank)
  OBVIOUS
<1>3. OutcomeOf(market, records, d, now) =
        [arm |-> d.arm, session |-> d.session, computedAt |-> now, fills |-> cf.fills,
         unfilled |-> cf.unfilled, err |-> book.err]
  BY <1>1, <1>2, Zenon DEF OutcomeOf
<1>4. PICK o : o = OutcomeOf(market, records, d, now)
  OBVIOUS
<1>5. o.arm = d.arm /\ o.session = d.session /\ o.fills = cf.fills
  BY <1>3, <1>4
<1> QED BY <1>2, <1>4, <1>5 DEF OutcomeIn, Names

(* What one pending decision does to a pass.                               *)
LEMMA RecordOutcomeCases ==
  ASSUME NEW market, NEW s, NEW a, NEW b, NEW c, NEW d, NEW o
  PROVE  \E records, deferred, err :
           /\ RecordOutcome(market, s, Pass(a, b, c), d, o) = Pass(records, deferred, err)
           /\ \/ err # "none"
              \/ c = "none" /\ d.arm \in b /\ records = a /\ deferred = b
              \/ /\ c = "none" /\ d.arm \notin b /\ FillOwedSession(d.session) > s
                 /\ records = a /\ deferred = b \cup {d.arm}
              \/ c = "none" /\ d.arm \notin b /\ records = Append(a, o) /\ deferred = b
<1>1. CASE c # "none" \/ d.arm \in b
  <2>1. RecordOutcome(market, s, Pass(a, b, c), d, o) = Pass(a, b, c)
    BY <1>1 DEF RecordOutcome, Pass
  <2> QED BY <2>1, <1>1
<1>2. CASE c = "none" /\ d.arm \notin b /\ o.err # "none"
  <2>1. RecordOutcome(market, s, Pass(a, b, c), d, o) = Pass(a, b, o.err)
    BY <1>2 DEF RecordOutcome, Pass
  <2> QED BY <2>1, <1>2
<1>3. CASE /\ c = "none" /\ d.arm \notin b /\ o.err = "none"
           /\ WindowOpen(market, d, o.unfilled) /\ FillOwedSession(d.session) > s
  <2>1. RecordOutcome(market, s, Pass(a, b, c), d, o) = Pass(a, b \cup {d.arm}, c)
    BY <1>3 DEF RecordOutcome, Pass
  <2> QED BY <2>1, <1>3
<1>4. CASE /\ c = "none" /\ d.arm \notin b /\ o.err = "none"
           /\ ~(WindowOpen(market, d, o.unfilled) /\ FillOwedSession(d.session) > s)
  <2>1. RecordOutcome(market, s, Pass(a, b, c), d, o) = Pass(Append(a, o), b, c)
    BY <1>4 DEF RecordOutcome, Pass
  <2> QED BY <2>1, <1>4
<1> QED BY <1>1, <1>2, <1>3, <1>4

(* The passes after each of the pending decisions.                         *)
PassAfter(f, s, q, n) ==
  IF n = 0 THEN Pass(outcomes, {}, "none")
  ELSE RecordOutcome(MarketThrough(s), s, f[n - 1], q[n],
                     OutcomeOf(MarketThrough(s), f[n - 1].records, q[n], clock))

IsPassRun(f, s, q, n) == f = [k \in 0..n |-> PassAfter(f, s, q, k)]

LEMMA PassRunsExist ==
  ASSUME NEW s, NEW q, NEW n \in Nat
  PROVE  \E f : IsPassRun(f, s, q, n)
<1> DEFINE Lacking == {m \in Nat : ~\E f : IsPassRun(f, s, q, m)}
<1> SUFFICES ASSUME Lacking # {} PROVE FALSE
  OBVIOUS
<1>1. PICK m \in Lacking : \A x \in Lacking : m <= x
  <2>1. Lacking \in SUBSET Nat
    OBVIOUS
  <2> HIDE DEF Lacking
  <2> QED BY <2>1, LeastNat
<1>2. m \in Nat /\ ~\E f : IsPassRun(f, s, q, m)
  OBVIOUS
<1>3. CASE m = 0
  <2>1. PICK f : f = [k \in 0..0 |-> Pass(outcomes, {}, "none")]
    OBVIOUS
  <2>2. f = [k \in 0..0 |-> PassAfter(f, s, q, k)]
    BY <2>1 DEF PassAfter
  <2> QED BY <2>2, <1>2, <1>3 DEF IsPassRun
<1>4. CASE m # 0
  <2>1. m - 1 \in Nat /\ m - 1 \notin Lacking
    BY <1>1, <1>2, <1>4
  <2>2. PICK f : IsPassRun(f, s, q, m - 1)
    BY <2>1
  <2>3. PICK g : g = [k \in 0..m |-> IF k = m THEN PassAfter(f, s, q, m) ELSE f[k]]
    OBVIOUS
  <2>4. ASSUME NEW k \in 0..m PROVE g[k] = PassAfter(g, s, q, k)
    <3>1. CASE k = 0
      <4>1. 0 \in 0..(m - 1) /\ g[0] = f[0]
        BY <2>1, <2>3, <1>4
      <4>2. f[0] = PassAfter(f, s, q, 0)
        BY <4>1, <2>2, Zenon DEF IsPassRun
      <4> QED BY <3>1, <4>1, <4>2 DEF PassAfter
    <3>2. CASE k # 0
      <4>1. k - 1 \in 0..(m - 1) /\ g[k - 1] = f[k - 1]
        BY <3>2, <2>1, <2>3
      <4>2. PassAfter(g, s, q, k) = PassAfter(f, s, q, k)
        BY <3>2, <4>1 DEF PassAfter
      <4>3. k # m => k \in 0..(m - 1) /\ g[k] = f[k]
        BY <2>1, <2>3
      <4>4. k # m => f[k] = PassAfter(f, s, q, k)
        BY <4>3, <2>2, Zenon DEF IsPassRun
      <4>5. g[m] = PassAfter(f, s, q, m)
        BY <2>1, <2>3
      <4> QED BY <4>2, <4>3, <4>4, <4>5
    <3> QED BY <3>1, <3>2
  <2>5. g = [k \in 0..m |-> PassAfter(g, s, q, k)]
    BY <2>3, <2>4
  <2> QED BY <2>5, <1>2 DEF IsPassRun
<1> QED BY <1>3, <1>4

LEMMA PassesRun ==
  ASSUME NEW s, NEW q, q = PendingDecisions(s), Len(q) \in Nat
  PROVE  \E f : IsPassRun(f, s, q, Len(q)) /\ RecordOutcomes(s) = f[Len(q)]
<1> DEFINE P(f) == f = [k \in 0..Len(q) |->
                          IF k = 0 THEN [records |-> outcomes, deferred |-> {}, err |-> "none"]
                          ELSE RecordOutcome(MarketThrough(s), s, f[k - 1], q[k],
                                 OutcomeOf(MarketThrough(s), f[k - 1].records, q[k], clock))]
<1>1. \E f : P(f)
  <2>1. PICK f : IsPassRun(f, s, q, Len(q))
    BY PassRunsExist
  <2>2. P(f)
    BY <2>1 DEF IsPassRun, PassAfter, Pass
  <2> HIDE DEF P
  <2> QED BY <2>2
<1>2. RecordOutcomes(s) = (CHOOSE f : P(f))[Len(q)]
  BY DEF RecordOutcomes
<1>3. P(CHOOSE f : P(f))
  <2> HIDE DEF P
  <2> QED BY <1>1
<1>4. PICK f : P(f) /\ RecordOutcomes(s) = f[Len(q)]
  <2> HIDE DEF P
  <2> QED BY <1>2, <1>3
<1> QED BY <1>4 DEF IsPassRun, PassAfter, Pass

(* What holds after n of the pending decisions: nothing recorded is lost,  *)
(* what is new comes from them, a decision that was passed over is not yet *)
(* owed, and no outcome is ahead of an older decision of its arm.          *)
PassKeeps(a) ==
  IsLog(a) /\ Len(outcomes) <= Len(a) /\ \A i \in 1..Len(outcomes) : a[i] = outcomes[i]

PassComesFrom(s, q, a, n) ==
  \A i \in 1..Len(a) : i > Len(outcomes) => \E m \in 1..n : OutcomeIn(MarketThrough(s), a[i], q[m])

PassCovers(q, a, b, n) ==
  \A m \in 1..n : q[m].arm \notin b => \E i \in 1..Len(a) : Names(a[i], q[m])

PassDefers(s, q, a, b, n) ==
  /\ \A arm \in b : \E m \in 1..n : q[m].arm = arm /\ FillOwedSession(q[m].session) > s
  /\ \A m \in 1..n : \/ \E i \in 1..Len(a) : Names(a[i], q[m])
                     \/ FillOwedSession(q[m].session) > s

InOrderThrough(a) ==
  \A i \in 1..Len(a) : \A d \in sealed :
    d.arm = a[i].arm /\ d.session < a[i].session => \E j \in 1..(i - 1) : Names(a[j], d)

PassInv(s, q, a, b, n) ==
  PassKeeps(a) /\ PassComesFrom(s, q, a, n) /\ PassCovers(q, a, b, n) /\ PassDefers(s, q, a, b, n) /\ InOrderThrough(a)

(* The pending decisions as a pass takes them.                             *)
Lists(q, s) ==
  /\ Len(q) \in Nat /\ q \in [1..Len(q) -> PendingSet(s)]
  /\ \A d \in PendingSet(s) : \E n \in 1..Len(q) : q[n] = d
  /\ \A m, n \in 1..Len(q) : m < n => DecisionBefore(q[m], q[n])

LEMMA OldestFirst ==
  ASSUME SealedOnce, NEW s, NEW q, Lists(q, s), NEW m \in 1..Len(q), NEW n \in 1..Len(q), m < n
  PROVE  /\ q[m] \in sealed /\ q[n] \in sealed
         /\ q[m].session \in Int /\ q[n].session \in Int /\ q[m].session <= q[n].session
<1>1. q[m] \in sealed /\ q[n] \in sealed
  BY DEF Lists, PendingSet
<1>2. q[m].session \in Int /\ q[n].session \in Int
  BY <1>1 DEF SealedOnce
<1>3. DecisionBefore(q[m], q[n])
  BY DEF Lists
<1> QED BY <1>1, <1>2, <1>3 DEF DecisionBefore

LEMMA LaterIsOwedLater ==
  ASSUME NEW s \in Int, NEW x \in Int, NEW y \in Int, x <= y
  PROVE  /\ FillOwedSession(x) > s => FillOwedSession(y) > s
         /\ FillDueSession(y) <= s => FillDueSession(x) <= s
         /\ FillDueSession(x) >= x /\ FillDueSession(x) <= FillOwedSession(x)
<1>1. PICK u \in Nat, v \in Nat, w \in Nat : u = FirstAttempt /\ v = MaxFillBars /\ w = DelayBars /\ u >= w /\ v >= 1
  BY FillsAssumption DEF FirstAttempt
<1>2. /\ FillOwedSession(x) = x + u + 2 * v - 1 /\ FillOwedSession(y) = y + u + 2 * v - 1
      /\ FillDueSession(x) = x + w /\ FillDueSession(y) = y + w
  BY <1>1 DEF FillOwedSession, FillDueSession
<1>3. PICK a \in Int, b \in Int : a = u + 2 * v - 1 /\ b = w /\ b <= a /\ b >= 0
  BY <1>1
<1>4. x + u + 2 * v - 1 = x + a /\ y + u + 2 * v - 1 = y + a
  BY <1>3
<1> QED BY <1>2, <1>3, <1>4

LEMMA PassSkips ==
  ASSUME SealedOnce, NEW s \in Int, NEW q, Lists(q, s), NEW n \in 1..Len(q), NEW a, NEW b,
         PassInv(s, q, a, b, n - 1), q[n].arm \in b
  PROVE  PassInv(s, q, a, b, n)
<1>1. n \in Nat /\ Len(q) \in Nat /\ \A m \in 1..n : m = n \/ m \in 1..(n - 1)
  BY DEF Lists
<1>2. 1..(n - 1) \subseteq 1..n
  BY <1>1
<1>3. PassKeeps(a) /\ InOrderThrough(a)
  BY DEF PassInv
<1>4. PassComesFrom(s, q, a, n)
  BY <1>2 DEF PassInv, PassComesFrom
<1>5. PassCovers(q, a, b, n)
  BY <1>1 DEF PassInv, PassCovers
<1>6. FillOwedSession(q[n].session) > s
  <2>1. PICK m \in 1..(n - 1) : q[m].arm = q[n].arm /\ FillOwedSession(q[m].session) > s
    BY DEF PassInv, PassDefers
  <2>2. m \in 1..Len(q) /\ m < n
    BY <1>1
  <2>3. PICK x, y \in Int : x = q[m].session /\ y = q[n].session /\ x <= y
    BY <2>2, OldestFirst
  <2>4. FillOwedSession(x) > s => FillOwedSession(y) > s
    BY <2>3, LaterIsOwedLater
  <2> QED BY <2>1, <2>3, <2>4
<1>7. PassDefers(s, q, a, b, n)
  BY <1>1, <1>2, <1>6 DEF PassInv, PassDefers
<1> QED BY <1>3, <1>4, <1>5, <1>7 DEF PassInv

LEMMA PassDefersOne ==
  ASSUME SealedOnce, NEW s \in Int, NEW q, Lists(q, s), NEW n \in 1..Len(q), NEW a, NEW b,
         PassInv(s, q, a, b, n - 1), FillOwedSession(q[n].session) > s
  PROVE  PassInv(s, q, a, b \cup {q[n].arm}, n)
<1>1. n \in Nat /\ Len(q) \in Nat /\ \A m \in 1..n : m = n \/ m \in 1..(n - 1)
  BY DEF Lists
<1>2. 1..(n - 1) \subseteq 1..n /\ n \in 1..n
  BY <1>1
<1>3. PassKeeps(a) /\ InOrderThrough(a)
  BY DEF PassInv
<1>4. PassComesFrom(s, q, a, n)
  BY <1>2 DEF PassInv, PassComesFrom
<1>5. PassCovers(q, a, b \cup {q[n].arm}, n)
  BY <1>1 DEF PassInv, PassCovers
<1>6. PassDefers(s, q, a, b \cup {q[n].arm}, n)
  BY <1>1, <1>2 DEF PassInv, PassDefers
<1> QED BY <1>3, <1>4, <1>5, <1>6 DEF PassInv

LEMMA PassRecords ==
  ASSUME SealedOnce, NEW s \in Int, NEW q, Lists(q, s), NEW n \in 1..Len(q), NEW a, NEW b,
         IsLog(outcomes), PassInv(s, q, a, b, n - 1), q[n].arm \notin b, NEW o,
         OutcomeIn(MarketThrough(s), o, q[n])
  PROVE  PassInv(s, q, Append(a, o), b, n)
<1>0. Names(o, q[n])
  BY DEF OutcomeIn
<1>1. n \in Nat /\ Len(q) \in Nat /\ \A m \in 1..n : m = n \/ m \in 1..(n - 1)
  BY DEF Lists
<1>2. 1..(n - 1) \subseteq 1..n /\ n \in 1..n
  BY <1>1
<1>3. IsLog(a) /\ Len(outcomes) \in Nat
  BY LogPlaces DEF PassInv, PassKeeps
<1>4. PICK e : e = Append(a, o)
  OBVIOUS
<1>5. /\ IsLog(e) /\ Len(a) \in Nat /\ Len(e) = Len(a) + 1
      /\ \A i \in 1..Len(a) : e[i] = a[i]
      /\ e[Len(a) + 1] = o
  BY <1>3, <1>4, AppendedLog
<1>6. /\ \A i \in 1..Len(e) : i = Len(a) + 1 \/ i \in 1..Len(a)
      /\ 1..Len(a) \subseteq 1..Len(e) /\ Len(a) + 1 \in 1..Len(e)
  BY <1>5
<1>7. PassKeeps(e)
  BY <1>3, <1>5 DEF PassInv, PassKeeps
<1>8. PassComesFrom(s, q, e, n)
  BY <1>2, <1>5, <1>6 DEF PassInv, PassComesFrom
<1>9. PassCovers(q, e, b, n)
  BY <1>0, <1>1, <1>5, <1>6 DEF PassInv, PassCovers
<1>10. PassDefers(s, q, e, b, n)
  BY <1>0, <1>1, <1>2, <1>5, <1>6 DEF PassInv, PassDefers
<1>11. InOrderThrough(e)
  <2> SUFFICES ASSUME NEW i \in 1..Len(e), NEW d \in sealed, d.arm = e[i].arm, d.session < e[i].session
               PROVE  \E j \in 1..(i - 1) : Names(e[j], d)
    BY DEF InOrderThrough
  <2>1. CASE i \in 1..Len(a)
    <3>1. PICK j \in 1..(i - 1) : Names(a[j], d)
      BY <2>1, <1>5 DEF PassInv, InOrderThrough
    <3>2. j \in 1..Len(a)
      BY <2>1, <3>1, <1>5
    <3> QED BY <3>1, <3>2, <1>5
  <2>2. CASE i = Len(a) + 1
    <3>1. e[i] = o /\ i - 1 = Len(a) /\ d.arm = q[n].arm /\ d.session < q[n].session
      BY <1>0, <2>2, <1>5 DEF Names
    <3>2. q[n] \in PendingSet(s) /\ q[n] \in sealed
      BY DEF Lists, PendingSet
    <3>3. CASE Recorded(outcomes, d)
      <4>1. PICK i1 \in 1..Len(outcomes) : Names(outcomes[i1], d)
        BY <3>3, LogPlaces DEF Recorded, ToSet, Names
      <4>2. i1 \in 1..Len(a) /\ a[i1] = outcomes[i1]
        BY <1>3, <1>5 DEF PassInv, PassKeeps
      <4> QED BY <4>1, <4>2, <3>1, <1>5
    <3>4. CASE ~Recorded(outcomes, d)
      <4>1. PICK x \in Int, y \in Int : x = d.session /\ y = q[n].session
        BY <3>2 DEF SealedOnce
      <4>2. FillDueSession(q[n].session) <= s
        BY <3>2 DEF PendingSet
      <4>3. FillDueSession(d.session) <= s
        <5>1. x <= y /\ FillDueSession(y) <= s
          BY <4>1, <4>2, <3>1
        <5>2. FillDueSession(x) <= s
          BY <5>1, LaterIsOwedLater
        <5> QED BY <4>1, <5>2
      <4>4. PICK m \in 1..Len(q) : q[m] = d
        BY <3>4, <4>3 DEF Lists, PendingSet
      <4>5. ~(n < m) /\ n # m
        <5>1. n < m => y <= x
          BY <4>1, <4>4, OldestFirst
        <5>2. x < y
          BY <4>1, <3>1
        <5>3. n # m
          BY <4>1, <4>4, <5>2
        <5> QED BY <4>1, <5>1, <5>2, <5>3
      <4>6. m \in 1..(n - 1)
        BY <4>5, <1>1
      <4>7. PICK j \in 1..Len(a) : Names(a[j], d)
        BY <4>4, <4>6, <3>1 DEF PassInv, PassCovers
      <4> QED BY <4>7, <3>1, <1>5
    <3> QED BY <3>3, <3>4
  <2> QED BY <2>1, <2>2, <1>6
<1> QED BY <1>4, <1>7, <1>8, <1>9, <1>10, <1>11 DEF PassInv

(* A pass that raises no error keeps its promises.                         *)
LEMMA OutcomesOfAPass ==
  ASSUME SealedOnce, NEW s \in Int, IsLog(outcomes), InOrderThrough(outcomes),
         RecordOutcomes(s).err = "none"
  PROVE  \E q, b : Lists(q, s) /\ PassInv(s, q, RecordOutcomes(s).records, b, Len(q))
<1>1. PICK q : q = PendingDecisions(s)
  OBVIOUS
<1>2. Lists(q, s)
  BY <1>1, PendingAreListed DEF Lists
<1>3. PICK N \in Nat : N = Len(q)
  <2>1. Len(q) \in Nat
    BY <1>2 DEF Lists
  <2> QED BY <2>1
<1>4. PICK f : IsPassRun(f, s, q, N) /\ RecordOutcomes(s) = f[N]
  BY <1>1, <1>2, <1>3, PassesRun DEF Lists
<1>5. \A k \in 0..N : f[k] = PassAfter(f, s, q, k)
  BY <1>4 DEF IsPassRun
<1> DEFINE Good(n) == \E a, b, c : f[n] = Pass(a, b, c) /\ (c = "none" => PassInv(s, q, a, b, n))
           Bad == {n \in 0..N : ~Good(n)}
<1>6. Good(0)
  <2>1. f[0] = Pass(outcomes, {}, "none")
    <3>1. 0 \in 0..N
      OBVIOUS
    <3>2. f[0] = PassAfter(f, s, q, 0)
      BY <3>1, <1>5, Zenon
    <3> QED BY <3>2 DEF PassAfter
  <2>2. PassInv(s, q, outcomes, {}, 0)
    <3>1. PassKeeps(outcomes)
      BY LogPlaces DEF PassKeeps
    <3>2. 1..0 = {} /\ Len(outcomes) \in Nat
      BY LogPlaces
    <3>3. PassComesFrom(s, q, outcomes, 0)
      BY <3>2 DEF PassComesFrom
    <3>4. PassCovers(q, outcomes, {}, 0)
      BY <3>2 DEF PassCovers
    <3>5. PassDefers(s, q, outcomes, {}, 0)
      BY <3>2 DEF PassDefers
    <3> QED BY <3>1, <3>3, <3>4, <3>5 DEF PassInv
  <2> QED BY <2>1, <2>2
<1>7. ASSUME NEW n \in 1..N, Good(n - 1) PROVE Good(n)
  <2>1. n \in 1..Len(q) /\ n \in 0..N /\ n # 0
    BY <1>3
  <2>2. PICK a, b, c : f[n - 1] = Pass(a, b, c) /\ (c = "none" => PassInv(s, q, a, b, n - 1))
    BY <1>7
  <2>3. PICK o : o = OutcomeOf(MarketThrough(s), f[n - 1].records, q[n], clock)
    OBVIOUS
  <2>4. f[n] = RecordOutcome(MarketThrough(s), s, Pass(a, b, c), q[n], o)
    <3>1. f[n] = PassAfter(f, s, q, n)
      BY <2>1, <1>5, Zenon
    <3> QED BY <3>1, <2>1, <2>2, <2>3 DEF PassAfter
  <2>5. OutcomeIn(MarketThrough(s), o, q[n])
    BY <2>3, OutcomeIsOfItsDecision
  <2>6. PICK records, deferred, err :
          /\ f[n] = Pass(records, deferred, err)
          /\ \/ err # "none"
             \/ c = "none" /\ q[n].arm \in b /\ records = a /\ deferred = b
             \/ /\ c = "none" /\ q[n].arm \notin b /\ FillOwedSession(q[n].session) > s
                /\ records = a /\ deferred = b \cup {q[n].arm}
             \/ c = "none" /\ q[n].arm \notin b /\ records = Append(a, o) /\ deferred = b
    BY <2>4, RecordOutcomeCases
  <2>7. err = "none" => PassInv(s, q, records, deferred, n)
    <3>1. CASE c = "none" /\ q[n].arm \in b /\ records = a /\ deferred = b
      BY <3>1, <2>1, <2>2, <1>2, PassSkips
    <3>2. CASE /\ c = "none" /\ q[n].arm \notin b /\ FillOwedSession(q[n].session) > s
               /\ records = a /\ deferred = b \cup {q[n].arm}
      BY <3>2, <2>1, <2>2, <1>2, PassDefersOne
    <3>3. CASE c = "none" /\ q[n].arm \notin b /\ records = Append(a, o) /\ deferred = b
      BY <3>3, <2>1, <2>2, <2>5, <1>2, PassRecords
    <3> QED BY <3>1, <3>2, <3>3, <2>6
  <2> QED BY <2>6, <2>7
<1>8. Bad = {}
  <2> SUFFICES ASSUME Bad # {} PROVE FALSE
    OBVIOUS
  <2>1. Bad \in SUBSET Nat
    OBVIOUS
  <2> HIDE DEF Bad
  <2>2. PICK m \in Bad : \A x \in Bad : m <= x
    BY <2>1, LeastNat
  <2> USE DEF Bad
  <2> HIDE DEF Good
  <2>3. m \in 0..N /\ ~Good(m)
    OBVIOUS
  <2>4. m # 0
    BY <2>3, <1>6
  <2>5. m - 1 \in 0..N /\ m \in 1..N
    BY <2>3, <2>4
  <2>6. ~(m <= m - 1)
    BY <2>3
  <2>7. m - 1 \notin Bad
    BY <2>2, <2>6
  <2>8. Good(m - 1)
    BY <2>5, <2>7
  <2> QED BY <2>3, <2>5, <2>8, <1>7
<1>9. Good(N)
  <2> HIDE DEF Good
  <2>1. N \in 0..N
    OBVIOUS
  <2> QED BY <1>8, <2>1
<1>10. PICK a, b, c : f[N] = Pass(a, b, c) /\ (c = "none" => PassInv(s, q, a, b, N))
  BY <1>9
<1>11. c = "none" /\ RecordOutcomes(s).records = a
  BY <1>10, <1>4 DEF Pass
<1> QED BY <1>2, <1>3, <1>10, <1>11

(* What the pass of a fill job commits.                                    *)
LEMMA FillPassParts ==
  ASSUME NEW s, ~FillPass(s).err
  PROVE  /\ RecordOutcomes(s).err = "none"
         /\ FillPass(s).records = RecordOutcomes(s).records
         /\ \E points : FillPass(s).breaks =
              ReconcileShadow(sealed, ToSet(RecordOutcomes(s).records), s, points)
<1>1. PICK done : done = RecordOutcomes(s)
  OBVIOUS
<1>2. \E points : FillPass(s) =
        [records |-> done.records, err |-> done.err # "none" \/ (\E p \in points : p.err # "none"),
         breaks |-> IF \E p \in points : p.err # "none" THEN {}
                    ELSE ReconcileShadow(sealed, ToSet(done.records), s, points)]
  BY <1>1 DEF FillPass
<1>3. PICK points : FillPass(s) =
        [records |-> done.records, err |-> done.err # "none" \/ (\E p \in points : p.err # "none"),
         breaks |-> IF \E p \in points : p.err # "none" THEN {}
                    ELSE ReconcileShadow(sealed, ToSet(done.records), s, points)]
  BY <1>2
<1>a. PICK e : e = (done.err # "none" \/ \E p \in points : p.err # "none")
  OBVIOUS
<1>b. FillPass(s).err = e
  BY <1>3, <1>a
<1>4. ~(done.err # "none" \/ \E p \in points : p.err # "none")
  BY <1>a, <1>b, Zenon
<1>5. FillPass(s).breaks = ReconcileShadow(sealed, ToSet(done.records), s, points)
  BY <1>3, <1>4
<1> QED BY <1>1, <1>3, <1>4, <1>5

-----------------------------------------------------------------------------
(* The halt state of a decision.                                           *)

LEMMA RankedStates ==
  /\ \A s \in FaultStates : FaultRank(s) \in 0..2
  /\ \A r \in Int : FromRank(r) \in FaultStates /\ FaultRank(FromRank(r)) <= 2
                    /\ (r \in 0..2 => FaultRank(FromRank(r)) = r)
  /\ Flatten \notin FaultStates
BY DEF FaultStates, FaultRank, FromRank, Flatten

LEMMA FloorIsAState ==
  ASSUME NEW faults
  PROVE  FaultFloor(faults) \in FaultStates
BY DEF FaultFloor, FaultStates

(* A re-arm relaxes the state by a step at the most.                       *)
LEMMA ReArmIsOneStep ==
  ASSUME NEW s \in FaultStates, NEW to \in FaultStates, NEW faults
  PROVE  /\ EvaluateHaltState(s, faults, to, FALSE) \in FaultStates
         /\ FaultRank(EvaluateHaltState(s, faults, to, FALSE)) + 1 >= FaultRank(s)
<1>1. PICK floor : floor = FaultFloor(faults)
  OBVIOUS
<1>2. floor \in FaultStates
  BY <1>1, FloorIsAState
<1>3. s # Flatten /\ to # "none"
  BY RankedStates DEF FaultStates
<1>4. EvaluateHaltState(s, faults, to, FALSE) = ReArmed(s, to, floor)
  BY <1>1, <1>3 DEF EvaluateHaltState
<1>5. PICK a \in 0..2, b \in 0..2, c \in 0..2 : a = FaultRank(s) /\ b = FaultRank(to) /\ c = FaultRank(floor)
  BY <1>2, RankedStates
<1>6. PICK r : r = Greater(Greater(b, a - 1), c)
  OBVIOUS
<1>7. r \in 0..2 /\ r >= a - 1
  BY <1>6 DEF Greater
<1>8. ReArmed(s, to, floor) = FromRank(r)
  BY <1>5, <1>6 DEF ReArmed
<1>9. FromRank(r) \in FaultStates /\ FaultRank(FromRank(r)) = r
  BY <1>7, RankedStates
<1>10. FaultRank(EvaluateHaltState(s, faults, to, FALSE)) = r
  BY <1>4, <1>8, <1>9
<1>11. r + 1 >= a
  BY <1>7
<1> QED BY <1>4, <1>5, <1>8, <1>9, <1>10, <1>11

(* Without a re-arm the state is the more restrictive of it and the floor. *)
LEMMA FaultsOnlyRestrict ==
  ASSUME NEW s \in FaultStates, NEW faults
  PROVE  /\ EvaluateHaltState(s, faults, "none", FALSE) \in FaultStates
         /\ FaultRank(EvaluateHaltState(s, faults, "none", FALSE)) >= FaultRank(s)
         /\ FaultFloor(faults) = "HOLD_ONLY" => EvaluateHaltState(s, faults, "none", FALSE) = "HOLD_ONLY"
<1>1. PICK floor \in FaultStates : floor = FaultFloor(faults)
  BY FloorIsAState
<1>2. EvaluateHaltState(s, faults, "none", FALSE) = MoreRestrictive(s, floor)
  BY <1>1, RankedStates DEF EvaluateHaltState
<1>3. FaultRank(s) \in 0..2 /\ FaultRank(floor) \in 0..2
  BY RankedStates
<1>4. MoreRestrictive(s, floor) \in FaultStates /\ FaultRank(MoreRestrictive(s, floor)) >= FaultRank(s)
  BY <1>3 DEF MoreRestrictive
<1>5. floor = "HOLD_ONLY" => MoreRestrictive(s, floor) = "HOLD_ONLY"
  BY DEF MoreRestrictive, FaultRank, FaultStates
<1> QED BY <1>1, <1>2, <1>4, <1>5

(* The states of a halt input, re-arm by re-arm.                           *)
StateAfter(f, context, log, faults, k) ==
  IF k = 0 THEN context.current
  ELSE IF k \in context.reArms THEN EvaluateHaltState(f[k - 1], faults, log[k].to, FALSE)
  ELSE f[k - 1]

IsHaltRun(f, context, log, faults, n) ==
  f = [k \in 0..n |-> StateAfter(f, context, log, faults, k)]

LEMMA HaltRunsExist ==
  ASSUME NEW context, NEW log, NEW faults, NEW n \in Nat
  PROVE  \E f : IsHaltRun(f, context, log, faults, n)
<1> DEFINE Lacking == {m \in Nat : ~\E f : IsHaltRun(f, context, log, faults, m)}
<1> SUFFICES ASSUME Lacking # {} PROVE FALSE
  OBVIOUS
<1>1. PICK m \in Lacking : \A x \in Lacking : m <= x
  <2>1. Lacking \in SUBSET Nat
    OBVIOUS
  <2> HIDE DEF Lacking
  <2> QED BY <2>1, LeastNat
<1>2. m \in Nat /\ ~\E f : IsHaltRun(f, context, log, faults, m)
  OBVIOUS
<1>3. CASE m = 0
  <2>1. PICK f : f = [k \in 0..0 |-> context.current]
    OBVIOUS
  <2>2. f = [k \in 0..0 |-> StateAfter(f, context, log, faults, k)]
    BY <2>1 DEF StateAfter
  <2> QED BY <2>2, <1>2, <1>3 DEF IsHaltRun
<1>4. CASE m # 0
  <2>1. m - 1 \in Nat /\ m - 1 \notin Lacking
    BY <1>1, <1>2, <1>4
  <2>2. PICK f : IsHaltRun(f, context, log, faults, m - 1)
    BY <2>1
  <2>3. PICK g : g = [k \in 0..m |-> IF k = m THEN StateAfter(f, context, log, faults, m) ELSE f[k]]
    OBVIOUS
  <2>4. ASSUME NEW k \in 0..m PROVE g[k] = StateAfter(g, context, log, faults, k)
    <3>1. CASE k = 0
      <4>1. 0 \in 0..(m - 1) /\ g[0] = f[0]
        BY <2>1, <2>3, <1>4
      <4>2. f[0] = StateAfter(f, context, log, faults, 0)
        BY <4>1, <2>2, Zenon DEF IsHaltRun
      <4> QED BY <3>1, <4>1, <4>2 DEF StateAfter
    <3>2. CASE k # 0
      <4>1. k - 1 \in 0..(m - 1) /\ g[k - 1] = f[k - 1]
        BY <3>2, <2>1, <2>3
      <4>2. StateAfter(g, context, log, faults, k) = StateAfter(f, context, log, faults, k)
        BY <3>2, <4>1 DEF StateAfter
      <4>3. k # m => k \in 0..(m - 1) /\ g[k] = f[k]
        BY <2>1, <2>3
      <4>4. k # m => f[k] = StateAfter(f, context, log, faults, k)
        BY <4>3, <2>2, Zenon DEF IsHaltRun
      <4>5. g[m] = StateAfter(f, context, log, faults, m)
        BY <2>1, <2>3
      <4> QED BY <4>2, <4>3, <4>4, <4>5
    <3> QED BY <3>1, <3>2
  <2>5. g = [k \in 0..m |-> StateAfter(g, context, log, faults, k)]
    BY <2>3, <2>4
  <2> QED BY <2>5, <1>2 DEF IsHaltRun
<1> QED BY <1>3, <1>4

LEMMA HaltInputRuns ==
  ASSUME NEW context, NEW log, NEW faults, Len(log) \in Nat
  PROVE  \E f : IsHaltRun(f, context, log, faults, Len(log)) /\ HaltInput(context, log, faults) = f[Len(log)]
<1> DEFINE P(f) == f = [k \in 0..Len(log) |->
                          IF k = 0 THEN context.current
                          ELSE IF k \in context.reArms THEN EvaluateHaltState(f[k - 1], faults, log[k].to, FALSE)
                          ELSE f[k - 1]]
<1>1. \E f : P(f)
  <2>1. PICK f : IsHaltRun(f, context, log, faults, Len(log))
    BY HaltRunsExist
  <2>2. P(f)
    BY <2>1 DEF IsHaltRun, StateAfter
  <2> HIDE DEF P
  <2> QED BY <2>2
<1>2. HaltInput(context, log, faults) = (CHOOSE f : P(f))[Len(log)]
  BY DEF HaltInput
<1>3. P(CHOOSE f : P(f))
  <2> HIDE DEF P
  <2> QED BY <1>1
<1>4. PICK f : P(f) /\ HaltInput(context, log, faults) = f[Len(log)]
  <2> HIDE DEF P
  <2> QED BY <1>2, <1>3
<1> QED BY <1>4 DEF IsHaltRun, StateAfter

(* A halt input is below the state it starts from by no more than its      *)
(* re-arms.                                                                *)
LEMMA ReArmsRelaxByOne ==
  ASSUME NEW context, NEW log, NEW faults, Len(log) \in Nat, context.current \in FaultStates,
         context.reArms \subseteq 1..Len(log), \A k \in 1..Len(log) : log[k].to \in FaultStates
  PROVE  /\ HaltInput(context, log, faults) \in FaultStates
         /\ FaultRank(HaltInput(context, log, faults)) + Cardinality(context.reArms)
              >= FaultRank(context.current)
<1>1. PICK f : IsHaltRun(f, context, log, faults, Len(log)) /\ HaltInput(context, log, faults) = f[Len(log)]
  BY HaltInputRuns
<1>a. PICK n \in Nat : n = Len(log)
  OBVIOUS
<1>2. PICK R \in SUBSET (1..n), c \in FaultStates :
        n = Len(log) /\ R = context.reArms /\ c = context.current
  BY <1>a
<1> DEFINE Upto(m) == {k \in R : k <= m}
           Good(m) == f[m] \in FaultStates /\ FaultRank(f[m]) + Cardinality(Upto(m)) >= FaultRank(c)
           Bad == {m \in 0..n : ~Good(m)}
<1>3. \A k \in 0..n : f[k] = StateAfter(f, context, log, faults, k)
  BY <1>1, <1>2 DEF IsHaltRun
<1>4. ASSUME NEW m \in Nat PROVE IsFiniteSet(Upto(m)) /\ Cardinality(Upto(m)) \in Nat
  <2>1. IsFiniteSet(1..n)
    BY FS_Interval
  <2>2. Upto(m) \subseteq 1..n
    OBVIOUS
  <2> QED BY <2>1, <2>2, FS_Subset, FS_CardinalityType
<1>5. Good(0)
  <2>1. f[0] = c
    <3>1. 0 \in 0..n
      OBVIOUS
    <3>2. f[0] = StateAfter(f, context, log, faults, 0)
      BY <3>1, <1>3, Zenon
    <3> QED BY <3>2, <1>2 DEF StateAfter
  <2>2. FaultRank(c) \in 0..2 /\ Cardinality(Upto(0)) \in Nat
    BY <1>4, RankedStates
  <2> QED BY <2>1, <2>2
<1>6. ASSUME NEW m \in 1..n, Good(m - 1) PROVE Good(m)
  <2>1. m - 1 \in Nat /\ m \in Nat /\ m \in 0..n /\ m # 0
    OBVIOUS
  <2>2. PICK s \in FaultStates : s = f[m - 1]
    BY <1>6
  <2>3. PICK a \in Nat, b \in Nat, x \in 0..2, y \in 0..2 :
          /\ a = Cardinality(Upto(m - 1)) /\ b = Cardinality(Upto(m))
          /\ x = FaultRank(s) /\ y = FaultRank(c)
    BY <1>4, <2>1, RankedStates
  <2>4. x + a >= y
    BY <1>6, <2>2, <2>3
  <2>5. CASE m \in R
    <3>1. Upto(m) = Upto(m - 1) \cup {m} /\ m \notin Upto(m - 1)
      <4>1. \A k \in R : k \in Int /\ (k <= m <=> k <= m - 1 \/ k = m)
        BY <2>1
      <4>2. m \in Int /\ ~(m <= m - 1)
        BY <2>1
      <4> QED BY <2>5, <4>1, <4>2
    <3>2. b = a + 1
      BY <3>1, <2>1, <2>3, <1>4, FS_AddElement
    <3>3. f[m] = EvaluateHaltState(s, faults, log[m].to, FALSE)
      BY <1>2, <1>3, <2>1, <2>2, <2>5 DEF StateAfter
    <3>4. log[m].to \in FaultStates
      BY <1>2
    <3>5. f[m] \in FaultStates /\ FaultRank(f[m]) + 1 >= x
      BY <3>3, <3>4, <2>3, ReArmIsOneStep
    <3>6. FaultRank(f[m]) \in 0..2
      BY <3>5, RankedStates
    <3>7. PICK z \in 0..2 : z = FaultRank(f[m])
      BY <3>6
    <3>8. z + b >= y
      BY <3>2, <3>5, <3>7, <2>4
    <3> QED BY <3>5, <3>7, <3>8, <2>3
  <2>6. CASE m \notin R
    <3>1. Upto(m) = Upto(m - 1)
      <4>1. \A k \in R : k \in Int /\ (k <= m <=> k <= m - 1 \/ k = m)
        BY <2>1
      <4> QED BY <2>6, <4>1
    <3>2. f[m] = s
      BY <1>2, <1>3, <2>1, <2>2, <2>6 DEF StateAfter
    <3> QED BY <3>1, <3>2, <2>3, <2>4
  <2> QED BY <2>5, <2>6
<1>7. Bad = {}
  <2> SUFFICES ASSUME Bad # {} PROVE FALSE
    OBVIOUS
  <2>1. Bad \in SUBSET Nat
    OBVIOUS
  <2> HIDE DEF Bad
  <2>2. PICK m \in Bad : \A x \in Bad : m <= x
    BY <2>1, LeastNat
  <2> USE DEF Bad
  <2> HIDE DEF Good
  <2>3. m \in 0..n /\ ~Good(m)
    OBVIOUS
  <2>4. m # 0
    BY <2>3, <1>5
  <2>5. m - 1 \in 0..n /\ m \in 1..n
    BY <2>3, <2>4
  <2>6. ~(m <= m - 1)
    BY <2>3
  <2>7. m - 1 \notin Bad
    BY <2>2, <2>6
  <2>8. Good(m - 1)
    BY <2>5, <2>7
  <2> QED BY <2>3, <2>5, <2>8, <1>6
<1>8. Good(n)
  <2> HIDE DEF Good
  <2>1. n \in 0..n
    OBVIOUS
  <2> QED BY <1>7, <2>1
<1>9. Upto(n) = R
  BY <1>2
<1> QED BY <1>1, <1>2, <1>8, <1>9

(* The decision's own state takes no re-arm: it is not less restrictive    *)
(* than its input, and an unresolved break holds it.                       *)
LEMMA DecisionHaltState ==
  ASSUME NEW context, NEW log, NEW faults, Len(log) \in Nat, context.current \in FaultStates,
         context.reArms \subseteq 1..Len(log), \A k \in 1..Len(log) : log[k].to \in FaultStates
  PROVE  LET halt == DecisionHalt(context, log, faults)
         IN /\ halt \in FaultStates
            /\ FaultRank(halt) + Cardinality(context.reArms) >= FaultRank(context.current)
            /\ "RECONCILIATION_UNRESOLVED" \in faults => halt = "HOLD_ONLY"
<1>1. PICK s \in FaultStates : s = HaltInput(context, log, faults)
  BY ReArmsRelaxByOne
<1>2. PICK halt : halt = DecisionHalt(context, log, faults)
  OBVIOUS
<1>3. halt = EvaluateHaltState(s, faults, "none", FALSE)
  BY <1>1, <1>2 DEF DecisionHalt
<1>4. halt \in FaultStates /\ FaultRank(halt) >= FaultRank(s)
  BY <1>3, FaultsOnlyRestrict
<1>5. FaultRank(s) + Cardinality(context.reArms) >= FaultRank(context.current)
  BY <1>1, ReArmsRelaxByOne
<1>6. Cardinality(context.reArms) \in Nat
  <2>1. IsFiniteSet(1..Len(log))
    BY FS_Interval
  <2> QED BY <2>1, FS_Subset, FS_CardinalityType
<1>7. FaultRank(halt) \in 0..2 /\ FaultRank(s) \in 0..2 /\ FaultRank(context.current) \in 0..2
  BY <1>4, RankedStates
<1>8. FaultRank(halt) + Cardinality(context.reArms) >= FaultRank(context.current)
  BY <1>4, <1>5, <1>6, <1>7
<1>9. ASSUME "RECONCILIATION_UNRESOLVED" \in faults PROVE FaultFloor(faults) = "HOLD_ONLY"
  BY <1>9 DEF FaultFloor, Demands, HoldSignals
<1>10. "RECONCILIATION_UNRESOLVED" \in faults => halt = "HOLD_ONLY"
  BY <1>3, <1>9, FaultsOnlyRestrict
<1> QED BY <1>2, <1>4, <1>8, <1>10

(* The state a decision starts from is that of the most restrictive of the *)
(* records before it.                                                      *)
LEMMA CurrentIsMostRestrictive ==
  ASSUME NEW previous, \A d \in previous : d.halt \in FaultStates
  PROVE  /\ CurrentHalt(previous) \in FaultStates
         /\ \A d \in previous : FaultRank(CurrentHalt(previous)) >= FaultRank(d.halt)
<1>1. PICK r \in 0..2 : r = IF \E d \in previous : AsFaultState(d.halt) = "HOLD_ONLY" THEN 2
                            ELSE IF \E d \in previous : AsFaultState(d.halt) = "HALT_NEW_RISK" THEN 1 ELSE 0
  OBVIOUS
<1>2. CurrentHalt(previous) = FromRank(r)
  BY <1>1 DEF CurrentHalt
<1>3. CurrentHalt(previous) \in FaultStates /\ FaultRank(CurrentHalt(previous)) = r
  BY <1>2, RankedStates
<1>4. ASSUME NEW d \in previous PROVE r >= FaultRank(d.halt)
  BY <1>1 DEF AsFaultState, FaultRank, FaultStates
<1> QED BY <1>3, <1>4

(* A log in the order of its instants.                                     *)
InTime(log) ==
  /\ IsLog(log) /\ \A i \in 1..Len(log) : log[i].at \in Nat
  /\ \A i, j \in 1..Len(log) : i < j => log[i].at <= log[j].at

LEMMA LatestIsLast ==
  ASSUME NEW log, InTime(log), NEW t \in Int, KnownBy(log, t) # {}
  PROVE  /\ Latest(log, t) \in KnownBy(log, t)
         /\ \A j \in KnownBy(log, t) : j <= Latest(log, t)
<1>1. Len(log) \in Nat /\ KnownBy(log, t) \in SUBSET (1..Len(log))
  BY LogPlaces DEF InTime, KnownBy
<1>2. \E i \in KnownBy(log, t) : \A j \in KnownBy(log, t) : j <= i
  BY <1>1, GreatestPlace
<1> QED BY <1>2 DEF Latest

(* What is known at an instant is the beginning of the log.                *)
LEMMA KnownIsBeginning ==
  ASSUME NEW log, InTime(log), NEW t \in Int, NEW i \in KnownBy(log, t), NEW j \in 1..(i - 1)
  PROVE  j \in KnownBy(log, t)
<1>1. Len(log) \in Nat /\ i \in 1..Len(log) /\ DOMAIN log = 1..Len(log)
  BY LogPlaces DEF InTime, KnownBy
<1>2. j \in 1..Len(log) /\ j < i
  BY <1>1
<1>3. PICK a \in Nat, b \in Nat : a = log[j].at /\ b = log[i].at /\ a <= b
  BY <1>1, <1>2 DEF InTime
<1>4. b <= t
  BY <1>3 DEF KnownBy
<1>5. a <= t
  BY <1>3, <1>4
<1> QED BY <1>1, <1>2, <1>3, <1>5 DEF KnownBy

(* An occurrence of a break begins in one place.                           *)
LEMMA FirstReportIsUnique ==
  ASSUME NEW log, InTime(log), NEW t \in Int, NEW code, NEW i \in KnownBy(log, t),
         \A j \in KnownBy(log, t) : j >= i => code \in log[j].breaks,
         i = 1 \/ code \notin log[i - 1].breaks
  PROVE  FirstReport(log, t, code) = i
<1> DEFINE Begins(k) == /\ \A j \in KnownBy(log, t) : j >= k => code \in log[j].breaks
                        /\ k = 1 \/ code \notin log[k - 1].breaks
<1>1. \A k \in KnownBy(log, t) : k \in Nat /\ k >= 1
  BY LogPlaces DEF InTime, KnownBy
<1>2. ASSUME NEW k \in KnownBy(log, t), NEW m \in KnownBy(log, t), Begins(k), Begins(m), k < m PROVE FALSE
  <2>1. m - 1 \in 1..(m - 1) /\ m - 1 >= k /\ m # 1
    BY <1>1, <1>2
  <2>2. m - 1 \in KnownBy(log, t)
    BY <2>1, KnownIsBeginning
  <2> QED BY <2>1, <2>2, <1>2
<1>3. Begins(i)
  OBVIOUS
<1> HIDE DEF Begins
<1>4. ASSUME NEW k \in KnownBy(log, t), Begins(k) PROVE k = i
  <2>1. ~(k < i) /\ ~(i < k)
    BY <1>2, <1>3, <1>4
  <2> QED BY <2>1, <1>1
<1>5. FirstReport(log, t, code) = CHOOSE k \in KnownBy(log, t) : Begins(k)
  BY DEF FirstReport, Begins
<1> QED BY <1>3, <1>4, <1>5

-----------------------------------------------------------------------------
(* The inductive invariant.                                                *)

RunStates == {"none", "running", "pending", "succeeded", "failed"}

Jobs == {"decision", "fill"}

Run == [state : RunStates, at : Nat]

TimeInv == clock \in Nat /\ runs \in [Jobs -> [1..Sessions -> Run]]

(* A run of the decision job that has not succeeded has sealed nothing,    *)
(* and none was claimed after its time.                                    *)
DecisionRun(s, r) ==
  /\ r.state \in {"running", "pending"} => r.at < RunAt(s) + Lookback
  /\ r.state = "running" => r.at = clock /\ RunAt(s) <= clock /\ IsWeeklyDecisionSession(s)
  /\ r.state # "succeeded" => \A d \in sealed : d.session # s

RunInv == \A s \in 1..Sessions : DecisionRun(s, runs["decision"][s])

(* A sealed decision was sealed after its own instant, and by the next.    *)
SealedInTime(d) ==
  /\ d.session \in 1..Sessions /\ d.at = DecisionAt(d.session) /\ d.halt \in FaultStates
  /\ d.sealedAt \in Nat /\ RunAt(d.session) <= d.sealedAt /\ d.sealedAt < RunAt(d.session) + Lookback

SealInv ==
  /\ SealedOnce
  /\ \A d \in sealed : SealedInTime(d) /\ d.sealedAt <= clock
  /\ \A d \in sealed : \A arm \in Arms : \E e \in sealed : e.arm = arm /\ e.session = d.session

ReconcilesInv ==
  /\ InTime(reconciles)
  /\ \A i \in 1..Len(reconciles) :
       /\ reconciles[i].session \in 1..Sessions /\ reconciles[i].at <= clock
       /\ RunAt(reconciles[i].session) <= reconciles[i].at

ReArmsInv ==
  IsLog(reArms) /\ \A k \in 1..Len(reArms) : reArms[k].to \in FaultStates /\ reArms[k].at \in Nat /\ reArms[k].at <= clock

OutcomesInv ==
  IsLog(outcomes) /\ \A i \in 1..Len(outcomes) : \E d \in sealed : Names(outcomes[i], d)

LogInv == ReconcilesInv /\ ReArmsInv /\ OutcomesInv

(* Of a gap every reconcile knows at once, whether or not its decision can *)
(* still be sealed.                                                        *)
GapsAreKnown ==
  \A i \in 1..Len(reconciles) : \A s \in 1..reconciles[i].session : \A arm \in Arms :
    (/\ IsWeeklyDecisionSession(s) /\ \E d \in sealed : d.session <= s /\ d.sealedAt <= reconciles[i].at
     /\ ~\E d \in sealed : d.arm = arm /\ d.session = s)
    => <<"MISSING_DECISION_RECORD", arm, s>> \in reconciles[i].breaks

LoopInv == TimeInv /\ RunInv /\ SealInv /\ LogInv

Promises == HaltsAreSticky /\ UnresolvedBreaksHold /\ InOrderThrough(outcomes) /\ DeferralIsNoBreak /\ GapsAreKnown

(* Nothing is sealed for a session that is still to come.                  *)
LEMMA SealedAreNotAhead ==
  ASSUME TimeInv, SealInv, NEW s \in 1..Sessions, clock < RunAt(s) + Lookback, NEW d \in sealed
  PROVE  d.session \in 1..Sessions /\ d.session <= s
<1>1. PICK x \in Int, y \in Int : x = d.session /\ y = d.sealedAt /\ RunAt(x) <= y /\ y <= clock
  BY DEF SealInv, SealedInTime
<1>2. clock \in Int /\ s \in Int
  BY DEF TimeInv
<1>3. 2 * x + 1 <= y /\ y <= clock /\ clock < 2 * s + 1 + 2
  BY <1>1 DEF RunAt, Lookback
<1>4. x <= s
  BY <1>1, <1>2, <1>3
<1> QED BY <1>1, <1>4 DEF SealInv, SealedInTime

(* What a run becomes touches no other run.                                *)
LEMMA FinishedRun ==
  ASSUME TimeInv, NEW j \in Jobs, NEW s \in 1..Sessions, NEW state \in RunStates, Finish(j, s, state),
         clock' = clock
  PROVE  /\ TimeInv' /\ runs'[j][s] = [state |-> state, at |-> clock]
         /\ \A k \in Jobs, x \in 1..Sessions : k # j \/ x # s => runs'[k][x] = runs[k][x]
<1>1. [state |-> state, at |-> clock] \in Run
  BY DEF TimeInv, Run
<1>2. runs \in [Jobs -> [1..Sessions -> Run]]
  BY DEF TimeInv
<1>3. runs' = [runs EXCEPT ![j][s] = [state |-> state, at |-> clock]]
  BY DEF Finish
<1>4. runs' \in [Jobs -> [1..Sessions -> Run]]
  BY <1>1, <1>2, <1>3
<1>5. runs'[j][s] = [state |-> state, at |-> clock]
  BY <1>2, <1>3
<1>6. \A k \in Jobs, x \in 1..Sessions : k # j \/ x # s => runs'[k][x] = runs[k][x]
  BY <1>2, <1>3
<1> QED BY <1>4, <1>5, <1>6 DEF TimeInv

LEMMA InitHolds ==
  ASSUME Init
  PROVE  LoopInv /\ Promises
<1>1. /\ clock = DecisionAt(Week)
      /\ sealed = {} /\ outcomes = <<>> /\ reconciles = <<>> /\ reArms = <<>>
      /\ runs = [j \in {"decision", "fill"} |->
                   [s \in 1..Sessions |-> [state |-> IF s < Week THEN "succeeded" ELSE "none", at |-> 0]]]
  BY DEF Init
<1>2. IsLog(<<>>) /\ Len(<<>>) = 0 /\ DOMAIN <<>> = {} /\ 1..0 = {}
  <2>1. <<>> \in Seq({})
    OBVIOUS
  <2> QED BY <2>1 DEF IsLog
<1>3. TimeInv
  <2>1. clock \in Nat
    BY <1>1, WeekAssumption DEF DecisionAt
  <2>2. ASSUME NEW s \in 1..Sessions PROVE [state |-> IF s < Week THEN "succeeded" ELSE "none", at |-> 0] \in Run
    BY DEF Run, RunStates
  <2>3. runs \in [Jobs -> [1..Sessions -> Run]]
    BY <1>1, <2>2 DEF Jobs
  <2> QED BY <2>1, <2>3 DEF TimeInv
<1>4. RunInv
  BY <1>1 DEF RunInv, DecisionRun
<1>5. SealInv
  BY <1>1, FS_EmptySet DEF SealInv, SealedOnce
<1>6. LogInv
  BY <1>1, <1>2 DEF LogInv, ReconcilesInv, ReArmsInv, OutcomesInv, InTime
<1>7. Promises
  BY <1>1, <1>2 DEF Promises, HaltsAreSticky, UnresolvedBreaksHold, InOrderThrough, DeferralIsNoBreak, GapsAreKnown
<1> QED BY <1>3, <1>4, <1>5, <1>6, <1>7 DEF LoopInv

(* A step that touches nothing but the clock or the runs.                  *)
LEMMA OnlyRuns ==
  ASSUME LoopInv, Promises, UNCHANGED <<sealed, outcomes, reconciles, reArms>>,
         clock' \in Nat, clock' >= clock, TimeInv', RunInv'
  PROVE  LoopInv' /\ Promises'
<1>1. clock \in Nat
  BY DEF LoopInv, TimeInv
<1>2. SealInv'
  <2>1. SealedOnce'
    BY DEF LoopInv, SealInv, SealedOnce
  <2>2. ASSUME NEW d \in sealed PROVE SealedInTime(d)' /\ d.sealedAt <= clock'
    <3>1. SealedInTime(d) /\ d.sealedAt <= clock
      BY DEF LoopInv, SealInv
    <3>2. SealedInTime(d)' /\ d.sealedAt \in Nat
      BY <3>1 DEF SealedInTime
    <3> QED BY <3>1, <3>2, <1>1
  <2> QED BY <2>1, <2>2 DEF LoopInv, SealInv
<1>3. LogInv'
  <2>1. ReconcilesInv'
    <3>1. InTime(reconciles)' /\ Len(reconciles') = Len(reconciles)
      BY DEF LoopInv, LogInv, ReconcilesInv, InTime
    <3>2. ASSUME NEW i \in 1..Len(reconciles) PROVE reconciles[i].at <= clock'
      <4>1. PICK a \in Nat : a = reconciles[i].at /\ a <= clock
        BY DEF LoopInv, LogInv, ReconcilesInv, InTime
      <4> QED BY <4>1, <1>1
    <3> QED BY <3>1, <3>2 DEF LoopInv, LogInv, ReconcilesInv
  <2>2. ReArmsInv'
    <3>1. ASSUME NEW i \in 1..Len(reArms) PROVE reArms[i].at <= clock'
      <4>1. PICK a \in Nat : a = reArms[i].at /\ a <= clock
        BY DEF LoopInv, LogInv, ReArmsInv
      <4> QED BY <4>1, <1>1
    <3> QED BY <3>1 DEF LoopInv, LogInv, ReArmsInv
  <2>3. OutcomesInv'
    BY DEF LoopInv, LogInv, OutcomesInv
  <2> QED BY <2>1, <2>2, <2>3 DEF LogInv
<1>4. Promises'
  BY DEF Promises, HaltsAreSticky, UnresolvedBreaksHold, InOrderThrough, DeferralIsNoBreak, GapsAreKnown
<1> QED BY <1>2, <1>3, <1>4 DEF LoopInv

LEMMA TickHolds ==
  ASSUME LoopInv, Promises, Tick
  PROVE  LoopInv' /\ Promises'
<1>1. /\ clock' = clock + 1 /\ UNCHANGED <<sealed, outcomes, reconciles, reArms>> /\ runs' = runs
      /\ \A s \in 1..Sessions : runs["decision"][s].state # "running"
  BY Zenon DEF Tick
<1>2. clock \in Nat /\ clock' \in Nat /\ clock' >= clock
  BY <1>1 DEF LoopInv, TimeInv
<1>3. TimeInv'
  BY <1>1, <1>2 DEF LoopInv, TimeInv
<1>4. RunInv'
  <2>1. ASSUME NEW s \in 1..Sessions PROVE DecisionRun(s, runs["decision"][s])'
    <3>1. DecisionRun(s, runs["decision"][s])
      BY DEF LoopInv, RunInv
    <3> QED BY <3>1, <1>1 DEF DecisionRun
  <2> QED BY <2>1 DEF RunInv
<1> QED BY <1>1, <1>2, <1>3, <1>4, OnlyRuns

(* A run that ends, or starts, where the invariant lets it.                *)
LEMMA DecisionRunEnds ==
  ASSUME LoopInv, NEW s \in 1..Sessions, NEW state \in RunStates, Finish("decision", s, state),
         clock' = clock, sealed' = sealed,
         DecisionRun(s, [state |-> state, at |-> clock])
  PROVE  TimeInv' /\ RunInv'
<1>1. /\ TimeInv' /\ runs'["decision"][s] = [state |-> state, at |-> clock]
      /\ \A x \in 1..Sessions : x # s => runs'["decision"][x] = runs["decision"][x]
  BY FinishedRun DEF LoopInv, Jobs
<1>2. ASSUME NEW x \in 1..Sessions PROVE DecisionRun(x, runs["decision"][x])'
  <2>1. CASE x = s
    BY <2>1, <1>1 DEF DecisionRun
  <2>2. CASE x # s
    <3>1. DecisionRun(x, runs["decision"][x])
      BY DEF LoopInv, RunInv
    <3> QED BY <3>1, <2>2, <1>1 DEF DecisionRun
  <2> QED BY <2>1, <2>2
<1> QED BY <1>1, <1>2 DEF RunInv

LEMMA FillRunEnds ==
  ASSUME LoopInv, NEW s \in 1..Sessions, NEW state \in RunStates, Finish("fill", s, state),
         clock' = clock, sealed' = sealed
  PROVE  TimeInv' /\ RunInv'
<1>1. /\ TimeInv'
      /\ \A x \in 1..Sessions : runs'["decision"][x] = runs["decision"][x]
  BY FinishedRun DEF LoopInv, Jobs
<1>2. ASSUME NEW x \in 1..Sessions PROVE DecisionRun(x, runs["decision"][x])'
  <2>1. DecisionRun(x, runs["decision"][x])
    BY DEF LoopInv, RunInv
  <2> QED BY <2>1, <1>1 DEF DecisionRun
<1> QED BY <1>1, <1>2 DEF RunInv

(* What the invariant says of a run that is being handled.                 *)
LEMMA RunningDecision ==
  ASSUME LoopInv, NEW s \in 1..Sessions, runs["decision"][s].state = "running"
  PROVE  /\ clock \in Nat /\ RunAt(s) <= clock /\ clock < RunAt(s) + Lookback /\ IsWeeklyDecisionSession(s)
         /\ runs["decision"][s].at = clock
         /\ \A d \in sealed : d.session \in 1..Sessions /\ d.session < s
<1>1. DecisionRun(s, runs["decision"][s])
  BY DEF LoopInv, RunInv
<1>2. /\ RunAt(s) <= clock /\ clock < RunAt(s) + Lookback /\ IsWeeklyDecisionSession(s)
      /\ runs["decision"][s].at = clock
  BY <1>1 DEF DecisionRun
<1>3. ASSUME NEW d \in sealed PROVE d.session \in 1..Sessions /\ d.session < s
  <2>1. d.session \in 1..Sessions /\ d.session <= s
    BY <1>2, SealedAreNotAhead DEF LoopInv
  <2>2. d.session # s
    BY <1>1 DEF DecisionRun
  <2> QED BY <2>1, <2>2
<1> QED BY <1>2, <1>3 DEF LoopInv, TimeInv

LEMMA DecisionRunsHold ==
  ASSUME LoopInv, Promises, NEW s \in 1..Sessions,
         DecisionClaim(s) \/ DecisionSkip(s) \/ DecisionThrow(s) \/ DecisionCrash(s)
  PROVE  LoopInv' /\ Promises'
<1>1. clock' = clock /\ UNCHANGED <<sealed, outcomes, reconciles, reArms>>
  BY Zenon DEF DecisionClaim, DecisionSkip, DecisionThrow, DecisionCrash
<1>2. ASSUME DecisionClaim(s) PROVE TimeInv' /\ RunInv'
  <2>1. Due(s) /\ IsWeeklyDecisionSession(s) /\ runs["decision"][s].state = "none" /\ Finish("decision", s, "running")
    BY <1>2, Zenon DEF DecisionClaim
  <2>2. DecisionRun(s, runs["decision"][s])
    BY DEF LoopInv, RunInv
  <2>3. DecisionRun(s, [state |-> "running", at |-> clock])
    BY <2>1, <2>2 DEF DecisionRun, Due
  <2>4. "running" \in RunStates
    BY DEF RunStates
  <2> QED BY <2>1, <2>3, <2>4, <1>1, DecisionRunEnds
<1>3. ASSUME DecisionSkip(s) PROVE TimeInv' /\ RunInv'
  <2>1. Finish("decision", s, "succeeded")
    BY <1>3, Zenon DEF DecisionSkip
  <2>2. DecisionRun(s, [state |-> "succeeded", at |-> clock]) /\ "succeeded" \in RunStates
    BY DEF DecisionRun, RunStates
  <2> QED BY <2>1, <2>2, <1>1, DecisionRunEnds
<1>4. ASSUME DecisionThrow(s) PROVE TimeInv' /\ RunInv'
  <2>1. runs["decision"][s].state = "running" /\ Finish("decision", s, "failed")
    BY <1>4, Zenon DEF DecisionThrow
  <2>2. \A d \in sealed : d.session \in 1..Sessions /\ d.session < s
    BY <2>1, RunningDecision
  <2>3. DecisionRun(s, [state |-> "failed", at |-> clock]) /\ "failed" \in RunStates
    BY <2>2 DEF DecisionRun, RunStates
  <2> QED BY <2>1, <2>3, <1>1, DecisionRunEnds
<1>5. ASSUME DecisionCrash(s) PROVE TimeInv' /\ RunInv'
  <2>1. runs["decision"][s].state = "running" /\ Finish("decision", s, "pending")
    BY <1>5, Zenon DEF DecisionCrash
  <2>2. clock < RunAt(s) + Lookback /\ \A d \in sealed : d.session \in 1..Sessions /\ d.session < s
    BY <2>1, RunningDecision
  <2>3. DecisionRun(s, [state |-> "pending", at |-> clock]) /\ "pending" \in RunStates
    BY <2>2 DEF DecisionRun, RunStates
  <2> QED BY <2>1, <2>3, <1>1, DecisionRunEnds
<1>6. TimeInv' /\ RunInv'
  BY <1>2, <1>3, <1>4, <1>5
<1>7. clock' \in Nat /\ clock' >= clock
  BY <1>1 DEF LoopInv, TimeInv
<1> QED BY <1>1, <1>6, <1>7, OnlyRuns

LEMMA FillIdleHolds ==
  ASSUME LoopInv, Promises, NEW s \in 1..Sessions, FillIdle(s)
  PROVE  LoopInv' /\ Promises'
<1>1. /\ clock' = clock /\ UNCHANGED <<sealed, outcomes, reconciles, reArms>>
      /\ Finish("fill", s, "succeeded") /\ "succeeded" \in RunStates
  BY Zenon DEF FillIdle, RunStates
<1>2. TimeInv' /\ RunInv'
  BY <1>1, FillRunEnds
<1>3. clock' \in Nat /\ clock' >= clock
  BY <1>1 DEF LoopInv, TimeInv
<1> QED BY <1>1, <1>2, <1>3, OnlyRuns

-----------------------------------------------------------------------------
(* A re-arm.                                                               *)

(* More re-arms between two decisions excuse no less.                      *)
LEMMA MoreReArms ==
  ASSUME NEW r, IsLog(r), NEW B \in SUBSET (DOMAIN r), NEW A \in SUBSET B
  PROVE  /\ IsFiniteSet(A) /\ IsFiniteSet(B)
         /\ Cardinality(A) \in Nat /\ Cardinality(B) \in Nat /\ Cardinality(A) <= Cardinality(B)
<1>1. Len(r) \in Nat /\ DOMAIN r = 1..Len(r)
  BY LogPlaces
<1>2. IsFiniteSet(1..Len(r))
  BY <1>1, FS_Interval
<1>3. IsFiniteSet(B)
  BY <1>1, <1>2, FS_Subset
<1>4. IsFiniteSet(A) /\ Cardinality(A) <= Cardinality(B)
  BY <1>3, FS_Subset
<1> QED BY <1>3, <1>4, FS_CardinalityType

LEMMA ReArmHolds ==
  ASSUME LoopInv, Promises, ReArm
  PROVE  LoopInv' /\ Promises'
<1>1. PICK to, acks : to \in FaultStates /\ reArms' = Append(reArms, [to |-> to, at |-> clock, acks |-> acks])
  BY DEF ReArm, ReArmAccepted
<1>2. UNCHANGED <<clock, sealed, outcomes, reconciles, runs>>
  BY Zenon DEF ReArm
<1>3. /\ IsLog(reArms) /\ IsLog(reArms') /\ Len(reArms) \in Nat /\ Len(reArms') = Len(reArms) + 1
      /\ \A i \in 1..Len(reArms) : reArms'[i] = reArms[i]
      /\ reArms'[Len(reArms) + 1] = [to |-> to, at |-> clock, acks |-> acks]
      /\ DOMAIN reArms = 1..Len(reArms) /\ DOMAIN reArms' = 1..(Len(reArms) + 1)
  BY <1>1, AppendedLog DEF LoopInv, LogInv, ReArmsInv
<1>4. ReArmsInv'
  <2>1. ASSUME NEW k \in 1..Len(reArms')
        PROVE  reArms'[k].to \in FaultStates /\ reArms'[k].at \in Nat /\ reArms'[k].at <= clock'
    <3>1. CASE k \in 1..Len(reArms)
      BY <3>1, <1>2, <1>3 DEF LoopInv, LogInv, ReArmsInv
    <3>2. CASE k = Len(reArms) + 1
      BY <3>2, <1>1, <1>2, <1>3 DEF LoopInv, TimeInv
    <3> QED BY <3>1, <3>2, <1>3
  <2> QED BY <2>1, <1>3 DEF ReArmsInv
<1>5. LoopInv'
  <2>1. TimeInv' /\ RunInv'
    BY <1>2 DEF LoopInv, TimeInv, RunInv, DecisionRun
  <2>2. SealInv'
    BY <1>2 DEF LoopInv, SealInv, SealedOnce, SealedInTime
  <2>3. ReconcilesInv' /\ OutcomesInv'
    BY <1>2 DEF LoopInv, LogInv, ReconcilesInv, OutcomesInv, InTime
  <2> QED BY <2>1, <2>2, <2>3, <1>4 DEF LoopInv, LogInv
<1>6. HaltsAreSticky'
  <2> SUFFICES ASSUME NEW d \in sealed, NEW e \in sealed, d.session < e.session
               PROVE  FaultRank(e.halt)
                        + Cardinality({i \in DOMAIN reArms' : d.at < reArms'[i].at /\ reArms'[i].at <= e.at})
                        >= FaultRank(d.halt)
    BY <1>2 DEF HaltsAreSticky
  <2>1. PICK m, n :
          /\ m = Cardinality({i \in DOMAIN reArms : d.at < reArms[i].at /\ reArms[i].at <= e.at})
          /\ n = Cardinality({i \in DOMAIN reArms' : d.at < reArms'[i].at /\ reArms'[i].at <= e.at})
    OBVIOUS
  <2>2. m \in Nat /\ n \in Nat /\ m <= n
    <3>1. PICK A, B : /\ A = {i \in DOMAIN reArms : d.at < reArms[i].at /\ reArms[i].at <= e.at}
                      /\ B = {i \in DOMAIN reArms' : d.at < reArms'[i].at /\ reArms'[i].at <= e.at}
      OBVIOUS
    <3>2. DOMAIN reArms \subseteq DOMAIN reArms'
      BY <1>3
    <3>3. \A i \in DOMAIN reArms : reArms'[i] = reArms[i]
      BY <1>3
    <3>4. A \in SUBSET B /\ B \in SUBSET (DOMAIN reArms')
      BY <3>1, <3>2, <3>3
    <3>5. PICK r : r = reArms' /\ IsLog(r)
      BY <1>3
    <3>6. m = Cardinality(A) /\ n = Cardinality(B)
      BY <2>1, <3>1
    <3> QED BY <3>4, <3>5, <3>6, MoreReArms
  <2>3. PICK a \in 0..2, b \in 0..2 : a = FaultRank(d.halt) /\ b = FaultRank(e.halt)
    BY RankedStates DEF LoopInv, SealInv, SealedInTime
  <2>4. b + m >= a
    BY <2>1, <2>3 DEF Promises, HaltsAreSticky
  <2>5. b + n >= a
    BY <2>2, <2>3, <2>4
  <2> QED BY <2>1, <2>3, <2>5
<1>7. UnresolvedBreaksHold'
  <2> SUFFICES ASSUME NEW d \in sealed, NEW i \in DOMAIN reconciles, NEW code \in reconciles[i].breaks,
                      reconciles[i].session < d.session, reconciles[i].at <= d.at,
                      i > 1 => code \notin reconciles[i - 1].breaks,
                      \A j \in i..Len(reconciles) : reconciles[j].at <= d.at => code \in reconciles[j].breaks,
                      \A k \in DOMAIN reArms' :
                        code \in reArms'[k].acks => reArms'[k].at < reconciles[i].at \/ reArms'[k].at > d.at
               PROVE  d.halt = "HOLD_ONLY"
    BY <1>2 DEF UnresolvedBreaksHold
  <2>1. \A k \in DOMAIN reArms :
          code \in reArms[k].acks => reArms[k].at < reconciles[i].at \/ reArms[k].at > d.at
    BY <1>3
  <2> QED BY <2>1 DEF Promises, UnresolvedBreaksHold
<1>8. (InOrderThrough(outcomes) /\ DeferralIsNoBreak /\ GapsAreKnown)'
  BY <1>2 DEF Promises, InOrderThrough, DeferralIsNoBreak, GapsAreKnown
<1> QED BY <1>5, <1>6, <1>7, <1>8 DEF Promises

-----------------------------------------------------------------------------
(* A fill run.                                                             *)

(* The first session that anything was sealed for is no later than any.    *)
LEMMA FirstIsFirst ==
  ASSUME SealInv, sealed # {}
  PROVE  /\ FirstSealed(sealed) \in 1..Sessions
         /\ \A d \in sealed : FirstSealed(sealed) <= d.session
<1>1. \A d \in sealed : d.session \in 1..Sessions
  BY DEF SealInv, SealedInTime
<1>2. PICK S : S = {d.session : d \in sealed}
  OBVIOUS
<1>3. S \in SUBSET Nat /\ S # {} /\ S \subseteq 1..Sessions
  BY <1>1, <1>2
<1>4. \E n \in S : \A m \in S : n <= m
  BY <1>3, LeastNat
<1>5. \E n \in S : \A d \in sealed : n <= d.session
  BY <1>2, <1>4
<1>6. FirstSealed(sealed) \in S /\ \A d \in sealed : FirstSealed(sealed) <= d.session
  BY <1>2, <1>5 DEF FirstSealed
<1> QED BY <1>3, <1>6

LEMMA BreaksOfAPass ==
  ASSUME SealInv, IsLog(outcomes), InOrderThrough(outcomes), NEW s \in 1..Sessions,
         ~FillPass(s).err
  PROVE  /\ \A b \in FillPass(s).breaks : b[1] # "MISSING_FILL_RECORD"
         /\ \A x \in 1..s : \A arm \in Arms :
              (/\ IsWeeklyDecisionSession(x) /\ \E d \in sealed : d.session <= x
               /\ ~\E d \in sealed : d.arm = arm /\ d.session = x)
              => <<"MISSING_DECISION_RECORD", arm, x>> \in FillPass(s).breaks
<1>1. PICK a : a = RecordOutcomes(s).records
  OBVIOUS
<1>2. PICK points : FillPass(s).breaks = ReconcileShadow(sealed, ToSet(a), s, points)
  BY <1>1, FillPassParts
<1>3. PICK q, b : Lists(q, s) /\ PassInv(s, q, a, b, Len(q))
  BY <1>1, FillPassParts, OutcomesOfAPass DEF SealInv
<1>4. IsLog(a) /\ DOMAIN a = 1..Len(a) /\ Len(a) \in Nat
  BY <1>3, LogPlaces DEF PassInv, PassKeeps
<1>5. MissingFills(sealed, ToSet(a), s) = {}
  <2> SUFFICES ASSUME NEW d \in sealed, FillOwedSession(d.session) <= s,
                      ~\E o \in ToSet(a) : o.arm = d.arm /\ o.session = d.session
               PROVE  FALSE
    BY DEF MissingFills
  <2>1. ~\E i \in 1..Len(a) : Names(a[i], d)
    BY <1>4 DEF ToSet, Names
  <2>2. ~Recorded(outcomes, d)
    <3> SUFFICES ASSUME Recorded(outcomes, d) PROVE FALSE
      OBVIOUS
    <3>1. PICK i \in 1..Len(outcomes) : Names(outcomes[i], d)
      BY LogPlaces DEF Recorded, ToSet, Names
    <3>2. i \in 1..Len(a) /\ a[i] = outcomes[i]
      BY <1>3, <1>4, LogPlaces DEF PassInv, PassKeeps
    <3> QED BY <3>1, <3>2, <2>1
  <2>3. FillDueSession(d.session) <= s
    <3>1. PICK x \in Int : x = d.session
      BY DEF SealInv, SealedOnce
    <3>2. PICK y \in Int, z \in Int : y = FillDueSession(x) /\ z = FillOwedSession(x)
      <4>1. FillDueSession(x) \in Int /\ FillOwedSession(x) \in Int
        BY FillsAssumption DEF FillDueSession, FillOwedSession, FirstAttempt
      <4> QED BY <4>1
    <3>3. y <= z
      <4>1. x <= x
        BY <3>1
      <4> QED BY <3>2, <4>1, LaterIsOwedLater
    <3>4. z <= s
      BY <3>1, <3>2
    <3>5. y <= s
      BY <3>2, <3>3, <3>4
    <3> QED BY <3>1, <3>2, <3>5
  <2>4. PICK m \in 1..Len(q) : q[m] = d
    BY <2>2, <2>3, <1>3 DEF Lists, PendingSet
  <2>5. FillOwedSession(d.session) > s
    BY <2>1, <2>4, <1>3 DEF PassInv, PassDefers
  <2>6. PICK z \in Int : z = FillOwedSession(d.session)
    <3>1. PICK x \in Int : x = d.session
      BY DEF SealInv, SealedOnce
    <3>2. FillOwedSession(x) \in Int
      BY FillsAssumption DEF FillOwedSession, FirstAttempt
    <3> QED BY <3>1, <3>2
  <2> QED BY <2>5, <2>6
<1>6. ASSUME NEW k \in FillPass(s).breaks PROVE k[1] # "MISSING_FILL_RECORD"
  <2>1. k \in MissingDecisions(sealed, s) \cup UnfilledBreaks(ToSet(a)) \cup NegativeCash(points)
    BY <1>2, <1>5 DEF ReconcileShadow
  <2>2. CASE k \in MissingDecisions(sealed, s)
    <3>1. PICK u : k = <<"MISSING_DECISION_RECORD", u[1], u[2]>>
      BY <2>2 DEF MissingDecisions
    <3> QED BY <3>1
  <2>3. CASE k \in UnfilledBreaks(ToSet(a))
    <3>1. PICK o, u : k = <<"UNFILLED_REMAINDER", o.arm, o.session, u.entity>>
      BY <2>3 DEF UnfilledBreaks
    <3> QED BY <3>1
  <2>4. CASE k \in NegativeCash(points)
    <3>1. PICK p : k = <<"NEGATIVE_CASH", p.arm, p.session>>
      BY <2>4 DEF NegativeCash
    <3> QED BY <3>1
  <2> QED BY <2>1, <2>2, <2>3, <2>4
<1>7. ASSUME NEW x \in 1..s, NEW arm \in Arms, IsWeeklyDecisionSession(x),
             NEW d \in sealed, d.session <= x, ~\E e \in sealed : e.arm = arm /\ e.session = x
      PROVE  <<"MISSING_DECISION_RECORD", arm, x>> \in FillPass(s).breaks
  <2>1. PICK f \in 1..Sessions : f = FirstSealed(sealed) /\ f <= d.session
    BY FirstIsFirst
  <2>2. d.session \in 1..Sessions
    BY DEF SealInv, SealedInTime
  <2>3. x \in f..s
    BY <1>7, <2>1, <2>2
  <2>4. <<arm, x>> \in Arms \X (FirstSealed(sealed)..s)
    BY <2>1, <2>3
  <2>5. <<"MISSING_DECISION_RECORD", arm, x>> \in MissingDecisions(sealed, s)
    BY <2>4, <1>7 DEF MissingDecisions
  <2> QED BY <2>5, <1>2 DEF ReconcileShadow
<1> QED BY <1>6, <1>7

LEMMA FillRunHolds ==
  ASSUME LoopInv, Promises, NEW s \in 1..Sessions, FillRun(s)
  PROVE  LoopInv' /\ Promises'
<1>1. /\ UNCHANGED <<clock, sealed, reArms>> /\ FillDue(s)
      /\ \/ Finish("fill", s, "failed") /\ UNCHANGED <<outcomes, reconciles>>
         \/ /\ ~FillPass(s).err /\ Finish("fill", s, "succeeded")
            /\ outcomes' = FillPass(s).records
            /\ reconciles' = Append(reconciles, [session |-> s, at |-> clock, breaks |-> FillPass(s).breaks])
  BY Zenon DEF FillRun
<1>2. clock' \in Nat /\ clock' >= clock
  BY <1>1 DEF LoopInv, TimeInv
<1>3. "failed" \in RunStates /\ "succeeded" \in RunStates
  BY DEF RunStates
<1>4. TimeInv' /\ RunInv'
  BY <1>1, <1>3, FillRunEnds
<1>5. CASE UNCHANGED <<outcomes, reconciles>>
  BY <1>1, <1>2, <1>4, <1>5, OnlyRuns
<1>6. CASE /\ ~FillPass(s).err
           /\ outcomes' = FillPass(s).records
           /\ reconciles' = Append(reconciles, [session |-> s, at |-> clock, breaks |-> FillPass(s).breaks])
  <2>1. PICK new : new = [session |-> s, at |-> clock, breaks |-> FillPass(s).breaks]
    OBVIOUS
  <2>2. /\ IsLog(reconciles) /\ IsLog(reconciles') /\ Len(reconciles) \in Nat
        /\ Len(reconciles') = Len(reconciles) + 1
        /\ \A i \in 1..Len(reconciles) : reconciles'[i] = reconciles[i]
        /\ reconciles'[Len(reconciles) + 1] = new
        /\ DOMAIN reconciles = 1..Len(reconciles) /\ DOMAIN reconciles' = 1..(Len(reconciles) + 1)
    BY <1>6, <2>1, AppendedLog DEF LoopInv, LogInv, ReconcilesInv, InTime
  <2>3. /\ IsLog(outcomes) /\ InOrderThrough(outcomes) /\ SealInv /\ SealedOnce
        /\ DOMAIN outcomes = 1..Len(outcomes) /\ Len(outcomes) \in Nat
    BY LogPlaces DEF LoopInv, LogInv, OutcomesInv, SealInv, Promises
  <2>4. PICK a : a = FillPass(s).records
    OBVIOUS
  <2>5. PICK q, b : Lists(q, s) /\ PassInv(s, q, a, b, Len(q))
    BY <2>3, <2>4, <1>6, FillPassParts, OutcomesOfAPass
  <2>6. IsLog(a) /\ DOMAIN a = 1..Len(a) /\ Len(a) \in Nat
    BY <2>5, LogPlaces DEF PassInv, PassKeeps
  <2>7. clock \in Nat /\ RunAt(s) <= clock
    BY <1>1 DEF LoopInv, TimeInv, FillDue, Due
  <2>8. SealInv'
    BY <1>1, <2>3 DEF SealInv, SealedOnce, SealedInTime
  <2>9. ReconcilesInv'
    <3>1. ASSUME NEW i \in 1..Len(reconciles')
          PROVE  /\ reconciles'[i].session \in 1..Sessions /\ reconciles'[i].at <= clock'
                 /\ RunAt(reconciles'[i].session) <= reconciles'[i].at
                 /\ reconciles'[i].at \in Nat
      <4>1. CASE i \in 1..Len(reconciles)
        BY <4>1, <2>2, <1>1 DEF LoopInv, LogInv, ReconcilesInv, InTime
      <4>2. CASE i = Len(reconciles) + 1
        BY <4>2, <2>1, <2>2, <2>7, <1>1
      <4> QED BY <4>1, <4>2, <2>2
    <3>2. ASSUME NEW i \in 1..Len(reconciles'), NEW j \in 1..Len(reconciles'), i < j
          PROVE  reconciles'[i].at <= reconciles'[j].at
      <4>1. i \in 1..Len(reconciles)
        BY <3>2, <2>2
      <4>2. CASE j \in 1..Len(reconciles)
        BY <4>1, <4>2, <3>2, <2>2 DEF LoopInv, LogInv, ReconcilesInv, InTime
      <4>3. CASE j = Len(reconciles) + 1
        <5>1. reconciles'[j].at = clock /\ reconciles'[i].at = reconciles[i].at
          BY <4>1, <4>3, <2>1, <2>2
        <5> QED BY <5>1, <4>1 DEF LoopInv, LogInv, ReconcilesInv
      <4> QED BY <4>2, <4>3, <2>2
    <3> QED BY <3>1, <3>2, <2>2 DEF ReconcilesInv, InTime
  <2>10. OutcomesInv'
    <3>1. ASSUME NEW i \in 1..Len(a) PROVE \E d \in sealed : Names(a[i], d)
      <4>1. CASE i <= Len(outcomes)
        <5>1. i \in 1..Len(outcomes) /\ a[i] = outcomes[i]
          BY <4>1, <2>3, <2>5, <2>6 DEF PassInv, PassKeeps
        <5> QED BY <5>1 DEF LoopInv, LogInv, OutcomesInv
      <4>2. CASE i > Len(outcomes)
        <5>1. PICK m \in 1..Len(q) : Names(a[i], q[m])
          BY <4>2, <2>5 DEF PassInv, PassComesFrom, OutcomeIn
        <5>2. q[m] \in sealed
          BY <2>5 DEF Lists, PendingSet
        <5> QED BY <5>1, <5>2
      <4> QED BY <4>1, <4>2, <2>3, <2>6
    <3> QED BY <3>1, <2>4, <2>6, <1>1, <1>6 DEF OutcomesInv
  <2>11. ReArmsInv'
    BY <1>1 DEF LoopInv, LogInv, ReArmsInv
  <2>12. HaltsAreSticky'
    BY <1>1 DEF Promises, HaltsAreSticky
  <2>13. UnresolvedBreaksHold'
    <3> SUFFICES ASSUME NEW d \in sealed, NEW i \in DOMAIN reconciles', NEW code \in reconciles'[i].breaks,
                        reconciles'[i].session < d.session, reconciles'[i].at <= d.at,
                        i > 1 => code \notin reconciles'[i - 1].breaks,
                        \A j \in i..Len(reconciles') : reconciles'[j].at <= d.at => code \in reconciles'[j].breaks,
                        \A k \in DOMAIN reArms :
                          code \in reArms[k].acks => reArms[k].at < reconciles'[i].at \/ reArms[k].at > d.at
                 PROVE  d.halt = "HOLD_ONLY"
      BY <1>1 DEF UnresolvedBreaksHold
    <3>1. d.at \in Int /\ d.at < clock
      <4>1. PICK x \in Int, y \in Int : x = d.session /\ y = d.sealedAt /\ y <= clock /\ RunAt(x) <= y /\ d.at = DecisionAt(x)
        BY <2>3 DEF SealInv, SealedInTime
      <4>2. PICK c \in Int : c = clock
        BY <2>7
      <4>3. 2 * x + 1 <= y /\ d.at = 2 * x
        BY <4>1 DEF RunAt, DecisionAt
      <4>4. y <= c
        BY <4>1, <4>2
      <4>5. PICK z \in Int : z = 2 * x /\ z + 1 <= y
        <5>1. 2 * x \in Int
          BY <4>1
        <5> QED BY <5>1, <4>3
      <4>6. y \in Int
        BY <4>1
      <4>7. z < c
        BY <4>2, <4>4, <4>5, <4>6
      <4> QED BY <4>2, <4>3, <4>5, <4>7
    <3>2. i \in 1..Len(reconciles)
      <4>1. i # Len(reconciles) + 1
        BY <3>1, <2>1, <2>2, <2>7
      <4> QED BY <4>1, <2>2
    <3>3. reconciles'[i] = reconciles[i] /\ i \in DOMAIN reconciles
      BY <3>2, <2>2
    <3>4. i > 1 => code \notin reconciles[i - 1].breaks
      <4>1. i > 1 => i - 1 \in 1..Len(reconciles)
        BY <3>2, <2>2
      <4> QED BY <4>1, <2>2
    <3>5. \A j \in i..Len(reconciles) : reconciles[j].at <= d.at => code \in reconciles[j].breaks
      <4>1. \A j \in i..Len(reconciles) : j \in i..Len(reconciles') /\ reconciles'[j] = reconciles[j]
        BY <3>2, <2>2
      <4> QED BY <4>1
    <3> QED BY <3>3, <3>4, <3>5 DEF Promises, UnresolvedBreaksHold
  <2>14. InOrderThrough(outcomes)'
    BY <2>4, <2>5, <1>1, <1>6 DEF PassInv, InOrderThrough
  <2>15. DeferralIsNoBreak'
    <3> SUFFICES ASSUME NEW i \in DOMAIN reconciles', NEW b1 \in reconciles'[i].breaks
                 PROVE  b1[1] # "MISSING_FILL_RECORD"
      BY DEF DeferralIsNoBreak
    <3>1. CASE i \in 1..Len(reconciles)
      BY <3>1, <2>2 DEF Promises, DeferralIsNoBreak
    <3>2. CASE i = Len(reconciles) + 1
      BY <3>2, <2>1, <2>2, <2>3, <1>6, BreaksOfAPass
    <3> QED BY <3>1, <3>2, <2>2
  <2>16. GapsAreKnown'
    <3> SUFFICES ASSUME NEW i \in 1..Len(reconciles'), NEW x \in 1..reconciles'[i].session, NEW arm \in Arms,
                        IsWeeklyDecisionSession(x),
                        \E d \in sealed : d.session <= x /\ d.sealedAt <= reconciles'[i].at,
                        ~\E d \in sealed : d.arm = arm /\ d.session = x
                 PROVE  <<"MISSING_DECISION_RECORD", arm, x>> \in reconciles'[i].breaks
      BY <1>1 DEF GapsAreKnown
    <3>1. CASE i \in 1..Len(reconciles)
      BY <3>1, <2>2 DEF Promises, GapsAreKnown
    <3>2. CASE i = Len(reconciles) + 1
      <4>1. reconciles'[i] = new /\ x \in 1..s
        BY <3>2, <2>1, <2>2
      <4>2. \E d \in sealed : d.session <= x
        OBVIOUS
      <4>3. <<"MISSING_DECISION_RECORD", arm, x>> \in FillPass(s).breaks
        BY <4>1, <4>2, <2>3, <1>6, BreaksOfAPass, Zenon
      <4>4. new.breaks = FillPass(s).breaks
        BY <2>1
      <4> QED BY <4>1, <4>3, <4>4
    <3> QED BY <3>1, <3>2, <2>2
  <2> QED BY <1>4, <2>8, <2>9, <2>10, <2>11, <2>12, <2>13, <2>14, <2>15, <2>16 DEF LoopInv, LogInv, Promises
<1> QED BY <1>1, <1>5, <1>6

-----------------------------------------------------------------------------
(* A sealed decision.                                                      *)

LEMMA SealedRecords ==
  ASSUME NEW s, DecisionSeal(s)
  PROVE  \E stale, r1, r2 :
           /\ sealed' = sealed \cup {r1, r2}
           /\ r1.arm = "B0_PASSIVE" /\ r2.arm = "B1_DETERMINISTIC"
           /\ \A r \in {r1, r2} :
                /\ r.at = DecisionAt(s) /\ r.session = s /\ r.sealedAt = clock
                /\ r.halt = DecisionHalt(HaltContext(s), reArms, DecisionFaults(s, stale))
<1>1. PICK weights, stale, clear : sealed' = sealed \cup ShadowDecisionRecords(s, clock, weights, stale, clear)
  BY Zenon DEF DecisionSeal
<1>2. PICK halt : halt = DecisionHalt(HaltContext(s), reArms, DecisionFaults(s, stale))
  OBVIOUS
<1>3. PICK r1 : r1 = [arm |-> "B0_PASSIVE", at |-> DecisionAt(s), session |-> s, sealedAt |-> clock, halt |-> halt,
                      weights |-> Passive, newRisk |-> halt = "NORMAL" /\ TRUE]
  OBVIOUS
<1>4. PICK r2 : r2 = [arm |-> "B1_DETERMINISTIC", at |-> DecisionAt(s), session |-> s, sealedAt |-> clock, halt |-> halt,
                      weights |-> weights, newRisk |-> halt = "NORMAL" /\ clear]
  OBVIOUS
<1>5. ShadowDecisionRecords(s, clock, weights, stale, clear) = {r1, r2}
  BY <1>2, <1>3, <1>4, Zenon DEF ShadowDecisionRecords
<1>6. /\ r1.arm = "B0_PASSIVE" /\ r1.at = DecisionAt(s) /\ r1.session = s /\ r1.sealedAt = clock /\ r1.halt = halt
      /\ r2.arm = "B1_DETERMINISTIC" /\ r2.at = DecisionAt(s) /\ r2.session = s /\ r2.sealedAt = clock /\ r2.halt = halt
  BY <1>3, <1>4
<1> QED BY <1>1, <1>2, <1>5, <1>6

(* The context of a decision is a state and some of the known re-arms.     *)
LEMMA ContextOfADecision ==
  ASSUME LoopInv, NEW s \in 1..Sessions
  PROVE  /\ HaltContext(s).current = CurrentHalt(PreviousSealed(sealed, DecisionAt(s)))
         /\ HaltContext(s).current \in FaultStates
         /\ HaltContext(s).reArms = ReArmsSince(reArms, DecisionAt(s), PreviousSealed(sealed, DecisionAt(s)))
         /\ HaltContext(s).reArms \subseteq 1..Len(reArms)
         /\ HaltContext(s).unresolved = UnresolvedBreaks(reconciles, reArms, DecisionAt(s), s)
         /\ Len(reArms) \in Nat /\ DOMAIN reArms = 1..Len(reArms)
         /\ \A k \in 1..Len(reArms) : reArms[k].to \in FaultStates
<1>1. \A d \in PreviousSealed(sealed, DecisionAt(s)) : d \in sealed /\ d.halt \in FaultStates
  BY DEF PreviousSealed, LoopInv, SealInv, SealedInTime
<1>2. CurrentHalt(PreviousSealed(sealed, DecisionAt(s))) \in FaultStates
  BY <1>1, CurrentIsMostRestrictive
<1>3. Len(reArms) \in Nat /\ DOMAIN reArms = 1..Len(reArms)
  BY LogPlaces DEF LoopInv, LogInv, ReArmsInv
<1>4. ReArmsSince(reArms, DecisionAt(s), PreviousSealed(sealed, DecisionAt(s))) \subseteq 1..Len(reArms)
  BY <1>3 DEF ReArmsSince, KnownBy
<1>5. \A k \in 1..Len(reArms) : reArms[k].to \in FaultStates
  BY DEF LoopInv, LogInv, ReArmsInv
<1> QED BY <1>2, <1>3, <1>4, <1>5 DEF HaltContext, ShadowHaltContext

(* The records of the last decided session are what a decision starts from. *)
LEMMA PreviousIsLast ==
  ASSUME LoopInv, NEW s \in 1..Sessions, \A d \in sealed : d.session \in 1..Sessions /\ d.session < s,
         NEW d \in sealed
  PROVE  \E p \in sealed :
           /\ d.session <= p.session /\ p.session < s
           /\ \A x \in sealed : x.session = p.session => x \in PreviousSealed(sealed, DecisionAt(s))
<1>1. PICK S : S = {x.session : x \in sealed}
  OBVIOUS
<1>2. S \in SUBSET (1..Sessions) /\ S # {} /\ Sessions \in Nat
  BY <1>1, SessionsAssumption
<1>3. \E n \in S : \A m \in S : m <= n
  BY <1>2, GreatestPlace
<1>4. PICK p \in sealed : \A x \in sealed : x.session <= p.session
  BY <1>1, <1>3
<1>5. ASSUME NEW x \in sealed
      PROVE  /\ x.at < DecisionAt(s) /\ x.sealedAt <= DecisionAt(s)
             /\ x.at = 2 * x.session /\ x.session \in Int
  <2>1. PICK i \in Int, y \in Int :
          i = x.session /\ y = x.sealedAt /\ x.at = DecisionAt(i) /\ y < RunAt(i) + Lookback /\ i < s
    BY DEF LoopInv, SealInv, SealedInTime
  <2>2. x.at = 2 * i /\ y < 2 * i + 1 + 2 /\ s \in Int
    BY <2>1 DEF DecisionAt, RunAt, Lookback
  <2>3. 2 * i < 2 * s /\ y <= 2 * s
    BY <2>1, <2>2
  <2> QED BY <2>1, <2>2, <2>3 DEF DecisionAt
<1>6. ASSUME NEW x \in sealed, x.session = p.session PROVE x \in PreviousSealed(sealed, DecisionAt(s))
  <2>1. ASSUME NEW y \in sealed PROVE y.at <= x.at
    <3>1. PICK i \in Int, j \in Int : i = y.session /\ j = x.session /\ y.at = 2 * i /\ x.at = 2 * j
      BY <1>5
    <3>2. i <= j
      BY <3>1, <1>4, <1>6
    <3>3. 2 * i <= 2 * j
      BY <3>1, <3>2
    <3> QED BY <3>1, <3>3
  <2> QED BY <2>1, <1>5 DEF PreviousSealed
<1> QED BY <1>4, <1>6

(* Halts stay sticky at a new decision.                                    *)
LEMMA SealIsSticky ==
  ASSUME LoopInv, HaltsAreSticky, NEW s \in 1..Sessions,
         \A d \in sealed : d.session \in 1..Sessions /\ d.session < s,
         NEW faults, NEW halt, halt = DecisionHalt(HaltContext(s), reArms, faults), NEW d \in sealed
  PROVE  FaultRank(halt) + Cardinality({i \in DOMAIN reArms : d.at < reArms[i].at /\ reArms[i].at <= DecisionAt(s)})
           >= FaultRank(d.halt)
<1>1. PICK p \in sealed :
        /\ d.session <= p.session /\ p.session < s
        /\ \A x \in sealed : x.session = p.session => x \in PreviousSealed(sealed, DecisionAt(s))
  BY PreviousIsLast
<1>2. PICK c, R : c = HaltContext(s).current /\ R = HaltContext(s).reArms
  OBVIOUS
<1>3. c \in FaultStates /\ R \subseteq 1..Len(reArms) /\ Len(reArms) \in Nat /\ DOMAIN reArms = 1..Len(reArms)
  BY <1>2, ContextOfADecision
<1>4. halt \in FaultStates /\ FaultRank(halt) + Cardinality(R) >= FaultRank(c)
  BY <1>2, ContextOfADecision, DecisionHaltState
<1>5. \A x \in PreviousSealed(sealed, DecisionAt(s)) : x \in sealed /\ x.halt \in FaultStates
  BY DEF PreviousSealed, LoopInv, SealInv, SealedInTime
<1>6. \A x \in PreviousSealed(sealed, DecisionAt(s)) : FaultRank(c) >= FaultRank(x.halt)
  BY <1>2, <1>5, ContextOfADecision, CurrentIsMostRestrictive
<1>7. \A k \in R : /\ k \in DOMAIN reArms /\ reArms[k].at <= DecisionAt(s)
                   /\ \A x \in PreviousSealed(sealed, DecisionAt(s)) : reArms[k].at > x.at
  BY <1>2, ContextOfADecision DEF ReArmsSince, KnownBy
<1>8. PICK U : U = {i \in DOMAIN reArms : d.at < reArms[i].at /\ reArms[i].at <= DecisionAt(s)}
  OBVIOUS
<1>9. U \in SUBSET (DOMAIN reArms) /\ IsLog(reArms)
  BY <1>8 DEF LoopInv, LogInv, ReArmsInv
<1>10. PICK x \in 0..2, y \in 0..2, z \in 0..2, w \in 0..2 :
         x = FaultRank(d.halt) /\ y = FaultRank(p.halt) /\ z = FaultRank(c) /\ w = FaultRank(halt)
  BY <1>3, <1>4, RankedStates DEF LoopInv, SealInv, SealedInTime
<1>11. p \in PreviousSealed(sealed, DecisionAt(s)) /\ z >= y
  BY <1>1, <1>6, <1>10
<1>12. CASE d.session = p.session
  <2>1. d \in PreviousSealed(sealed, DecisionAt(s)) /\ z >= x
    BY <1>1, <1>6, <1>10, <1>12
  <2>2. R \in SUBSET U
    BY <1>7, <1>8, <2>1
  <2>3. Cardinality(R) \in Nat /\ Cardinality(U) \in Nat /\ Cardinality(R) <= Cardinality(U)
    BY <1>9, <2>2, MoreReArms
  <2>4. w + Cardinality(R) >= z
    BY <1>4, <1>10
  <2>5. w + Cardinality(U) >= x
    BY <2>1, <2>3, <2>4
  <2> QED BY <2>5, <1>8, <1>10
<1>13. CASE d.session # p.session
  <2>1. PICK i \in Int, j \in Int : /\ i = d.session /\ j = p.session /\ d.at = 2 * i /\ p.at = 2 * j
                                    /\ i <= j /\ i # j /\ j < s
    BY <1>1, <1>13 DEF LoopInv, SealInv, SealedInTime, DecisionAt
  <2>2. d.session < p.session /\ d.at < p.at /\ d.at \in Int /\ p.at \in Int /\ p.at <= DecisionAt(s) /\ DecisionAt(s) \in Int
    <3>1. i < j /\ 2 * i < 2 * j /\ 2 * j <= 2 * s
      BY <2>1
    <3> QED BY <3>1, <2>1 DEF DecisionAt
  <2>3. PICK A : A = {k \in DOMAIN reArms : d.at < reArms[k].at /\ reArms[k].at <= p.at}
    OBVIOUS
  <2>4. y + Cardinality(A) >= x
    BY <2>2, <2>3, <1>10 DEF HaltsAreSticky
  <2>5. \A k \in DOMAIN reArms : reArms[k].at \in Nat
    BY <1>3 DEF LoopInv, LogInv, ReArmsInv
  <2>6. A \in SUBSET U
    BY <2>2, <2>3, <2>5, <1>8
  <2>7. R \in SUBSET U
    <3>1. ASSUME NEW k \in R PROVE k \in U
      <4>1. k \in DOMAIN reArms /\ reArms[k].at > p.at /\ reArms[k].at \in Nat /\ reArms[k].at <= DecisionAt(s)
        BY <1>7, <1>11, <2>5
      <4>2. d.at < reArms[k].at
        BY <4>1, <2>2
      <4> QED BY <4>1, <4>2, <1>8
    <3> QED BY <3>1
  <2>8. A \cap R = {}
    <3>1. ASSUME NEW k \in A, k \in R PROVE FALSE
      <4>1. PICK t \in Nat, u \in Int : t = reArms[k].at /\ u = p.at /\ t <= u /\ t > u
        BY <3>1, <2>2, <2>3, <2>5, <1>7, <1>11
      <4> QED BY <4>1
    <3> QED BY <3>1
  <2>9. /\ IsFiniteSet(A) /\ IsFiniteSet(R) /\ IsFiniteSet(U)
        /\ Cardinality(A) \in Nat /\ Cardinality(R) \in Nat /\ Cardinality(U) \in Nat
    BY <2>6, <2>7, <1>9, MoreReArms
  <2>10. Cardinality(A \cup R) = Cardinality(A) + Cardinality(R)
    <3>1. Cardinality(A \cup R) = Cardinality(A) + Cardinality(R) - Cardinality(A \cap R)
      BY <2>9, FS_Union
    <3>2. Cardinality(A \cap R) = 0
      BY <2>8, FS_EmptySet
    <3> QED BY <3>1, <3>2, <2>9
  <2>11. A \cup R \in SUBSET U
    BY <2>6, <2>7
  <2>12. Cardinality(A \cup R) <= Cardinality(U)
    BY <2>11, <1>9, MoreReArms
  <2>13. PICK m \in Nat, n \in Nat, o \in Nat : m = Cardinality(A) /\ n = Cardinality(R) /\ o = Cardinality(U) /\ m + n <= o
    BY <2>9, <2>10, <2>12
  <2>14. w + n >= z /\ y + m >= x
    BY <2>4, <2>13, <1>4, <1>10
  <2>15. w + o >= x
    BY <2>13, <2>14, <1>11
  <2> QED BY <2>13, <2>15, <1>8, <1>10
<1> QED BY <1>12, <1>13

(* A break of an earlier session that nobody acknowledged holds the book.  *)
LEMMA SealHoldsBreaks ==
  ASSUME LoopInv, NEW s \in 1..Sessions, NEW stale, NEW halt,
         halt = DecisionHalt(HaltContext(s), reArms, DecisionFaults(s, stale)),
         NEW i \in DOMAIN reconciles, NEW code \in reconciles[i].breaks,
         reconciles[i].session < s, reconciles[i].at <= DecisionAt(s),
         i > 1 => code \notin reconciles[i - 1].breaks,
         \A j \in i..Len(reconciles) : reconciles[j].at <= DecisionAt(s) => code \in reconciles[j].breaks,
         \A k \in DOMAIN reArms :
           code \in reArms[k].acks => reArms[k].at < reconciles[i].at \/ reArms[k].at > DecisionAt(s)
  PROVE  halt = "HOLD_ONLY"
<1>1. PICK t \in Int : t = DecisionAt(s)
  BY DEF DecisionAt
<1>2. InTime(reconciles) /\ Len(reconciles) \in Nat /\ DOMAIN reconciles = 1..Len(reconciles)
  BY LogPlaces DEF LoopInv, LogInv, ReconcilesInv, InTime
<1>3. i \in KnownBy(reconciles, t) /\ i \in Nat
  BY <1>1, <1>2 DEF KnownBy
<1>4. \A j \in KnownBy(reconciles, t) : j >= i => code \in reconciles[j].breaks
  BY <1>1, <1>2, <1>3 DEF KnownBy
<1>5. i = 1 \/ code \notin reconciles[i - 1].breaks
  BY <1>2
<1>6. FirstReport(reconciles, t, code) = i
  BY <1>2, <1>3, <1>4, <1>5, FirstReportIsUnique
<1>7. Latest(reconciles, t) \in KnownBy(reconciles, t) /\ Latest(reconciles, t) >= i
  <2>1. /\ Latest(reconciles, t) \in KnownBy(reconciles, t)
        /\ \A j \in KnownBy(reconciles, t) : j <= Latest(reconciles, t)
    BY <1>2, <1>3, LatestIsLast
  <2>2. Latest(reconciles, t) \in Nat
    BY <2>1, <1>2 DEF KnownBy
  <2> QED BY <2>1, <2>2, <1>3
<1>8. code \in ReportedBreaks(reconciles, t)
  BY <1>3, <1>4, <1>7 DEF ReportedBreaks
<1>9. ~Acknowledged(reconciles, reArms, t, code)
  <2> SUFFICES ASSUME NEW k \in KnownBy(reArms, t), code \in reArms[k].acks, reArms[k].at >= reconciles[i].at
               PROVE  FALSE
    BY <1>6 DEF Acknowledged
  <2>1. k \in DOMAIN reArms /\ k \in 1..Len(reArms) /\ reArms[k].at <= t
    BY LogPlaces DEF KnownBy, LoopInv, LogInv, ReArmsInv
  <2>2. PICK a \in Nat, b \in Nat : a = reArms[k].at /\ b = reconciles[i].at
    BY <2>1, <1>2 DEF LoopInv, LogInv, ReArmsInv, InTime
  <2>3. a < b \/ a > t
    BY <2>1, <2>2, <1>1
  <2> QED BY <2>1, <2>2, <2>3
<1>10. code \in UnresolvedBreaks(reconciles, reArms, t, s)
  BY <1>6, <1>8, <1>9 DEF UnresolvedBreaks, OpenBreaks
<1>11. HaltContext(s).unresolved # {}
  BY <1>1, <1>10, ContextOfADecision
<1>12. PICK faults : faults = DecisionFaults(s, stale)
  OBVIOUS
<1>13. "RECONCILIATION_UNRESOLVED" \in faults
  BY <1>11, <1>12, Zenon DEF DecisionFaults, CollectFaults, HoldSignals
<1>14. PICK context : context = HaltContext(s)
  OBVIOUS
<1>15. /\ context.current \in FaultStates /\ context.reArms \subseteq 1..Len(reArms)
       /\ Len(reArms) \in Nat /\ \A k \in 1..Len(reArms) : reArms[k].to \in FaultStates
  BY <1>14, ContextOfADecision
<1>16. halt = DecisionHalt(context, reArms, faults)
  BY <1>12, <1>14
<1> QED BY <1>13, <1>15, <1>16, DecisionHaltState

(* The seal of a decision keeps the ledgers whole and every promise.       *)
LEMMA DecisionSealHolds ==
  ASSUME LoopInv, Promises, NEW s \in 1..Sessions, DecisionSeal(s)
  PROVE  LoopInv' /\ Promises'
<1>1. /\ UNCHANGED <<clock, outcomes, reconciles, reArms>> /\ Finish("decision", s, "succeeded")
      /\ runs["decision"][s].state = "running"
  BY Zenon DEF DecisionSeal
<1>2. PICK stale, r1, r2 :
        /\ sealed' = sealed \cup {r1, r2}
        /\ r1.arm = "B0_PASSIVE" /\ r2.arm = "B1_DETERMINISTIC"
        /\ \A r \in {r1, r2} :
             /\ r.at = DecisionAt(s) /\ r.session = s /\ r.sealedAt = clock
             /\ r.halt = DecisionHalt(HaltContext(s), reArms, DecisionFaults(s, stale))
  BY SealedRecords
<1>3. PICK halt : halt = DecisionHalt(HaltContext(s), reArms, DecisionFaults(s, stale))
  OBVIOUS
<1>4. PICK new : new = {r1, r2}
  OBVIOUS
<1>5. sealed' = sealed \cup new
  BY <1>2, <1>4
<1>6. \A r \in new : /\ r.at = DecisionAt(s) /\ r.session = s /\ r.sealedAt = clock /\ r.halt = halt
                     /\ r.arm \in Arms
  BY <1>2, <1>3, <1>4 DEF Arms
<1>7. /\ \A arm \in Arms : \E r \in new : r.arm = arm
      /\ \A d, e \in new : d.arm = e.arm => d = e
  BY <1>2, <1>4 DEF Arms
<1>8. IsFiniteSet(new)
  <2>1. IsFiniteSet({}) /\ new = ({} \cup {r1}) \cup {r2}
    BY <1>4, FS_EmptySet
  <2> QED BY <2>1, FS_AddElement
<1>9. /\ clock \in Nat /\ RunAt(s) <= clock /\ clock < RunAt(s) + Lookback /\ IsWeeklyDecisionSession(s)
      /\ \A d \in sealed : d.session \in 1..Sessions /\ d.session < s
  BY <1>1, RunningDecision
<1>10. halt \in FaultStates
  <2>1. PICK faults, context : faults = DecisionFaults(s, stale) /\ context = HaltContext(s)
    OBVIOUS
  <2>2. /\ context.current \in FaultStates /\ context.reArms \subseteq 1..Len(reArms)
        /\ Len(reArms) \in Nat /\ \A k \in 1..Len(reArms) : reArms[k].to \in FaultStates
    BY <2>1, ContextOfADecision
  <2>3. halt = DecisionHalt(context, reArms, faults)
    BY <1>3, <2>1
  <2> QED BY <2>2, <2>3, DecisionHaltState
<1>11. /\ TimeInv' /\ runs'["decision"][s] = [state |-> "succeeded", at |-> clock]
       /\ \A x \in 1..Sessions : x # s => runs'["decision"][x] = runs["decision"][x]
  <2>1. TimeInv /\ clock' = clock /\ "decision" \in Jobs /\ "succeeded" \in RunStates
    BY <1>1 DEF LoopInv, Jobs, RunStates
  <2> QED BY <2>1, <1>1, FinishedRun
<1>12. RunInv'
  <2>1. ASSUME NEW x \in 1..Sessions PROVE DecisionRun(x, runs["decision"][x])'
    <3>1. CASE x = s
      BY <3>1, <1>11 DEF DecisionRun
    <3>2. CASE x # s
      <4>1. DecisionRun(x, runs["decision"][x])
        BY DEF LoopInv, RunInv
      <4>2. \A d \in new : d.session # x
        BY <3>2, <1>6
      <4> QED BY <4>1, <4>2, <3>2, <1>1, <1>5, <1>11 DEF DecisionRun
    <3> QED BY <3>1, <3>2
  <2> QED BY <2>1 DEF RunInv
<1>13. SealInv'
  <2>1. SealedOnce'
    <3>1. IsFiniteSet(sealed')
      BY <1>5, <1>8, FS_Union DEF LoopInv, SealInv, SealedOnce
    <3>2. \A d \in sealed' : d.arm \in Arms /\ d.session \in Int
      BY <1>5, <1>6 DEF LoopInv, SealInv, SealedOnce
    <3>3. ASSUME NEW d \in sealed', NEW e \in sealed', d.arm = e.arm, d.session = e.session PROVE d = e
      <4>1. CASE d \in sealed
        <5>1. d.session < s /\ d.session \in Int
          BY <4>1, <1>9
        <5>2. e \notin new
          BY <5>1, <1>6, <3>3
        <5> QED BY <4>1, <5>2, <3>3, <1>5 DEF LoopInv, SealInv, SealedOnce
      <4>2. CASE d \in new
        <5>1. e \notin sealed
          BY <4>2, <1>6, <1>9, <3>3
        <5> QED BY <4>2, <5>1, <3>3, <1>5, <1>7
      <4> QED BY <4>1, <4>2, <1>5
    <3> QED BY <3>1, <3>2, <3>3 DEF SealedOnce
  <2>2. ASSUME NEW d \in sealed' PROVE SealedInTime(d)' /\ d.sealedAt <= clock'
    <3>1. CASE d \in sealed
      BY <3>1, <1>1 DEF LoopInv, SealInv, SealedInTime
    <3>2. CASE d \in new
      BY <3>2, <1>1, <1>6, <1>9, <1>10 DEF SealedInTime
    <3> QED BY <3>1, <3>2, <1>5
  <2>3. ASSUME NEW d \in sealed', NEW arm \in Arms PROVE \E e \in sealed' : e.arm = arm /\ e.session = d.session
    <3>1. CASE d \in sealed
      BY <3>1, <1>5 DEF LoopInv, SealInv
    <3>2. CASE d \in new
      BY <3>2, <1>5, <1>6, <1>7
    <3> QED BY <3>1, <3>2, <1>5
  <2> QED BY <2>1, <2>2, <2>3 DEF SealInv
<1>14. LogInv'
  <2>1. ReconcilesInv' /\ ReArmsInv'
    BY <1>1 DEF LoopInv, LogInv, ReconcilesInv, ReArmsInv, InTime
  <2>2. OutcomesInv'
    BY <1>1, <1>5 DEF LoopInv, LogInv, OutcomesInv
  <2> QED BY <2>1, <2>2 DEF LogInv
<1>15. HaltsAreSticky'
  <2> SUFFICES ASSUME NEW d \in sealed', NEW e \in sealed', d.session < e.session
               PROVE  FaultRank(e.halt)
                        + Cardinality({i \in DOMAIN reArms : d.at < reArms[i].at /\ reArms[i].at <= e.at})
                        >= FaultRank(d.halt)
    BY <1>1 DEF HaltsAreSticky
  <2>1. CASE e \in sealed
    <3>1. d \notin new
      <4>1. e.session < s /\ e.session \in Int
        BY <2>1, <1>9
      <4>2. d \in new => d.session = s
        BY <1>6
      <4> QED BY <4>1, <4>2
    <3>2. d \in sealed
      BY <3>1, <1>5
    <3> QED BY <2>1, <3>2 DEF Promises, HaltsAreSticky
  <2>2. CASE e \in new
    <3>1. e.session = s /\ e.at = DecisionAt(s) /\ e.halt = halt
      BY <2>2, <1>6
    <3>2. d \in sealed
      <4>1. d \in new => d.session = s
        BY <1>6
      <4> QED BY <4>1, <3>1, <1>5
    <3>3. PICK faults : faults = DecisionFaults(s, stale)
      OBVIOUS
    <3>4. halt = DecisionHalt(HaltContext(s), reArms, faults)
      BY <1>3, <3>3
    <3>5. HaltsAreSticky
      BY DEF Promises
    <3> QED BY <3>1, <3>2, <3>4, <3>5, <1>9, SealIsSticky
  <2> QED BY <2>1, <2>2, <1>5
<1>16. UnresolvedBreaksHold'
  <2> SUFFICES ASSUME NEW d \in sealed', NEW i \in DOMAIN reconciles, NEW code \in reconciles[i].breaks,
                      reconciles[i].session < d.session, reconciles[i].at <= d.at,
                      i > 1 => code \notin reconciles[i - 1].breaks,
                      \A j \in i..Len(reconciles) : reconciles[j].at <= d.at => code \in reconciles[j].breaks,
                      \A k \in DOMAIN reArms :
                        code \in reArms[k].acks => reArms[k].at < reconciles[i].at \/ reArms[k].at > d.at
               PROVE  d.halt = "HOLD_ONLY"
    BY <1>1 DEF UnresolvedBreaksHold
  <2>1. CASE d \in sealed
    BY <2>1 DEF Promises, UnresolvedBreaksHold
  <2>2. CASE d \in new
    <3>1. d.session = s /\ d.at = DecisionAt(s) /\ d.halt = halt
      BY <2>2, <1>6
    <3> QED BY <3>1, <1>3, SealHoldsBreaks
  <2> QED BY <2>1, <2>2, <1>5
<1>17. InOrderThrough(outcomes)'
  <2> SUFFICES ASSUME NEW i \in 1..Len(outcomes), NEW d \in sealed',
                      d.arm = outcomes[i].arm, d.session < outcomes[i].session
               PROVE  \E j \in 1..(i - 1) : Names(outcomes[j], d)
    BY <1>1 DEF InOrderThrough
  <2>1. d \notin new
    <3>1. PICK e \in sealed : outcomes[i].session = e.session
      BY DEF LoopInv, LogInv, OutcomesInv, Names
    <3>2. outcomes[i].session < s /\ outcomes[i].session \in Int
      BY <3>1, <1>9
    <3>3. d \in new => d.session = s
      BY <1>6
    <3> QED BY <3>2, <3>3
  <2>2. d \in sealed
    BY <2>1, <1>5
  <2> QED BY <2>2 DEF Promises, InOrderThrough
<1>18. DeferralIsNoBreak'
  BY <1>1 DEF Promises, DeferralIsNoBreak
<1>19. GapsAreKnown'
  <2> SUFFICES ASSUME NEW i \in 1..Len(reconciles), NEW x \in 1..reconciles[i].session, NEW arm \in Arms,
                      IsWeeklyDecisionSession(x),
                      NEW d \in sealed', d.session <= x, d.sealedAt <= reconciles[i].at,
                      ~\E e \in sealed' : e.arm = arm /\ e.session = x
               PROVE  <<"MISSING_DECISION_RECORD", arm, x>> \in reconciles[i].breaks
    BY <1>1 DEF GapsAreKnown
  <2>1. d \notin new
    <3> SUFFICES ASSUME d \in new PROVE FALSE
      OBVIOUS
    <3>1. d.session = s
      BY <1>6
    <3>2. PICK r \in Int, t \in Int :
            r = reconciles[i].session /\ t = reconciles[i].at /\ RunAt(r) <= t /\ t <= clock
      BY DEF LoopInv, LogInv, ReconcilesInv, InTime
    <3>3. PICK c \in Int : c = clock /\ c < RunAt(s) + Lookback
      BY <1>9
    <3>4. s \in Int /\ 2 * r + 1 <= t /\ t <= c /\ c < 2 * s + 1 + 2
      BY <3>2, <3>3 DEF RunAt, Lookback
    <3>5. r <= s
      <4>1. r \in Int /\ t \in Int /\ c \in Int
        BY <3>2, <3>3
      <4>2. 2 * r < 2 * (s + 1)
        BY <4>1, <3>4
      <4> QED BY <4>1, <4>2, <3>4
    <3>6. x \in Int /\ x <= r
      BY <3>2
    <3>7. x = s
      BY <3>1, <3>4, <3>5, <3>6, <3>2
    <3> QED BY <3>7, <1>5, <1>6, <1>7
  <2>2. d \in sealed /\ ~\E e \in sealed : e.arm = arm /\ e.session = x
    BY <2>1, <1>5
  <2> QED BY <2>2 DEF Promises, GapsAreKnown
<1> QED BY <1>11, <1>12, <1>13, <1>14, <1>15, <1>16, <1>17, <1>18, <1>19 DEF LoopInv, Promises

-----------------------------------------------------------------------------
(* The gate of a decision and its recorded fills.                          *)

(* Bars arrive in lists, each of its session, and what was recorded of a   *)
(* decision keeps to its gate.                                             *)
MarketInv == \A e \in Entities : e \in DOMAIN bars /\ DatedLog(bars[e])

FillsKeepTheGate ==
  \A i \in 1..Len(outcomes) : \A d \in sealed :
    Names(outcomes[i], d) => Allowed(d, outcomes[i].fills)

LEMMA MarketOfASession ==
  ASSUME MarketInv, NEW s
  PROVE  IsMarket(MarketThrough(s))
<1>1. PICK m : m = MarketThrough(s)
  OBVIOUS
<1>2. PICK kept : kept = Keeping(Splits, {i \in DOMAIN Splits : Splits[i].session <= s})
  OBVIOUS
<1>3. m = [bars |-> [e \in Entities |-> ClosedBy(bars[e], s)], splits |-> kept, dividends |-> <<>>]
  BY <1>1, <1>2, Zenon DEF MarketThrough
<1>4. m.splits = kept /\ \A e \in Entities : m.bars[e] = ClosedBy(bars[e], s)
  BY <1>3
<1>5. IsLog(kept)
  <2>1. IsLog(Splits)
    BY SplitsAssumption DEF IsLog
  <2>2. PICK I : I = {i \in DOMAIN Splits : Splits[i].session <= s}
    OBVIOUS
  <2>3. I \in SUBSET (1..Len(Splits))
    BY <2>1, <2>2, LogPlaces
  <2> QED BY <1>2, <2>1, <2>2, <2>3, KeptIsLog
<1>6. ASSUME NEW e \in Entities PROVE DatedLog(ClosedBy(bars[e], s))
  <2>1. PICK q : q = bars[e] /\ DatedLog(q)
    BY DEF MarketInv
  <2>2. /\ IsLog(ClosedBy(q, s))
        /\ \A i \in 1..Len(ClosedBy(q, s)) : i \in 1..Len(q) /\ ClosedBy(q, s)[i] = q[i]
    BY <2>1, ClosedIsBeginning DEF DatedLog
  <2> QED BY <2>1, <2>2 DEF DatedLog
<1> QED BY <1>1, <1>4, <1>5, <1>6 DEF IsMarket

LEMMA BarHasItsSession ==
  ASSUME NEW e, NEW s, NEW kind
  PROVE  "session" \in DOMAIN Bar(e, s, kind)
BY DEF Bar

LEMMA GateInit ==
  ASSUME Init
  PROVE  MarketInv /\ FillsKeepTheGate
<1>1. outcomes = <<>> /\ bars = [e \in Entities |-> [s \in 1..Week |-> Bar(e, s, "good")]]
  BY DEF Init
<1>2. ASSUME NEW e \in Entities PROVE e \in DOMAIN bars /\ DatedLog(bars[e])
  <2>1. PICK q : q = [s \in 1..Week |-> Bar(e, s, "good")]
    OBVIOUS
  <2>2. e \in DOMAIN bars /\ bars[e] = q
    BY <1>1, <2>1
  <2>3. IsLog(q) /\ Len(q) = Week
    <3>1. PICK n \in Nat : n = Week
      BY WeekAssumption
    <3>2. PICK S : S = {Bar(e, s, "good") : s \in 1..n}
      OBVIOUS
    <3>3. q \in [1..n -> S] /\ DOMAIN q = 1..n
      BY <2>1, <3>1, <3>2
    <3>4. q \in Seq(S) /\ Len(q) = n
      BY <3>3
    <3> QED BY <3>1, <3>4 DEF IsLog
  <2>4. \A i \in 1..Week : "session" \in DOMAIN q[i]
    BY <2>1, BarHasItsSession
  <2> QED BY <2>2, <2>3, <2>4 DEF DatedLog
<1>3. 1..Len(outcomes) = {}
  BY <1>1
<1> QED BY <1>2, <1>3 DEF MarketInv, FillsKeepTheGate

LEMMA TickKeepsTheMarket ==
  ASSUME MarketInv, Tick
  PROVE  MarketInv'
<1>1. NewBars \/ UNCHANGED bars
  BY Zenon DEF Tick
<1>2. CASE UNCHANGED bars
  BY <1>2 DEF MarketInv
<1>3. CASE NewBars
  <2>1. PICK kinds : bars' = [e \in Entities |-> WithBar(bars[e], e, Session + 1, kinds[e])]
    BY <1>3, Zenon DEF NewBars
  <2>2. ASSUME NEW e \in Entities PROVE e \in DOMAIN bars' /\ DatedLog(bars'[e])
    <3>1. PICK q, r, x : q = bars[e] /\ DatedLog(q) /\ r = bars'[e] /\ x = Bar(e, Session + 1, kinds[e])
      BY DEF MarketInv
    <3>2. e \in DOMAIN bars' /\ (r = q \/ r = Append(q, x))
      BY <2>1, <3>1 DEF WithBar
    <3>3. DatedLog(Append(q, x))
      <4>0. "session" \in DOMAIN x
        BY <3>1, BarHasItsSession
      <4>1. /\ IsLog(Append(q, x)) /\ Len(q) \in Nat /\ Len(Append(q, x)) = Len(q) + 1
            /\ \A i \in 1..Len(q) : Append(q, x)[i] = q[i]
            /\ Append(q, x)[Len(q) + 1] = x
        BY <3>1, AppendedLog DEF DatedLog
      <4>2. ASSUME NEW i \in 1..(Len(q) + 1) PROVE "session" \in DOMAIN Append(q, x)[i]
        <5>1. CASE i \in 1..Len(q)
          BY <3>1, <4>1, <5>1 DEF DatedLog
        <5>2. CASE i = Len(q) + 1
          BY <4>0, <4>1, <5>2
        <5> QED BY <4>1, <5>1, <5>2
      <4> QED BY <4>1, <4>2 DEF DatedLog
    <3>4. DatedLog(r)
      <4>1. CASE r = q
        BY <3>1, <4>1
      <4>2. CASE r = Append(q, x)
        BY <3>3, <4>2
      <4> QED BY <3>2, <4>1, <4>2
    <3> QED BY <3>1, <3>2, <3>4
  <2> QED BY <2>2 DEF MarketInv
<1> QED BY <1>1, <1>2, <1>3

(* What a fill run records was simulated, from the market of its session.  *)
LEMMA FillRunKeepsTheGate ==
  ASSUME LoopInv, Promises, MarketInv, FillsKeepTheGate, NEW s \in 1..Sessions, FillRun(s)
  PROVE  MarketInv' /\ FillsKeepTheGate'
<1>1. /\ UNCHANGED <<bars, sealed>>
      /\ UNCHANGED outcomes \/ (~FillPass(s).err /\ outcomes' = FillPass(s).records)
  BY Zenon DEF FillRun
<1>2. MarketInv'
  BY <1>1 DEF MarketInv
<1>3. CASE UNCHANGED outcomes
  BY <1>1, <1>2, <1>3 DEF FillsKeepTheGate
<1>4. CASE ~FillPass(s).err /\ outcomes' = FillPass(s).records
  <2>1. IsLog(outcomes) /\ InOrderThrough(outcomes) /\ SealedOnce /\ Len(outcomes) \in Nat
    BY LogPlaces DEF LoopInv, LogInv, OutcomesInv, SealInv, Promises
  <2>2. PICK a : a = FillPass(s).records
    OBVIOUS
  <2>3. PICK q, b : Lists(q, s) /\ PassInv(s, q, a, b, Len(q))
    BY <2>1, <2>2, <1>4, FillPassParts, OutcomesOfAPass
  <2>4. Len(a) \in Nat
    BY <2>3, LogPlaces DEF PassInv, PassKeeps
  <2>5. PICK market : market = MarketThrough(s) /\ IsMarket(market)
    BY MarketOfASession
  <2>6. ASSUME NEW i \in 1..Len(a), NEW d \in sealed, Names(a[i], d) PROVE Allowed(d, a[i].fills)
    <3>1. CASE i \in 1..Len(outcomes)
      <4>1. a[i] = outcomes[i]
        BY <3>1, <2>3 DEF PassInv, PassKeeps
      <4> QED BY <4>1, <3>1, <2>6 DEF FillsKeepTheGate
    <3>2. CASE i > Len(outcomes)
      <4>1. PICK m \in 1..Len(q) : OutcomeIn(market, a[i], q[m])
        BY <3>2, <2>3, <2>5 DEF PassInv, PassComesFrom
      <4>2. q[m] \in sealed
        BY <2>3 DEF Lists, PendingSet
      <4>3. q[m] = d
        BY <4>1, <4>2, <2>1, <2>6 DEF OutcomeIn, Names, SealedOnce
      <4>4. PICK book : a[i].fills = CounterfactualFills(d, book, market, d.session, EntityRank).fills
        BY <4>1, <4>3 DEF OutcomeIn
      <4> QED BY <4>4, <2>5, FillsAreAllowed
    <3> QED BY <3>1, <3>2, <2>1, <2>4
  <2> QED BY <1>1, <1>2, <1>4, <2>2, <2>6 DEF FillsKeepTheGate
<1> QED BY <1>1, <1>3, <1>4

(* A decision is sealed before any outcome of its session.                 *)
LEMMA SealKeepsTheGate ==
  ASSUME LoopInv, MarketInv, FillsKeepTheGate, NEW s \in 1..Sessions, DecisionSeal(s)
  PROVE  MarketInv' /\ FillsKeepTheGate'
<1>1. UNCHANGED <<bars, outcomes>> /\ runs["decision"][s].state = "running"
  BY Zenon DEF DecisionSeal
<1>2. PICK r1, r2 : sealed' = sealed \cup {r1, r2} /\ r1.session = s /\ r2.session = s
  BY SealedRecords
<1>3. \A d \in sealed : d.session \in 1..Sessions /\ d.session < s
  BY <1>1, RunningDecision
<1>4. ASSUME NEW i \in 1..Len(outcomes), NEW d \in sealed', Names(outcomes[i], d)
      PROVE  Allowed(d, outcomes[i].fills)
  <2>1. PICK e \in sealed : outcomes[i].session = e.session
    BY DEF LoopInv, LogInv, OutcomesInv, Names
  <2>2. d.session # s
    BY <1>3, <1>4, <2>1 DEF Names
  <2>3. d \in sealed
    BY <1>2, <2>2
  <2> QED BY <1>4, <2>3 DEF FillsKeepTheGate
<1> QED BY <1>1, <1>4 DEF MarketInv, FillsKeepTheGate

LEMMA StepKeepsTheGates ==
  ASSUME LoopInv, Promises, MarketInv, FillsKeepTheGate, [Next]_vars
  PROVE  MarketInv' /\ FillsKeepTheGate'
<1>1. CASE Tick
  <2>1. UNCHANGED <<sealed, outcomes>>
    BY <1>1, Zenon DEF Tick
  <2> QED BY <2>1, <1>1, TickKeepsTheMarket DEF FillsKeepTheGate
<1>2. ASSUME UNCHANGED <<bars, sealed, outcomes>> PROVE MarketInv' /\ FillsKeepTheGate'
  BY <1>2 DEF MarketInv, FillsKeepTheGate
<1>3. CASE ReArm \/ UNCHANGED vars
  <2>1. UNCHANGED <<bars, sealed, outcomes>>
    BY <1>3, Zenon DEF ReArm, vars
  <2> QED BY <2>1, <1>2
<1>4. ASSUME NEW s \in 1..Sessions,
             DecisionClaim(s) \/ DecisionSkip(s) \/ DecisionThrow(s) \/ DecisionCrash(s) \/ FillIdle(s)
      PROVE  MarketInv' /\ FillsKeepTheGate'
  <2>1. UNCHANGED <<bars, sealed, outcomes>>
    BY <1>4, Zenon DEF DecisionClaim, DecisionSkip, DecisionThrow, DecisionCrash, FillIdle
  <2> QED BY <2>1, <1>2
<1>5. ASSUME NEW s \in 1..Sessions, DecisionSeal(s) PROVE MarketInv' /\ FillsKeepTheGate'
  BY <1>5, SealKeepsTheGate
<1>6. ASSUME NEW s \in 1..Sessions, FillRun(s) PROVE MarketInv' /\ FillsKeepTheGate'
  BY <1>6, FillRunKeepsTheGate
<1> QED BY <1>1, <1>3, <1>4, <1>5, <1>6, Zenon DEF Next

-----------------------------------------------------------------------------
(* Every step.                                                             *)

LEMMA StepHolds ==
  ASSUME LoopInv, Promises, [Next]_vars
  PROVE  LoopInv' /\ Promises'
<1>1. CASE Tick
  BY <1>1, TickHolds
<1>2. CASE ReArm
  BY <1>2, ReArmHolds
<1>3. ASSUME NEW s \in 1..Sessions, DecisionClaim(s) \/ DecisionSkip(s) \/ DecisionThrow(s) \/ DecisionCrash(s)
      PROVE  LoopInv' /\ Promises'
  BY <1>3, DecisionRunsHold
<1>4. ASSUME NEW s \in 1..Sessions, DecisionSeal(s) PROVE LoopInv' /\ Promises'
  BY <1>4, DecisionSealHolds
<1>5. ASSUME NEW s \in 1..Sessions, FillIdle(s) PROVE LoopInv' /\ Promises'
  BY <1>5, FillIdleHolds
<1>6. ASSUME NEW s \in 1..Sessions, FillRun(s) PROVE LoopInv' /\ Promises'
  BY <1>6, FillRunHolds
<1>7. CASE UNCHANGED vars
  <2>1. UNCHANGED <<clock, sealed, outcomes, reconciles, reArms, runs>>
    BY <1>7 DEF vars
  <2>2. clock' \in Nat /\ clock' >= clock /\ TimeInv'
    BY <2>1 DEF LoopInv, TimeInv
  <2>3. RunInv'
    BY <2>1 DEF LoopInv, RunInv, DecisionRun
  <2> QED BY <2>1, <2>2, <2>3, OnlyRuns
<1> QED BY <1>1, <1>2, <1>3, <1>4, <1>5, <1>6, <1>7, Zenon DEF Next

(* Between the steps both arms of a decision are sealed or neither is, a   *)
(* run that did not succeed sealed nothing, and every log is in the order  *)
(* of its instants; with it every promise below is kept.                   *)
THEOREM LedgersAreWhole == Spec => [](LoopInv /\ Promises)
<1>1. Init => LoopInv /\ Promises
  BY InitHolds
<1>2. (LoopInv /\ Promises) /\ [Next]_vars => (LoopInv /\ Promises)'
  BY StepHolds
<1> QED BY <1>1, <1>2, PTL DEF Spec

(* However many re-arms, crashes and late runs: a halt relaxes by one step *)
(* for each re-arm between two decisions (haltInputOf).                    *)
THEOREM HaltsStaySticky == Spec => []HaltsAreSticky
<1>1. LoopInv /\ Promises => HaltsAreSticky
  BY DEF Promises
<1> QED BY <1>1, LedgersAreWhole, PTL

(* A break of an earlier session that is still reported and that no re-arm *)
(* acknowledged holds every decision (shadow-halt.ts, D-54).               *)
THEOREM BreaksHoldTheBook == Spec => []UnresolvedBreaksHold
<1>1. LoopInv /\ Promises => UnresolvedBreaksHold
  BY DEF Promises
<1> QED BY <1>1, LedgersAreWhole, PTL

(* No outcome is recorded while an older decision of its arm has none.     *)
THEOREM OutcomesStayInOrder == Spec => []OutcomesInOrder
<1>1. LoopInv /\ Promises => OutcomesInOrder
  BY LogPlaces DEF LoopInv, LogInv, OutcomesInv, Promises, InOrderThrough, OutcomesInOrder, Names
<1> QED BY <1>1, LedgersAreWhole, PTL

(* No reconcile reports a fill record that is only deferred: the fill job  *)
(* and the reconcile agree on when an outcome is owed.                     *)
THEOREM DeferralsAreQuiet == Spec => []DeferralIsNoBreak
<1>1. LoopInv /\ Promises => DeferralIsNoBreak
  BY DEF Promises
<1> QED BY <1>1, LedgersAreWhole, PTL

(* A decision that was never sealed is in every later reconcile.           *)
THEOREM GapsStayReported == Spec => []GapsAreReported
<1>1. LoopInv /\ Promises => GapsAreReported
  BY LogPlaces DEF LoopInv, LogInv, ReconcilesInv, InTime, Promises, GapsAreKnown, GapsAreReported
<1> QED BY <1>1, LedgersAreWhole, PTL

(* A decision that held its arm has no recorded fill, and one that let no  *)
(* new risk in bought nothing, whatever the market did and however late    *)
(* the fill job ran (shadow-fills.ts counterfactualFills).                 *)
THEOREM FrozenStaysFrozen == Spec => []FrozenBookStaysFrozen
<1>1. Init => LoopInv /\ Promises /\ MarketInv /\ FillsKeepTheGate
  BY InitHolds, GateInit
<1>2. (LoopInv /\ Promises /\ MarketInv /\ FillsKeepTheGate) /\ [Next]_vars
        => (LoopInv /\ Promises /\ MarketInv /\ FillsKeepTheGate)'
  BY StepHolds, StepKeepsTheGates
<1>3. LoopInv /\ FillsKeepTheGate => FrozenBookStaysFrozen
  <2> SUFFICES ASSUME LoopInv, FillsKeepTheGate, NEW i \in DOMAIN outcomes, NEW d \in sealed,
                      d.arm = outcomes[i].arm, d.session = outcomes[i].session
               PROVE  /\ d.halt = "HOLD_ONLY" => outcomes[i].fills = <<>>
                      /\ \A k \in DOMAIN outcomes[i].fills : outcomes[i].fills[k].side = "BUY" => d.newRisk
    BY DEF FrozenBookStaysFrozen
  <2>1. i \in 1..Len(outcomes)
    BY LogPlaces DEF LoopInv, LogInv, OutcomesInv
  <2>2. Allowed(d, outcomes[i].fills)
    BY <2>1 DEF FillsKeepTheGate, Names
  <2> QED BY <2>2 DEF Allowed
<1> QED BY <1>1, <1>2, <1>3, PTL DEF Spec

-----------------------------------------------------------------------------
(* The decision the status names.                                          *)

LEMMA UpcomingIsFirstOpen ==
  ASSUME LoopInv, NEW s \in 1..Sessions, IsWeeklyDecisionSession(s), ~InstantOver(s), RunAt(s) <= clock
  PROVE  s = UpcomingShadowDecision
<1>1. PICK open : open = {x \in 1..Sessions : IsWeeklyDecisionSession(x) /\ ~InstantOver(x)}
  OBVIOUS
<1>2. s \in open /\ open \subseteq 1..Sessions
  BY <1>1
<1>3. ASSUME NEW x \in open, x < s PROVE FALSE
  <2>1. x \in 1..Sessions /\ ~InstantOver(x) /\ DecisionRun(x, runs["decision"][x]) /\ runs["decision"][x] \in Run
    BY <1>1 DEF LoopInv, RunInv, TimeInv, Jobs
  <2>2. PICK c \in Nat : c = clock
    BY DEF LoopInv, TimeInv
  <2>3. RunAt(x) + Lookback <= c /\ RunAt(x) + Lookback \in Int
    <3>1. x \in Int /\ s \in Int /\ 2 * s + 1 <= c /\ x + 1 <= s
      BY <1>2, <1>3, <2>2 DEF RunAt
    <3>2. 2 * x + 1 + 2 <= c
      BY <3>1, <2>2
    <3> QED BY <3>1, <3>2 DEF RunAt, Lookback
  <2>4. PICK st \in RunStates, at \in Nat : st = runs["decision"][x].state /\ at = runs["decision"][x].at
    BY <2>1 DEF Run
  <2>5. st \in {"running", "pending"}
    BY <2>1, <2>2, <2>3, <2>4 DEF InstantOver, RunStates
  <2>6. at < RunAt(x) + Lookback
    BY <2>1, <2>4, <2>5 DEF DecisionRun
  <2>7. at < c
    BY <2>2, <2>3, <2>6
  <2> QED BY <2>1, <2>2, <2>4, <2>5, <2>7 DEF InstantOver
<1>4. \A x \in open : s <= x
  BY <1>2, <1>3
<1>5. UpcomingShadowDecision = CHOOSE x \in open : \A y \in open : x <= y
  BY <1>1, <1>2 DEF UpcomingShadowDecision
<1>6. \A x \in open : (\A y \in open : x <= y) => x = s
  BY <1>2, <1>4
<1> QED BY <1>2, <1>4, <1>5, <1>6

(* A claim, and a seal, is of a decision that is still open.               *)
LEMMA ClaimedIsOpen ==
  ASSUME LoopInv, NEW s \in 1..Sessions, Due(s), IsWeeklyDecisionSession(s), runs["decision"][s].state = "none"
  PROVE  s = UpcomingShadowDecision
<1>1. RunAt(s) <= clock /\ clock < RunAt(s) + Lookback
  BY DEF Due
<1>2. ~SealedWhole(s)
  <2>1. \A d \in sealed : d.session # s
    BY DEF LoopInv, RunInv, DecisionRun
  <2> QED BY <2>1 DEF SealedWhole, Arms
<1>3. ~(RunAt(s) + Lookback <= clock)
  <2>1. PICK c \in Nat, r \in Int : c = clock /\ r = RunAt(s) + Lookback
    BY DEF LoopInv, TimeInv, RunAt, Lookback
  <2> QED BY <2>1, <1>1
<1>4. ~InstantOver(s)
  BY <1>2, <1>3 DEF InstantOver
<1> QED BY <1>1, <1>4, UpcomingIsFirstOpen

LEMMA RunningIsOpen ==
  ASSUME LoopInv, NEW s \in 1..Sessions, runs["decision"][s].state = "running"
  PROVE  s = UpcomingShadowDecision
<1>1. /\ clock \in Nat /\ RunAt(s) <= clock /\ IsWeeklyDecisionSession(s) /\ runs["decision"][s].at = clock
      /\ \A d \in sealed : d.session \in 1..Sessions /\ d.session < s
  BY RunningDecision
<1>2. ~SealedWhole(s)
  BY <1>1 DEF SealedWhole, Arms
<1>3. ~InstantOver(s)
  BY <1>1, <1>2 DEF InstantOver
<1> QED BY <1>1, <1>3, UpcomingIsFirstOpen

(* No other action claims or seals.                                        *)
LEMMA NothingElseStarts ==
  ASSUME LoopInv, NEW j \in Jobs, NEW s \in 1..Sessions, NEW state \in RunStates, Finish(j, s, state),
         clock' = clock, j = "fill" \/ state # "running", NEW x \in 1..Sessions
  PROVE  ~(runs["decision"][x].state = "none" /\ runs'["decision"][x].state = "running")
<1>1. /\ runs'[j][s] = [state |-> state, at |-> clock]
      /\ \A k \in Jobs, y \in 1..Sessions : k # j \/ y # s => runs'[k][y] = runs[k][y]
  BY FinishedRun DEF LoopInv
<1>2. "decision" \in Jobs
  BY DEF Jobs
<1>3. CASE j = "decision" /\ x = s
  BY <1>1, <1>3
<1>4. CASE j # "decision" \/ x # s
  BY <1>1, <1>2, <1>4
<1> QED BY <1>3, <1>4

LEMMA StepSealsTheUpcoming ==
  ASSUME LoopInv, [Next]_vars, NEW s \in 1..Sessions,
         \/ \E d \in sealed' \ sealed : d.session = s
         \/ runs["decision"][s].state = "none" /\ runs'["decision"][s].state = "running"
  PROVE  s = UpcomingShadowDecision
<1>1. CASE Tick \/ ReArm \/ UNCHANGED vars
  <2>1. sealed' = sealed /\ runs' = runs
    BY <1>1, Zenon DEF Tick, ReArm, vars
  <2> QED BY <2>1
<1>2. ASSUME NEW x \in 1..Sessions, DecisionClaim(x) PROVE s = UpcomingShadowDecision
  <2>1. /\ Due(x) /\ IsWeeklyDecisionSession(x) /\ runs["decision"][x].state = "none"
        /\ Finish("decision", x, "running") /\ clock' = clock /\ sealed' = sealed
    BY <1>2, Zenon DEF DecisionClaim
  <2>2. "decision" \in Jobs /\ "running" \in RunStates
    BY DEF Jobs, RunStates
  <2>3. x # s => runs'["decision"][s] = runs["decision"][s]
    BY <2>1, <2>2, FinishedRun DEF LoopInv
  <2>4. x = s
    BY <2>1, <2>3
  <2> QED BY <2>1, <2>4, ClaimedIsOpen
<1>3. ASSUME NEW x \in 1..Sessions, DecisionSeal(x) PROVE s = UpcomingShadowDecision
  <2>1. runs["decision"][x].state = "running" /\ Finish("decision", x, "succeeded") /\ clock' = clock
    BY <1>3, Zenon DEF DecisionSeal
  <2>2. "decision" \in Jobs /\ "succeeded" \in RunStates /\ "succeeded" # "running"
    BY DEF Jobs, RunStates
  <2>3. PICK d \in sealed' \ sealed : d.session = s
    BY <2>1, <2>2, NothingElseStarts
  <2>4. PICK r1, r2 : sealed' = sealed \cup {r1, r2} /\ r1.session = x /\ r2.session = x
    BY <1>3, SealedRecords
  <2>5. x = s
    BY <2>3, <2>4
  <2> QED BY <2>1, <2>5, RunningIsOpen
<1>4. ASSUME NEW x \in 1..Sessions, NEW state \in {"succeeded", "failed", "pending"}, NEW j \in Jobs,
             Finish(j, x, state), clock' = clock, sealed' = sealed
      PROVE  s = UpcomingShadowDecision
  <2>1. state \in RunStates /\ state # "running"
    BY <1>4 DEF RunStates
  <2> QED BY <2>1, <1>4, NothingElseStarts
<1>5. ASSUME NEW x \in 1..Sessions, DecisionSkip(x) \/ DecisionThrow(x) \/ DecisionCrash(x)
      PROVE  s = UpcomingShadowDecision
  <2>1. /\ clock' = clock /\ sealed' = sealed
        /\ Finish("decision", x, "succeeded") \/ Finish("decision", x, "failed") \/ Finish("decision", x, "pending")
    BY <1>5, Zenon DEF DecisionSkip, DecisionThrow, DecisionCrash
  <2>2. "decision" \in Jobs
    BY DEF Jobs
  <2> QED BY <2>1, <2>2, <1>4
<1>6. ASSUME NEW x \in 1..Sessions, FillIdle(x) \/ FillRun(x) PROVE s = UpcomingShadowDecision
  <2>1. /\ clock' = clock /\ sealed' = sealed
        /\ Finish("fill", x, "succeeded") \/ Finish("fill", x, "failed")
    BY <1>6, Zenon DEF FillIdle, FillRun
  <2>2. "fill" \in Jobs
    BY DEF Jobs
  <2> QED BY <2>1, <2>2, <1>4
<1> QED BY <1>1, <1>2, <1>3, <1>5, <1>6, Zenon DEF Next

(* The decision that is claimed, or sealed, is the one the status named    *)
(* (upcomingShadowDecision).                                               *)
THEOREM UpcomingIsSealed == Spec => SealsTheUpcoming
<1> DEFINE Named == \A s \in 1..Sessions :
                      \/ \E d \in sealed' \ sealed : d.session = s
                      \/ runs["decision"][s].state = "none" /\ runs'["decision"][s].state = "running"
                      => s = UpcomingShadowDecision
<1>1. LoopInv /\ Promises /\ [Next]_vars => [Named]_vars
  BY StepSealsTheUpcoming
<1>2. SealsTheUpcoming <=> [][Named]_vars
  BY DEF SealsTheUpcoming
<1> HIDE DEF Named
<1> QED BY <1>1, <1>2, LedgersAreWhole, PTL DEF Spec

=============================================================================
