----------------------------- MODULE DfcmProofs -----------------------------
(***************************************************************************)
(* Theorems of DfcmSearch, for every set of candidates and worlds, whatever *)
(* their dimensions and constraints, and searches of any length.           *)
(*                                                                         *)
(* The frontier is a function of a world and of what was offered, so there *)
(* is nothing to strengthen about the search: the work is in what the      *)
(* function computes.  A stable sort puts every element at its rank, ranks *)
(* are a bijection on the indices that are sorted, and a candidate is among *)
(* them exactly when it is lawful.                                         *)
(***************************************************************************)
EXTENDS DfcmSearch, NaturalSets, FiniteSetTheorems, TLAPS

-----------------------------------------------------------------------------
(* Ranks.                                                                  *)

\* The pairs in R are a strict total order of I.
Orders(R, I) ==
  /\ \A i \in I : <<i, i>> \notin R
  /\ \A i, j, k \in I : <<i, j>> \in R /\ <<j, k>> \in R => <<i, k>> \in R
  /\ \A i, j \in I : i = j \/ <<i, j>> \in R \/ <<j, i>> \in R

Below(R, I, i) == {j \in I : <<j, i>> \in R}

RankIn(R, I, i) == Cardinality(Below(R, I, i)) + 1

LEMMA BelowFinite ==
  ASSUME NEW I, IsFiniteSet(I), NEW R, NEW i
  PROVE  /\ IsFiniteSet(Below(R, I, i)) /\ Cardinality(Below(R, I, i)) \in Nat
         /\ RankIn(R, I, i) \in Nat \ {0}
<1>1. Below(R, I, i) \in SUBSET I
  BY DEF Below
<1>2. IsFiniteSet(Below(R, I, i))
  BY <1>1, FS_Subset, Zenon
<1>3. Cardinality(Below(R, I, i)) \in Nat
  BY <1>2, FS_CardinalityType, Zenon
<1>4. QED
  BY <1>2, <1>3 DEF RankIn

\* What comes before has the lower rank.
LEMMA RanksGrow ==
  ASSUME NEW I, IsFiniteSet(I), NEW R, Orders(R, I), NEW i \in I, NEW j \in I, <<i, j>> \in R
  PROVE  RankIn(R, I, i) < RankIn(R, I, j)
<1>1. i \notin Below(R, I, i) /\ i \in Below(R, I, j)
  BY DEF Orders, Below
<1>2. Below(R, I, i) \subseteq Below(R, I, j)
  BY DEF Orders, Below
<1>3. /\ IsFiniteSet(Below(R, I, j)) /\ Cardinality(Below(R, I, j)) \in Nat
      /\ IsFiniteSet(Below(R, I, i)) /\ Cardinality(Below(R, I, i)) \in Nat
  BY BelowFinite
<1>4. Cardinality(Below(R, I, i) \cup {i}) <= Cardinality(Below(R, I, j))
  <2>1. Below(R, I, i) \cup {i} \in SUBSET Below(R, I, j)
    BY <1>1, <1>2
  <2>2. QED
    BY <1>3, <2>1, FS_Subset, Zenon
<1>5. Cardinality(Below(R, I, i) \cup {i}) = Cardinality(Below(R, I, i)) + 1
  BY <1>1, <1>3, FS_AddElement, Zenon
<1>6. QED
  BY <1>3, <1>4, <1>5 DEF RankIn

\* Ranks number the elements of I.
LEMMA RanksNumber ==
  ASSUME NEW I, IsFiniteSet(I), NEW R, Orders(R, I)
  PROVE  /\ Cardinality(I) \in Nat
         /\ \A i \in I : RankIn(R, I, i) \in 1..Cardinality(I)
         /\ \A i, j \in I : RankIn(R, I, i) = RankIn(R, I, j) => i = j
         /\ \A k \in 1..Cardinality(I) : \E i \in I : RankIn(R, I, i) = k
<1>. DEFINE n == Cardinality(I)
            rank == [i \in I |-> RankIn(R, I, i)]
<1>1. n \in Nat
  BY FS_CardinalityType, Zenon
<1>2. ASSUME NEW i \in I PROVE RankIn(R, I, i) \in 1..n
  <2>1. Below(R, I, i) \in SUBSET (I \ {i})
    BY DEF Below, Orders
  <2>2. IsFiniteSet(I \ {i}) /\ Cardinality(I \ {i}) = n - 1
    BY FS_RemoveElement, Zenon
  <2>3. Cardinality(Below(R, I, i)) <= Cardinality(I \ {i})
    BY <2>1, <2>2, FS_Subset, Zenon
  <2>4. Cardinality(Below(R, I, i)) <= n - 1
    BY <2>2, <2>3
  <2>5. QED
    BY <1>1, <2>4, BelowFinite DEF RankIn
<1>3. ASSUME NEW i \in I, NEW j \in I, RankIn(R, I, i) = RankIn(R, I, j) PROVE i = j
  <2>1. RankIn(R, I, i) \in Nat /\ RankIn(R, I, j) \in Nat
    BY BelowFinite
  <2>2. <<i, j>> \notin R /\ <<j, i>> \notin R
    BY <1>3, <2>1, RanksGrow
  <2>3. QED
    BY <2>2 DEF Orders
<1>4. rank \in Injection(I, 1..n)
  BY <1>2, <1>3 DEF Injection, IsInjective
<1>5. IsFiniteSet(1..n) /\ Cardinality(1..n) = n
  BY <1>1, FS_Interval
<1>6. rank \in Surjection(I, 1..n)
  BY <1>4, <1>5, FS_Injection, Zenon
<1>7. ASSUME NEW k \in 1..n PROVE \E i \in I : RankIn(R, I, i) = k
  BY <1>6 DEF Surjection
<1>8. QED
  BY <1>1, <1>2, <1>3, <1>7

\* f takes the order Q of J to the order R.
Carries(f, J, Q, R) == \A i, j \in J : <<i, j>> \in Q <=> <<f[i], f[j]>> \in R

\* Ranks do not depend on names.
LEMMA RanksTravel ==
  ASSUME NEW I, IsFiniteSet(I), NEW R, NEW J, NEW Q, NEW f \in Bijection(J, I),
         Carries(f, J, Q, R), NEW i \in J
  PROVE  RankIn(Q, J, i) = RankIn(R, I, f[i])
<1>. DEFINE g == [j \in Below(Q, J, i) |-> f[j]]
<1>1. /\ f \in [J -> I] /\ \A a, b \in J : f[a] = f[b] => a = b
      /\ \A t \in I : \E s \in J : f[s] = t
  BY DEF Bijection, Injection, Surjection, IsInjective
<1>2. f[i] \in I
  BY <1>1
<1>3. g \in Bijection(Below(Q, J, i), Below(R, I, f[i]))
  <2>1. \A j \in J : j \in Below(Q, J, i) <=> f[j] \in Below(R, I, f[i])
    BY <1>1, <1>2 DEF Below, Carries
  <2>2. Below(Q, J, i) \subseteq J /\ Below(R, I, f[i]) \subseteq I
    BY DEF Below
  <2>3. g \in [Below(Q, J, i) -> Below(R, I, f[i])]
    BY <2>1, <2>2
  <2>4. g \in Injection(Below(Q, J, i), Below(R, I, f[i]))
    BY <1>1, <2>2, <2>3 DEF Injection, IsInjective
  <2>5. \A t \in Below(R, I, f[i]) : \E s \in Below(Q, J, i) : g[s] = t
    BY <1>1, <2>1, <2>2
  <2>6. QED
    BY <2>3, <2>4, <2>5 DEF Bijection, Surjection
<1>4. ExistsBijection(Below(Q, J, i), Below(R, I, f[i]))
  BY <1>3 DEF ExistsBijection
<1>5. IsFiniteSet(J)
  <2>1. f \in Injection(J, I)
    BY DEF Bijection
  <2>2. QED
    BY <2>1, FS_Injection, Zenon
<1>6. IsFiniteSet(Below(Q, J, i))
  BY <1>5, BelowFinite
<1>7. Cardinality(Below(Q, J, i)) = Cardinality(Below(R, I, f[i]))
  BY <1>4, <1>6, FS_Bijection, Zenon
<1>8. QED
  BY <1>7 DEF RankIn
-----------------------------------------------------------------------------
(* The stable sorts.                                                       *)

\* out has the elements of s at the indices in I, each at its rank.
Sorts(out, s, I, R) ==
  /\ out = [k \in 1..Cardinality(I) |-> out[k]]
  /\ \A i \in I : out[RankIn(R, I, i)] = s[i]

\* A score, and whatever else carries one, as the comparators read it.
Scored(c) == {c.id, c.preservation, c.gain, c.cost} \subseteq Nat

\* The element at i comes before the one at j.
Ahead(s, i, j) == Precedes(s[i], s[j]) \/ (~Precedes(s[j], s[i]) /\ i < j)

ByScore(s) == {p \in (DOMAIN s) \X (DOMAIN s) : Ahead(s, p[1], p[2])}

AheadById(s, i, j) == s[i].id < s[j].id \/ (~(s[j].id < s[i].id) /\ i < j)

ById(s) == {p \in (DOMAIN s) \X (DOMAIN s) : AheadById(s, p[1], p[2])}

LEMMA PairsAre ==
  ASSUME NEW s, NEW i \in DOMAIN s, NEW j \in DOMAIN s
  PROVE  /\ <<i, j>> \in ByScore(s) <=> Ahead(s, i, j)
         /\ <<i, j>> \in ById(s) <=> AheadById(s, i, j)
<1>1. <<i, j>> \in (DOMAIN s) \X (DOMAIN s) /\ <<i, j>>[1] = i /\ <<i, j>>[2] = j
  OBVIOUS
<1>2. <<i, j>> \in ByScore(s) <=> Ahead(s, i, j)
  <2>1. <<i, j>> \in ByScore(s) <=> Ahead(s, <<i, j>>[1], <<i, j>>[2])
    BY <1>1, Zenon DEF ByScore
  <2>2. QED
    BY <1>1, <2>1
<1>3. <<i, j>> \in ById(s) <=> AheadById(s, i, j)
  <2>1. <<i, j>> \in ById(s) <=> AheadById(s, <<i, j>>[1], <<i, j>>[2])
    BY <1>1, Zenon DEF ById
  <2>2. QED
    BY <1>1, <2>1
<1>4. QED
  BY <1>2, <1>3

\* The comparator is a strict weak order.
LEMMA PrecedesIsWeak ==
  ASSUME NEW l, NEW m, NEW r, Scored(l), Scored(m), Scored(r)
  PROVE  /\ Precedes(l, m) => ~Precedes(m, l)
         /\ ~Precedes(m, l) /\ ~Precedes(r, m) => ~Precedes(r, l)
<1>1. /\ l.id \in Nat /\ l.preservation \in Nat /\ l.gain \in Nat /\ l.cost \in Nat
      /\ m.id \in Nat /\ m.preservation \in Nat /\ m.gain \in Nat /\ m.cost \in Nat
      /\ r.id \in Nat /\ r.preservation \in Nat /\ r.gain \in Nat /\ r.cost \in Nat
  BY DEF Scored
<1>2. Precedes(l, m) => ~Precedes(m, l)
  BY <1>1 DEF Precedes
<1>3. ~Precedes(m, l) /\ ~Precedes(r, m) => ~Precedes(r, l)
  BY <1>1 DEF Precedes
<1>4. QED
  BY <1>2, <1>3

LEMMA ScoresOrder ==
  ASSUME NEW s, DOMAIN s \subseteq Nat, \A i \in DOMAIN s : Scored(s[i])
  PROVE  Orders(ByScore(s), DOMAIN s)
<1>1. \A i, j \in DOMAIN s : <<i, j>> \in ByScore(s) <=> Ahead(s, i, j)
  BY PairsAre
<1>2. ASSUME NEW i \in DOMAIN s, NEW j \in DOMAIN s
      PROVE  i = j \/ <<i, j>> \in ByScore(s) \/ <<j, i>> \in ByScore(s)
  <2>1. i \in Nat /\ j \in Nat /\ Scored(s[i]) /\ Scored(s[j])
    OBVIOUS
  <2>2. i = j \/ Ahead(s, i, j) \/ Ahead(s, j, i)
    BY <2>1 DEF Ahead
  <2>3. QED
    BY <1>1, <2>2
<1>3. ASSUME NEW i \in DOMAIN s, NEW j \in DOMAIN s, NEW k \in DOMAIN s,
             <<i, j>> \in ByScore(s), <<j, k>> \in ByScore(s)
      PROVE  <<i, k>> \in ByScore(s)
  <2>1. Ahead(s, i, j) /\ Ahead(s, j, k)
    BY <1>1, <1>3
  <2>2. i \in Nat /\ j \in Nat /\ k \in Nat /\ Scored(s[i]) /\ Scored(s[j]) /\ Scored(s[k])
    OBVIOUS
  <2>3. /\ Precedes(s[i], s[j]) => ~Precedes(s[j], s[i])
        /\ Precedes(s[j], s[k]) => ~Precedes(s[k], s[j])
        /\ ~Precedes(s[j], s[i]) /\ ~Precedes(s[k], s[j]) => ~Precedes(s[k], s[i])
        /\ ~Precedes(s[k], s[j]) /\ ~Precedes(s[i], s[k]) => ~Precedes(s[i], s[j])
        /\ ~Precedes(s[i], s[k]) /\ ~Precedes(s[j], s[i]) => ~Precedes(s[j], s[k])
    BY <2>2, PrecedesIsWeak
  <2>4. Ahead(s, i, k)
    BY <2>1, <2>2, <2>3 DEF Ahead
  <2>5. QED
    BY <1>1, <2>4
<1>4. ASSUME NEW i \in DOMAIN s PROVE <<i, i>> \notin ByScore(s)
  <2>1. i \in Nat /\ Scored(s[i])
    OBVIOUS
  <2>2. ~Ahead(s, i, i)
    BY <2>1, PrecedesIsWeak DEF Ahead
  <2>3. QED
    BY <1>1, <2>2
<1>5. QED
  BY <1>2, <1>3, <1>4 DEF Orders

LEMMA IdsOrder ==
  ASSUME NEW s, DOMAIN s \subseteq Nat, \A i \in DOMAIN s : s[i].id \in Nat
  PROVE  Orders(ById(s), DOMAIN s)
<1>1. \A i, j \in DOMAIN s : <<i, j>> \in ById(s) <=> AheadById(s, i, j)
  BY PairsAre
<1>2. \A i \in DOMAIN s : i \in Nat /\ s[i].id \in Nat
  OBVIOUS
<1>3. QED
  BY <1>1, <1>2 DEF Orders, AheadById

LEMMA OrdersPart ==
  ASSUME NEW R, NEW I, NEW J, J \subseteq I, Orders(R, I)
  PROVE  Orders(R, J)
BY DEF Orders

\* What the code sorts with sort_by comes out by rank.
LEMMA SortsByScore ==
  ASSUME NEW s, NEW I, I \subseteq DOMAIN s, IsFiniteSet(I), Orders(ByScore(s), I)
  PROVE  Sorts(StableSort(s, I, Precedes), s, I, ByScore(s))
<1>. DEFINE First(i, j) == Ahead(s, i, j)
            Rank(i) == Cardinality({j \in I : First(j, i)}) + 1
            out == [k \in 1..Cardinality(I) |-> s[CHOOSE i \in I : Rank(i) = k]]
<1>1. StableSort(s, I, Precedes) = out
  BY DEF StableSort, Ahead
<1>2. ASSUME NEW i \in I PROVE Rank(i) = RankIn(ByScore(s), I, i)
  <2>1. {j \in I : First(j, i)} = Below(ByScore(s), I, i)
    BY PairsAre DEF Below
  <2>2. QED
    BY <2>1 DEF RankIn
<1>. HIDE DEF Rank
<1>3. ASSUME NEW i \in I PROVE out[RankIn(ByScore(s), I, i)] = s[i]
  <2>1. RankIn(ByScore(s), I, i) \in 1..Cardinality(I)
    BY RanksNumber
  <2>2. (CHOOSE j \in I : Rank(j) = RankIn(ByScore(s), I, i)) = i
    BY <1>2, RanksNumber
  <2>3. QED
    BY <2>1, <2>2
<1>4. out = [k \in 1..Cardinality(I) |-> out[k]]
  OBVIOUS
<1>. HIDE DEF out
<1>5. QED
  BY <1>1, <1>3, <1>4 DEF Sorts

LEMMA SortsById ==
  ASSUME NEW s, NEW I, I \subseteq DOMAIN s, IsFiniteSet(I), Orders(ById(s), I)
  PROVE  Sorts(StableSort(s, I, PrecedesById), s, I, ById(s))
<1>. DEFINE First(i, j) == AheadById(s, i, j)
            Rank(i) == Cardinality({j \in I : First(j, i)}) + 1
            out == [k \in 1..Cardinality(I) |-> s[CHOOSE i \in I : Rank(i) = k]]
<1>1. StableSort(s, I, PrecedesById) = out
  BY DEF StableSort, AheadById, PrecedesById
<1>2. ASSUME NEW i \in I PROVE Rank(i) = RankIn(ById(s), I, i)
  <2>1. {j \in I : First(j, i)} = Below(ById(s), I, i)
    BY PairsAre DEF Below
  <2>2. QED
    BY <2>1 DEF RankIn
<1>. HIDE DEF Rank
<1>3. ASSUME NEW i \in I PROVE out[RankIn(ById(s), I, i)] = s[i]
  <2>1. RankIn(ById(s), I, i) \in 1..Cardinality(I)
    BY RanksNumber
  <2>2. (CHOOSE j \in I : Rank(j) = RankIn(ById(s), I, i)) = i
    BY <1>2, RanksNumber
  <2>3. QED
    BY <2>1, <2>2
<1>4. out = [k \in 1..Cardinality(I) |-> out[k]]
  OBVIOUS
<1>. HIDE DEF out
<1>5. QED
  BY <1>1, <1>3, <1>4 DEF Sorts
-----------------------------------------------------------------------------
(* What is admitted.                                                       *)

\* A list of checks admits when every one of them passes.
LEMMA FirstRefusalIs ==
  ASSUME NEW checks, Len(checks) \in Nat,
         \A i \in 1..Len(checks) : checks[i][1] \/ checks[i][2] # Admitted
  PROVE  FirstRefusal(checks) = Admitted <=> \A i \in 1..Len(checks) : checks[i][1]
<1>. DEFINE I == {i \in 1..Len(checks) : ~checks[i][1]}
<1>1. FirstRefusal(checks) = IF (IF I # {} THEN Min(I) ELSE 0) = 0 THEN Admitted
                             ELSE checks[IF I # {} THEN Min(I) ELSE 0][2]
  BY DEF FirstRefusal, SelectInSeq
<1>2. CASE I = {}
  BY <1>1, <1>2
<1>3. CASE I # {}
  <2>1. \E n \in I : \A m \in I : n <= m
    <3>1. I \subseteq Nat
      OBVIOUS
    <3>. HIDE DEF I
    <3>2. QED
      BY <1>3, <3>1, LeastNatural, Zenon
  <2>2. Min(I) \in I
    <3>. HIDE DEF I
    <3>1. QED
      BY <2>1 DEF Min
  <2>3. Min(I) \in 1..Len(checks) /\ Min(I) # 0 /\ ~checks[Min(I)][1]
    BY <2>2
  <2>4. FirstRefusal(checks) = checks[Min(I)][2]
    BY <1>1, <1>3, <2>3
  <2>5. FirstRefusal(checks) # Admitted
    BY <2>3, <2>4
  <2>6. \E i \in 1..Len(checks) : ~checks[i][1]
    BY <1>3
  <2>7. QED
    BY <2>5, <2>6
<1>4. QED
  BY <1>2, <1>3

\* The ten checks of Candidate::project.
Projects(c, w) ==
  LET applied == ApplyMutations(c.mutations, w.dims) IN
  /\ w.subject \in ValidSubjects /\ w.wellFormed
  /\ c.subject \in ValidSubjects /\ c.subject = w.subject
  /\ c.named /\ c.key # NoKey /\ c.reversible
  /\ Knows(w, c.requires)
  /\ applied.refusal = Admitted
  /\ ConstraintsHold(c.constraints, applied.dims)

LEMMA ProjectsWhen ==
  ASSUME NEW c, NEW w
  PROVE  ProjectRefusal(c, w) = Admitted <=> Projects(c, w)
<1>. DEFINE applied == ApplyMutations(c.mutations, w.dims)
            holds == ConstraintsHold(c.constraints, applied.dims)
            knows == Knows(w, c.requires)
            code == applied.refusal
            checks == <<
              <<w.subject \in ValidSubjects,  "InvalidSubject">>,
              <<w.wellFormed,                 "ConstraintClosure">>,
              <<c.subject \in ValidSubjects,  "InvalidSubject">>,
              <<c.subject = w.subject,        "SubjectMismatch">>,
              <<c.named,                      "ConstraintClosure">>,
              <<c.key # NoKey,                "MissingIdempotency">>,
              <<c.reversible,                 "IrreversibleCandidate">>,
              <<knows,                        "CriticalUnknown">>,
              <<code = Admitted,              code>>,
              <<holds,                        "ConstraintClosure">> >>
<1>1. ProjectRefusal(c, w) = FirstRefusal(checks)
  BY DEF ProjectRefusal
<1>2. Projects(c, w) <=>
        /\ w.subject \in ValidSubjects /\ w.wellFormed
        /\ c.subject \in ValidSubjects /\ c.subject = w.subject
        /\ c.named /\ c.key # NoKey /\ c.reversible /\ knows /\ code = Admitted /\ holds
  BY DEF Projects
<1>. HIDE DEF applied, holds, knows, code
<1>3. Len(checks) = 10
  OBVIOUS
<1>4. /\ checks[1][1] <=> w.subject \in ValidSubjects
      /\ checks[2][1] <=> w.wellFormed
      /\ checks[3][1] <=> c.subject \in ValidSubjects
      /\ checks[4][1] <=> c.subject = w.subject
      /\ checks[5][1] <=> c.named
      /\ checks[6][1] <=> c.key # NoKey
      /\ checks[7][1] <=> c.reversible
      /\ checks[8][1] <=> knows
      /\ checks[9][1] <=> code = Admitted
      /\ checks[10][1] <=> holds
  OBVIOUS
<1>5. \A i \in 1..10 : checks[i][1] \/ checks[i][2] # Admitted
  <2>1. \A i \in 1..10 : i = 9 \/ checks[i][2] # Admitted
    BY DEF Admitted
  <2>2. checks[9][2] = code
    OBVIOUS
  <2>. HIDE DEF checks
  <2>3. QED
    BY <1>4, <2>1, <2>2
<1>. HIDE DEF checks
<1>6. FirstRefusal(checks) = Admitted <=> \A i \in 1..10 : checks[i][1]
  <2>1. Len(checks) \in Nat /\ \A i \in 1..Len(checks) : checks[i][1] \/ checks[i][2] # Admitted
    BY <1>3, <1>5
  <2>2. FirstRefusal(checks) = Admitted <=> \A i \in 1..Len(checks) : checks[i][1]
    BY <2>1, FirstRefusalIs, Zenon
  <2>3. QED
    BY <1>3, <2>2
<1>7. (\A i \in 1..10 : checks[i][1]) <=>
        /\ checks[1][1] /\ checks[2][1] /\ checks[3][1] /\ checks[4][1] /\ checks[5][1]
        /\ checks[6][1] /\ checks[7][1] /\ checks[8][1] /\ checks[9][1] /\ checks[10][1]
  OBVIOUS
<1>8. QED
  BY <1>1, <1>2, <1>4, <1>6, <1>7
-----------------------------------------------------------------------------
(* Projection.                                                             *)

Applies(f, muts, base, n) ==
  f = [k \in 0..n |-> IF k = 0 THEN base ELSE ApplyMutation(f[k - 1], muts[k])]

\* The recursion of ApplyMutations is well defined.
LEMMA AppliesSome ==
  ASSUME NEW muts, NEW base, NEW n \in Nat
  PROVE  \E f : Applies(f, muts, base, n)
<1>. DEFINE S == {m \in Nat : \E f : Applies(f, muts, base, m)}
<1>1. 0 \in S
  <2>. DEFINE f == [k \in 0..0 |-> base]
  <2>1. f = [k \in 0..0 |-> IF k = 0 THEN base ELSE ApplyMutation(f[k - 1], muts[k])]
    OBVIOUS
  <2>2. QED
    BY <2>1 DEF Applies
<1>2. ASSUME NEW m \in Nat, m \in S PROVE m + 1 \in S
  <2>1. PICK f : Applies(f, muts, base, m)
    BY <1>2
  <2>. DEFINE g == [k \in 0..m + 1 |-> IF k = m + 1 THEN ApplyMutation(f[m], muts[m + 1]) ELSE f[k]]
  <2>2. ASSUME NEW k \in 0..m + 1
        PROVE  g[k] = IF k = 0 THEN base ELSE ApplyMutation(g[k - 1], muts[k])
    <3>1. CASE k = m + 1
      <4>1. g[k - 1] = f[m] /\ k # 0
        BY <3>1
      <4>2. QED
        BY <3>1, <4>1
    <3>2. CASE k # m + 1
      <4>1. k \in 0..m /\ g[k] = f[k] /\ (k # 0 => k - 1 \in 0..m + 1 /\ k - 1 # m + 1)
        BY <3>2
      <4>2. k # 0 => g[k - 1] = f[k - 1]
        BY <4>1
      <4>3. f[k] = IF k = 0 THEN base ELSE ApplyMutation(f[k - 1], muts[k])
        BY <2>1, <4>1 DEF Applies
      <4>4. QED
        BY <4>1, <4>2, <4>3
    <3>3. QED
      BY <3>1, <3>2
  <2>3. g = [k \in 0..m + 1 |-> g[k]]
    OBVIOUS
  <2>. HIDE DEF g
  <2>4. Applies(g, muts, base, m + 1)
    BY <2>2, <2>3 DEF Applies
  <2>5. QED
    BY <2>4
<1>3. Nat \subseteq S
  BY <1>1, <1>2, NaturalInduction
<1>4. QED
  BY <1>3

LEMMA GreatestIs ==
  ASSUME NEW T, T \subseteq Nat, NEW n \in T, \A m \in T : m <= n
  PROVE  Max(T) = n
<1>1. \A x \in T : (\A y \in T : x >= y) => x = n
  OBVIOUS
<1>2. \A y \in T : n >= y
  OBVIOUS
<1>3. QED
  BY <1>1, <1>2 DEF Max

\* One more mutation leaves its own value where it applies.
LEMMA ValueGrows ==
  ASSUME NEW c, NEW w, NEW d, NEW m \in Nat
  PROVE  /\ m = 0 => ValueAfter(c, w, d, m) = w.dims[d]
         /\ m # 0 /\ c.mutations[m].dim = d => ValueAfter(c, w, d, m) = c.mutations[m].after
         /\ m # 0 /\ c.mutations[m].dim # d => ValueAfter(c, w, d, m) = ValueAfter(c, w, d, m - 1)
<1>. DEFINE On(k) == {i \in 1..k : c.mutations[i].dim = d}
<1>1. \A k \in Nat : ValueAfter(c, w, d, k) = IF On(k) = {} THEN w.dims[d] ELSE c.mutations[Max(On(k))].after
  BY DEF ValueAfter
<1>2. CASE m = 0
  <2>1. On(m) = {}
    BY <1>2
  <2>. HIDE DEF On
  <2>2. QED
    BY <1>1, <1>2, <2>1
<1>3. CASE m # 0 /\ c.mutations[m].dim = d
  <2>1. m \in On(m) /\ On(m) \subseteq Nat /\ \A i \in On(m) : i <= m
    BY <1>3
  <2>. HIDE DEF On
  <2>2. Max(On(m)) = m /\ On(m) # {}
    BY <2>1, GreatestIs
  <2>3. QED
    BY <1>1, <1>3, <2>2
<1>4. CASE m # 0 /\ c.mutations[m].dim # d
  <2>1. On(m) = On(m - 1) /\ m - 1 \in Nat
    BY <1>4
  <2>. HIDE DEF On
  <2>2. QED
    BY <1>1, <1>4, <2>1
<1>5. QED
  BY <1>2, <1>3, <1>4

\* The projection refuses a blank dimension and what was not observed, and
\* leaves the last value.
LEMMA ProjectionIs ==
  ASSUME NEW c \in Candidates, NEW w \in Worlds
  PROVE  LET n == Len(c.mutations)
             applied == ApplyMutations(c.mutations, w.dims)
         IN  /\ applied.refusal = Admitted <=> \A k \in 1..n :
                  /\ c.mutations[k].dim # NoDimension
                  /\ c.mutations[k].before = ValueAfter(c, w, c.mutations[k].dim, k - 1)
             /\ applied.refusal = Admitted => applied.dims = [d \in DOMAIN w.dims |-> ValueAfter(c, w, d, n)]
<1>. DEFINE muts == c.mutations
            n == Len(c.mutations)
            base == [refusal |-> Admitted, dims |-> w.dims]
            f == CHOOSE g : g = [k \in 0..n |-> IF k = 0 THEN base ELSE ApplyMutation(g[k - 1], muts[k])]
            Observed(k) == /\ muts[k].dim # NoDimension
                           /\ muts[k].before = ValueAfter(c, w, muts[k].dim, k - 1)
            After(k) == [d \in DOMAIN w.dims |-> ValueAfter(c, w, d, k)]
            Right(k) == /\ DOMAIN f[k] = {"refusal", "dims"}
                        /\ f[k].refusal = Admitted <=> \A i \in 1..k : Observed(i)
                        /\ f[k].refusal = Admitted => f[k].dims = After(k)
            S == {k \in Nat : k <= n => Right(k)}
<1>1. /\ n \in Nat /\ w.dims = [d \in DOMAIN w.dims |-> w.dims[d]]
      /\ \A k \in 1..n : muts[k].dim \in DOMAIN w.dims \cup {NoDimension}
  BY SearchAssumption
<1>2. ApplyMutations(muts, w.dims) = f[n]
  BY DEF ApplyMutations
<1>3. f = [k \in 0..n |-> IF k = 0 THEN base ELSE ApplyMutation(f[k - 1], muts[k])]
  <2>. HIDE DEF base
  <2>1. \E g : Applies(g, muts, base, n)
    BY <1>1, AppliesSome
  <2>2. \E g : g = [k \in 0..n |-> IF k = 0 THEN base ELSE ApplyMutation(g[k - 1], muts[k])]
    BY <2>1 DEF Applies
  <2>3. QED
    BY <2>2, Zenon
<1>. HIDE DEF f
<1>4. 0 \in S
  <2>1. f[0] = base
    BY <1>1, <1>3
  <2>2. w.dims = After(0)
    <3>1. ASSUME NEW d PROVE ValueAfter(c, w, d, 0) = w.dims[d]
      BY ValueGrows
    <3>2. QED
      BY <1>1, <3>1
  <2>3. f[0].refusal = Admitted /\ f[0].dims = w.dims /\ DOMAIN f[0] = {"refusal", "dims"}
    BY <2>1
  <2>4. \A i \in 1..0 : Observed(i)
    OBVIOUS
  <2>. HIDE DEF Observed, After
  <2>5. QED
    BY <2>2, <2>3, <2>4
<1>5. ASSUME NEW k \in Nat, k \in S PROVE k + 1 \in S
  <2>. SUFFICES ASSUME k + 1 <= n PROVE Right(k + 1)
    OBVIOUS
  <2>. DEFINE m == muts[k + 1]
  <2>1. Right(k) /\ k + 1 \in 1..n
    BY <1>1, <1>5
  <2>2. f[k + 1] = ApplyMutation(f[k], m)
    <3>1. k + 1 \in 0..n /\ (k + 1) - 1 = k /\ k + 1 # 0
      BY <1>1
    <3>2. QED
      BY <1>3, <3>1
  <2>3. m.dim # NoDimension => m.dim \in DOMAIN w.dims
    BY <1>1, <2>1
  <2>4. (\A i \in 1..k + 1 : Observed(i)) <=> (\A i \in 1..k : Observed(i)) /\ Observed(k + 1)
    <3>1. \A i : i \in 1..k + 1 <=> i \in 1..k \/ i = k + 1
      OBVIOUS
    <3>. HIDE DEF Observed
    <3>2. QED
      BY <3>1
  <2>5. Observed(k + 1) <=> m.dim # NoDimension /\ m.before = ValueAfter(c, w, m.dim, k)
    OBVIOUS
  <2>6. CASE f[k].refusal = Admitted /\ m.dim # NoDimension /\ f[k].dims[m.dim] = m.before
    <3>1. f[k + 1] = [f[k] EXCEPT !.dims[m.dim] = m.after]
      BY <2>2, <2>6 DEF ApplyMutation
    <3>2. /\ DOMAIN f[k + 1] = {"refusal", "dims"} /\ f[k + 1].refusal = Admitted
          /\ f[k + 1].dims = [After(k) EXCEPT ![m.dim] = m.after]
      BY <2>1, <2>6, <3>1
    <3>3. [After(k) EXCEPT ![m.dim] = m.after] = After(k + 1)
      <4>1. \A d : ValueAfter(c, w, d, k + 1) = IF m.dim = d THEN m.after ELSE ValueAfter(c, w, d, k)
        <5>1. k + 1 \in Nat /\ k + 1 # 0 /\ (k + 1) - 1 = k
          OBVIOUS
        <5>. DEFINE j == k + 1
        <5>. HIDE DEF j
        <5>2. ASSUME NEW d
              PROVE  /\ c.mutations[j].dim = d => ValueAfter(c, w, d, j) = c.mutations[j].after
                     /\ c.mutations[j].dim # d => ValueAfter(c, w, d, j) = ValueAfter(c, w, d, j - 1)
          <6>1. j \in Nat /\ j # 0
            BY <5>1 DEF j
          <6>2. QED
            BY <6>1, ValueGrows
        <5>3. QED
          BY <5>1, <5>2 DEF j
      <4>2. QED
        BY <2>3, <2>6, <4>1
    <3>4. After(k)[m.dim] = ValueAfter(c, w, m.dim, k)
      BY <2>3, <2>6
    <3>5. QED
      BY <2>1, <2>4, <2>5, <2>6, <3>2, <3>3, <3>4
  <2>7. CASE ~(f[k].refusal = Admitted /\ m.dim # NoDimension /\ f[k].dims[m.dim] = m.before)
    <3>1. DOMAIN f[k + 1] = {"refusal", "dims"} /\ f[k + 1].refusal # Admitted
      <4>1. CASE f[k].refusal # Admitted
        BY <2>1, <2>2, <4>1 DEF ApplyMutation
      <4>2. CASE f[k].refusal = Admitted /\ m.dim = NoDimension
        <5>1. f[k + 1] = [f[k] EXCEPT !.refusal = "ConstraintClosure"]
          BY <2>2, <4>2 DEF ApplyMutation
        <5>2. QED
          BY <2>1, <5>1 DEF Admitted
      <4>3. CASE f[k].refusal = Admitted /\ m.dim # NoDimension /\ f[k].dims[m.dim] # m.before
        <5>1. f[k + 1] = [f[k] EXCEPT !.refusal = "StaleObservation"]
          BY <2>2, <4>3 DEF ApplyMutation
        <5>2. QED
          BY <2>1, <5>1 DEF Admitted
      <4>4. QED
        BY <2>7, <4>1, <4>2, <4>3
    <3>2. ~(\A i \in 1..k + 1 : Observed(i))
      <4>1. m.dim # NoDimension => After(k)[m.dim] = ValueAfter(c, w, m.dim, k)
        BY <2>3
      <4>2. QED
        BY <2>1, <2>4, <2>5, <2>7, <4>1
    <3>3. QED
      BY <3>1, <3>2
  <2>8. QED
    BY <2>6, <2>7
<1>6. Right(n)
  <2>1. Nat \subseteq S
    BY <1>4, <1>5, NaturalInduction
  <2>2. QED
    BY <1>1, <2>1
<1>7. QED
  BY <1>2, <1>6

\* The checks of the code are the law of the documentation.
LEMMA LawIs ==
  ASSUME NEW c \in Candidates, NEW w \in Worlds
  PROVE  Projects(c, w) <=> IsLawful(c, w)
<1>. DEFINE applied == ApplyMutations(c.mutations, w.dims)
            final == [d \in DOMAIN w.dims |-> ValueAfter(c, w, d, Len(c.mutations))]
            observed == \A k \in 1..Len(c.mutations) :
                          /\ c.mutations[k].dim # NoDimension
                          /\ c.mutations[k].before = ValueAfter(c, w, c.mutations[k].dim, k - 1)
<1>1. (applied.refusal = Admitted <=> observed) /\ (applied.refusal = Admitted => applied.dims = final)
  BY ProjectionIs
<1>2. DOMAIN c.mutations = 1..Len(c.mutations)
  BY SearchAssumption
<1>3. Projects(c, w) <=>
        /\ w.subject \in ValidSubjects /\ w.wellFormed
        /\ c.subject \in ValidSubjects /\ c.subject = w.subject
        /\ c.named /\ c.key # NoKey /\ c.reversible
        /\ Knows(w, c.requires) /\ applied.refusal = Admitted
        /\ ConstraintsHold(c.constraints, applied.dims)
  BY DEF Projects
<1>4. IsLawful(c, w) <=>
        /\ w.subject \in ValidSubjects /\ w.wellFormed /\ c.named /\ c.key # NoKey
        /\ c.subject = w.subject /\ c.reversible
        /\ \A d \in c.requires : d \notin w.unknown
        /\ observed /\ ConstraintsHold(c.constraints, final)
  BY <1>2 DEF IsLawful, ConstraintsHold
<1>5. Knows(w, c.requires) <=> \A d \in c.requires : d \notin w.unknown
  BY DEF Knows
<1>. HIDE DEF applied, final, observed
<1>6. QED
  BY <1>1, <1>3, <1>4, <1>5

-----------------------------------------------------------------------------
(* The frontier.                                                           *)

LawfulIn(w, cs) == {i \in DOMAIN cs : ProjectRefusal(cs[i], w) = Admitted}

Refusals(w, cs) == [i \in DOMAIN cs |-> [id |-> cs[i].id, reason |-> ProjectRefusal(cs[i], w)]]

\* A search: indices are finite in number, and everything offered has a score.
LEMMA Offered ==
  ASSUME NEW cs \in Seq(Candidates)
  PROVE  /\ Len(cs) \in Nat /\ DOMAIN cs = 1..Len(cs) /\ DOMAIN cs \subseteq Nat
         /\ IsFiniteSet(DOMAIN cs)
         /\ \A i \in DOMAIN cs : cs[i] \in Candidates /\ Scored(cs[i])
<1>1. Len(cs) \in Nat /\ DOMAIN cs = 1..Len(cs) /\ \A i \in 1..Len(cs) : cs[i] \in Candidates
  OBVIOUS
<1>2. IsFiniteSet(1..Len(cs))
  BY <1>1, FS_Interval
<1>3. \A c \in Candidates : Scored(c)
  BY SearchAssumption DEF Scored
<1>4. QED
  BY <1>1, <1>2, <1>3

LEMMA FrontierSorts ==
  ASSUME NEW w, NEW cs \in Seq(Candidates)
  PROVE  LET I == LawfulIn(w, cs)
             f == Frontier(w, cs)
         IN  /\ IsFiniteSet(I) /\ IsFiniteSet(DOMAIN cs \ I)
             /\ Orders(ByScore(cs), I) /\ Orders(ByScore(cs), DOMAIN cs)
             /\ Orders(ById(Refusals(w, cs)), DOMAIN cs \ I)
             /\ Sorts(f.lawful, cs, I, ByScore(cs))
             /\ Sorts(f.excluded, Refusals(w, cs), DOMAIN cs \ I, ById(Refusals(w, cs)))
<1>. DEFINE I == LawfulIn(w, cs)
            refused == Refusals(w, cs)
            J == (DOMAIN cs) \ I
<1>1. I \in SUBSET DOMAIN cs /\ J \in SUBSET DOMAIN cs /\ IsFiniteSet(DOMAIN cs)
  BY Offered DEF LawfulIn
<1>2. IsFiniteSet(I) /\ IsFiniteSet(J)
  BY <1>1, FS_Subset, Zenon
<1>3. Orders(ByScore(cs), DOMAIN cs) /\ Orders(ByScore(cs), I)
  BY <1>1, Offered, ScoresOrder, OrdersPart
<1>4. /\ DOMAIN refused = DOMAIN cs
      /\ \A i \in DOMAIN cs : refused[i].id = cs[i].id /\ refused[i].reason = ProjectRefusal(cs[i], w)
  BY DEF Refusals
<1>5. \A i \in DOMAIN cs : cs[i].id \in Nat
  BY Offered DEF Scored
<1>6. Orders(ById(refused), J)
  <2>1. Orders(ById(refused), DOMAIN refused)
    BY <1>4, <1>5, Offered, IdsOrder
  <2>2. QED
    BY <1>1, <1>4, <2>1, OrdersPart
<1>7. I = {i \in DOMAIN cs : refused[i].reason = Admitted}
  BY <1>4 DEF LawfulIn
<1>8. Frontier(w, cs) = [lawful   |-> StableSort(cs, I, Precedes),
                         excluded |-> StableSort(refused, J, PrecedesById)]
  BY <1>7 DEF Frontier, Refusals
<1>9. Sorts(StableSort(cs, I, Precedes), cs, I, ByScore(cs))
  BY <1>1, <1>2, <1>3, SortsByScore
<1>10. Sorts(StableSort(refused, J, PrecedesById), refused, J, ById(refused))
  BY <1>1, <1>2, <1>4, <1>6, SortsById
<1>11. QED
  BY <1>2, <1>3, <1>6, <1>8, <1>9, <1>10

\* A sort leaves the elements at the indices that it sorts, and no others.
LEMMA SortKeeps ==
  ASSUME NEW out, NEW s, NEW I, IsFiniteSet(I), NEW R, Orders(R, I), Sorts(out, s, I, R)
  PROVE  /\ DOMAIN out = 1..Cardinality(I) /\ Cardinality(I) \in Nat
         /\ Len(out) = Cardinality(I)
         /\ Range(out) = {s[i] : i \in I}
<1>1. /\ Cardinality(I) \in Nat
      /\ \A i \in I : RankIn(R, I, i) \in 1..Cardinality(I)
      /\ \A k \in 1..Cardinality(I) : \E i \in I : RankIn(R, I, i) = k
  BY RanksNumber
<1>2. out = [k \in 1..Cardinality(I) |-> out[k]] /\ \A i \in I : out[RankIn(R, I, i)] = s[i]
  BY DEF Sorts
<1>3. DOMAIN out = 1..Cardinality(I)
  BY <1>2
<1>4. \A k \in DOMAIN out : \E i \in I : out[k] = s[i]
  BY <1>1, <1>2, <1>3
<1>5. \A i \in I : \E k \in DOMAIN out : s[i] = out[k]
  BY <1>1, <1>2, <1>3
<1>6. Range(out) = {s[i] : i \in I}
  BY <1>4, <1>5 DEF Range
<1>7. Len(out) = Cardinality(I)
  BY <1>1, <1>2
<1>8. QED
  BY <1>1, <1>3, <1>6, <1>7

\* The places among I at which s has c.
PlacesOf(s, I, c) == {i \in I : s[i] = c}

\* And as often.
LEMMA SortCounts ==
  ASSUME NEW out, NEW s, NEW I, IsFiniteSet(I), NEW R, Orders(R, I), Sorts(out, s, I, R), NEW c
  PROVE  Cardinality(PlacesOf(out, DOMAIN out, c)) = Cardinality(PlacesOf(s, I, c))
<1>. DEFINE A == PlacesOf(s, I, c)
            B == PlacesOf(out, DOMAIN out, c)
            g == [i \in A |-> RankIn(R, I, i)]
<1>1. /\ DOMAIN out = 1..Cardinality(I)
      /\ \A i \in I : RankIn(R, I, i) \in DOMAIN out /\ out[RankIn(R, I, i)] = s[i]
      /\ \A i, j \in I : RankIn(R, I, i) = RankIn(R, I, j) => i = j
      /\ \A k \in DOMAIN out : \E i \in I : RankIn(R, I, i) = k
  <2>1. DOMAIN out = 1..Cardinality(I)
    BY SortKeeps
  <2>2. /\ \A i \in I : RankIn(R, I, i) \in 1..Cardinality(I)
        /\ \A i, j \in I : RankIn(R, I, i) = RankIn(R, I, j) => i = j
        /\ \A k \in 1..Cardinality(I) : \E i \in I : RankIn(R, I, i) = k
    BY RanksNumber
  <2>3. \A i \in I : out[RankIn(R, I, i)] = s[i]
    BY DEF Sorts
  <2>4. QED
    BY <2>1, <2>2, <2>3
<1>2. g \in [A -> B]
  BY <1>1 DEF PlacesOf
<1>3. g \in Injection(A, B)
  BY <1>1, <1>2 DEF Injection, IsInjective, PlacesOf
<1>4. \A k \in B : \E i \in A : g[i] = k
  BY <1>1 DEF PlacesOf
<1>5. ExistsBijection(A, B)
  BY <1>2, <1>3, <1>4 DEF ExistsBijection, Bijection, Surjection
<1>6. IsFiniteSet(A)
  <2>1. A \in SUBSET I
    BY DEF PlacesOf
  <2>2. QED
    BY <2>1, FS_Subset, Zenon
<1>7. QED
  BY <1>5, <1>6, FS_Bijection, Zenon

\* What is sorted by the same order comes out the same.
LEMMA SortsTravel ==
  ASSUME NEW I, NEW R, NEW s, NEW out, IsFiniteSet(I), Orders(R, I), Sorts(out, s, I, R),
         NEW J, NEW Q, NEW t, NEW other, IsFiniteSet(J), Orders(Q, J), Sorts(other, t, J, Q),
         NEW f \in Bijection(J, I), \A i \in J : t[i] = s[f[i]], Carries(f, J, Q, R)
  PROVE  other = out
<1>1. f \in [J -> I]
  BY DEF Bijection, Injection
<1>2. Cardinality(I) = Cardinality(J)
  <2>1. ExistsBijection(J, I)
    BY DEF ExistsBijection
  <2>2. QED
    BY <2>1, FS_Bijection, Zenon
<1>3. ASSUME NEW k \in 1..Cardinality(I) PROVE other[k] = out[k]
  <2>1. PICK i \in J : RankIn(Q, J, i) = k
    BY <1>2, RanksNumber
  <2>2. RankIn(R, I, f[i]) = k /\ f[i] \in I
    <3>1. RankIn(Q, J, i) = RankIn(R, I, f[i])
      BY RanksTravel
    <3>2. QED
      BY <1>1, <2>1, <3>1
  <2>3. other[k] = t[i] /\ out[k] = s[f[i]]
    BY <2>1, <2>2 DEF Sorts
  <2>4. QED
    BY <2>3
<1>4. /\ out = [k \in 1..Cardinality(I) |-> out[k]]
      /\ other = [k \in 1..Cardinality(I) |-> other[k]]
  BY <1>2 DEF Sorts
<1>5. QED
  BY <1>3, <1>4

\* A bijection carries over to the indices that are lawful, and to the others.
LEMMA BijectionPart ==
  ASSUME NEW D, NEW f \in Bijection(D, D), NEW J, NEW I, J \subseteq D, I \subseteq D,
         \A i \in D : i \in J <=> f[i] \in I
  PROVE  [i \in J |-> f[i]] \in Bijection(J, I)
<1>. DEFINE g == [i \in J |-> f[i]]
<1>1. /\ f \in [D -> D] /\ \A a, b \in D : f[a] = f[b] => a = b
      /\ \A t \in D : \E i \in D : f[i] = t
  BY DEF Bijection, Injection, Surjection, IsInjective
<1>2. g \in [J -> I]
  BY <1>1
<1>3. g \in Injection(J, I)
  BY <1>1, <1>2 DEF Injection, IsInjective
<1>4. \A t \in I : \E i \in J : g[i] = t
  BY <1>1
<1>5. QED
  BY <1>2, <1>3, <1>4 DEF Bijection, Surjection

\* J has x more than I.
OneMore(J, I, x) == x \notin I /\ J = I \cup {x}

\* Q and R agree on I.
Agree(Q, R, I) == \A i, j \in I : <<i, j>> \in Q <=> <<i, j>> \in R

\* One more element moves those that it comes before up by one.
LEMMA RanksMakeRoom ==
  ASSUME NEW I, IsFiniteSet(I), NEW R, NEW J, NEW x, OneMore(J, I, x), NEW Q, Agree(Q, R, I), NEW i \in I
  PROVE  /\ <<x, i>> \in Q => RankIn(Q, J, i) = RankIn(R, I, i) + 1
         /\ <<x, i>> \notin Q => RankIn(Q, J, i) = RankIn(R, I, i)
<1>1. IsFiniteSet(Below(R, I, i)) /\ Cardinality(Below(R, I, i)) \in Nat /\ x \notin Below(R, I, i)
  <2>1. x \notin Below(R, I, i)
    BY DEF Below, OneMore
  <2>2. QED
    BY <2>1, BelowFinite
<1>2. Cardinality(Below(R, I, i) \cup {x}) = Cardinality(Below(R, I, i)) + 1
  BY <1>1, FS_AddElement, Zenon
<1>3. <<x, i>> \in Q => Below(Q, J, i) = Below(R, I, i) \cup {x}
  BY DEF Below, Agree, OneMore
<1>4. <<x, i>> \notin Q => Below(Q, J, i) = Below(R, I, i)
  BY DEF Below, Agree, OneMore
<1>5. QED
  BY <1>1, <1>2, <1>3, <1>4 DEF RankIn

\* Without it, what is sorted is as before.
LEMMA SortsMakeRoom ==
  ASSUME NEW I, IsFiniteSet(I), NEW R, Orders(R, I), NEW s, NEW out, Sorts(out, s, I, R),
         NEW J, NEW x, OneMore(J, I, x),
         NEW Q, Orders(Q, J), NEW t, NEW new, Sorts(new, t, J, Q), Agree(Q, R, I), \A i \in I : t[i] = s[i]
  PROVE  \E r \in DOMAIN new : new[r] = t[x] /\ RemoveAt(new, r) = out
<1>. DEFINE n == Cardinality(I)
            r == RankIn(Q, J, x)
<1>1. /\ IsFiniteSet(J) /\ Cardinality(J) = n + 1 /\ n \in Nat
      /\ x \in J /\ I \subseteq J
  BY FS_AddElement, FS_CardinalityType, Zenon DEF OneMore
<1>2. r \in 1..n + 1 /\ r \in Nat
  <2>1. \A i \in J : RankIn(Q, J, i) \in 1..Cardinality(J)
    BY <1>1, RanksNumber
  <2>2. QED
    BY <1>1, <2>1
<1>3. ASSUME NEW i \in I
      PROVE  /\ RankIn(R, I, i) \in Nat /\ RankIn(Q, J, i) \in Nat
             /\ \/ RankIn(Q, J, i) = RankIn(R, I, i) + 1 /\ r < RankIn(Q, J, i)
                \/ RankIn(Q, J, i) = RankIn(R, I, i) /\ RankIn(Q, J, i) < r
  <2>1. RankIn(R, I, i) \in Nat /\ RankIn(Q, J, i) \in Nat
    BY <1>1, BelowFinite
  <2>2. <<x, i>> \in Q \/ <<i, x>> \in Q
    BY <1>1 DEF Orders, OneMore
  <2>3. CASE <<x, i>> \in Q
    <3>1. r < RankIn(Q, J, i)
      BY <1>1, <2>3, RanksGrow
    <3>2. RankIn(Q, J, i) = RankIn(R, I, i) + 1
      BY <2>3, RanksMakeRoom
    <3>3. QED
      BY <2>1, <3>1, <3>2
  <2>4. CASE <<x, i>> \notin Q
    <3>1. RankIn(Q, J, i) < r
      BY <1>1, <2>2, <2>4, RanksGrow
    <3>2. RankIn(Q, J, i) = RankIn(R, I, i)
      BY <2>4, RanksMakeRoom
    <3>3. QED
      BY <2>1, <3>1, <3>2
  <2>5. QED
    BY <2>3, <2>4
<1>4. new = [k \in 1..n + 1 |-> new[k]] /\ out = [k \in 1..n |-> out[k]]
  BY <1>1 DEF Sorts
<1>5. new[r] = t[x] /\ \A i \in I : new[RankIn(Q, J, i)] = s[i] /\ out[RankIn(R, I, i)] = s[i]
  BY <1>1 DEF Sorts
<1>6. ASSUME NEW k \in 1..n PROVE out[k] = IF k < r THEN new[k] ELSE new[k + 1]
  <2>1. PICK i \in I : RankIn(R, I, i) = k
    BY RanksNumber
  <2>2. out[k] = new[RankIn(Q, J, i)]
    BY <1>5, <2>1
  <2>3. \/ RankIn(Q, J, i) = k + 1 /\ r < RankIn(Q, J, i)
        \/ RankIn(Q, J, i) = k /\ RankIn(Q, J, i) < r
    BY <1>3, <2>1
  <2>. HIDE DEF r
  <2>4. k \in Nat
    BY <1>1
  <2>5. QED
    BY <1>2, <2>2, <2>3, <2>4
<1>. HIDE DEF n, r
<1>7. RemoveAt(new, r) = out
  <2>. DEFINE S == {new[k] : k \in 1..n + 1}
              before == SubSeq(new, 1, r - 1)
              after == SubSeq(new, r + 1, n + 1)
  <2>1. new \in [1..n + 1 -> S]
    BY <1>4
  <2>. HIDE DEF S
  <2>2. new \in Seq(S) /\ Len(new) = n + 1
    BY <1>1, <2>1
  <2>3. RemoveAt(new, r) = before \o after
    BY <2>2 DEF RemoveAt
  <2>4. /\ before \in Seq(S) /\ Len(before) = r - 1
        /\ \A k \in 1..r - 1 : before[k] = new[k]
    BY <1>1, <1>2, <2>2
  <2>5. /\ after \in Seq(S) /\ Len(after) = n + 1 - r
        /\ \A k \in 1..n + 1 - r : after[k] = new[r + k]
    <3>1. \A k \in r + 1..n + 1 : new[k] \in S
      BY <1>1, <1>2, <2>1
    <3>2. after \in Seq(S)
      BY <1>1, <1>2, <2>2, <3>1
    <3>3. Len(after) = n + 1 - r
      BY <1>1, <1>2, <2>2
    <3>4. ASSUME NEW k \in 1..n + 1 - r PROVE after[k] = new[r + k]
      BY <1>1, <1>2, <2>2
    <3>5. QED
      BY <3>2, <3>3, <3>4
  <2>. HIDE DEF before, after
  <2>6. /\ before \o after \in Seq(S) /\ Len(before \o after) = n
        /\ \A k \in 1..n : (before \o after)[k] = IF k < r THEN new[k] ELSE new[k + 1]
    <3>1. before \o after \in Seq(S) /\ Len(before \o after) = n
      <4>1. before \o after \in Seq(S) /\ Len(before \o after) = Len(before) + Len(after)
        BY <2>4, <2>5
      <4>2. QED
        BY <1>1, <1>2, <2>4, <2>5, <4>1
    <3>2. ASSUME NEW k \in 1..n, k < r PROVE (before \o after)[k] = new[k]
      BY <1>1, <1>2, <2>4, <2>5, <3>2
    <3>3. ASSUME NEW k \in 1..n, ~(k < r) PROVE (before \o after)[k] = new[k + 1]
      <4>1. k - (r - 1) \in 1..n + 1 - r /\ r + (k - (r - 1)) = k + 1 /\ k > r - 1
        BY <1>1, <1>2, <3>3
      <4>2. (before \o after)[k] = after[k - (r - 1)]
        BY <1>1, <1>2, <2>4, <2>5, <4>1
      <4>3. QED
        BY <2>5, <4>1, <4>2
    <3>4. QED
      BY <3>1, <3>2, <3>3
  <2>. DEFINE both == before \o after
  <2>. HIDE DEF both
  <2>7. both = [k \in 1..n |-> both[k]]
    <3>1. both \in Seq(S) /\ Len(both) = n
      BY <2>6 DEF both
    <3>2. QED
      BY <3>1
  <2>8. \A k \in 1..n : both[k] = out[k]
    BY <1>6, <2>6 DEF both
  <2>9. both = out
    BY <1>4, <2>7, <2>8
  <2>10. QED
    BY <2>3, <2>9 DEF both
<1>8. QED
  BY <1>2, <1>4, <1>5, <1>7

-----------------------------------------------------------------------------
(* Theorems.                                                               *)

\* The worlds are those that may be observed, what is offered are candidates.
THEOREM TypeCorrect == Spec => []TypeOK
<1>1. Init => TypeOK
  BY DEF Init, TypeOK
<1>2. TypeOK /\ [Next]_vars => TypeOK'
  BY DEF TypeOK, Next, Offer, Observe, vars
<1>3. QED
  BY <1>1, <1>2, PTL DEF Spec

\* Losing knowledge makes no option lawful: CriticalUnknown is the only check
\* that looks at what is unknown, and it only ever refuses.
THEOREM IgnoranceAdmitsNothing == Spec => []UnknownNeverAdmits
<1>1. TypeOK => UnknownNeverAdmits
  <2>. SUFFICES ASSUME TypeOK, NEW w \in Worlds, w = [world EXCEPT !.unknown = w.unknown],
                       world.unknown \subseteq w.unknown
                PROVE  Range(Frontier(w, offered).lawful) \subseteq Range(Lawful)
    BY DEF UnknownNeverAdmits
  <2>1. w.subject = world.subject /\ w.wellFormed = world.wellFormed /\ w.dims = world.dims
    BY SearchAssumption DEF TypeOK
  <2>2. ASSUME NEW c, Projects(c, w) PROVE Projects(c, world)
    BY <2>1, <2>2 DEF Projects, Knows
  <2>3. LawfulIn(w, offered) \subseteq LawfulIn(world, offered)
    BY <2>2, ProjectsWhen DEF LawfulIn
  <2>4. \A v : Range(Frontier(v, offered).lawful) = {offered[i] : i \in LawfulIn(v, offered)}
    <3>1. ASSUME NEW v
          PROVE  Range(Frontier(v, offered).lawful) = {offered[i] : i \in LawfulIn(v, offered)}
      <4>1. /\ IsFiniteSet(LawfulIn(v, offered)) /\ Orders(ByScore(offered), LawfulIn(v, offered))
            /\ Sorts(Frontier(v, offered).lawful, offered, LawfulIn(v, offered), ByScore(offered))
        BY FrontierSorts DEF TypeOK
      <4>2. QED
        BY <4>1, SortKeeps
    <3>2. QED
      BY <3>1
  <2>5. QED
    BY <2>3, <2>4 DEF Lawful
<1>2. QED
  BY <1>1, TypeCorrect, PTL

\* The frontier is the same in whatever order its candidates were offered: with
\* distinct identifiers the comparators never tie, so a rank is a matter of the
\* candidates and not of their places.
THEOREM ArrivalOrderIsIgnored == Spec => []FrontierIgnoresArrivalOrder
<1>1. TypeOK => FrontierIgnoresArrivalOrder
  <2>. DEFINE D == DOMAIN offered
  <2>. SUFFICES ASSUME TypeOK, DistinctIds, NEW f \in Bijection(D, D)
                PROVE  Frontier(world, Permuted(offered, f)) = Frontier(world, offered)
    BY DEF FrontierIgnoresArrivalOrder
  <2>. DEFINE moved == Permuted(offered, f)
              I == LawfulIn(world, offered)
              J == LawfulIn(world, moved)
              R == ById(Refusals(world, offered))
              Q == ById(Refusals(world, moved))
  <2>1. offered \in Seq(Candidates)
    BY DEF TypeOK
  <2>2. f \in [D -> D] /\ \A i, j \in D : f[i] = f[j] => i = j
    BY DEF Bijection, Injection, IsInjective
  <2>3. /\ D = 1..Len(offered) /\ Len(offered) \in Nat /\ D \subseteq Nat
        /\ \A i \in D : offered[i] \in Candidates /\ Scored(offered[i])
    BY <2>1, Offered
  <2>4. moved \in Seq(Candidates) /\ DOMAIN moved = D /\ \A i \in D : moved[i] = offered[f[i]]
    <3>1. moved = [i \in 1..Len(offered) |-> offered[f[i]]]
      BY <2>3 DEF Permuted
    <3>2. QED
      BY <2>2, <2>3, <3>1
  <2>5. I \subseteq D /\ J \subseteq D /\ \A i \in D : i \in J <=> f[i] \in I
    BY <2>2, <2>4 DEF LawfulIn
  <2>. DEFINE g == [i \in J |-> f[i]]
              h == [i \in D \ J |-> f[i]]
  <2>6. g \in Bijection(J, I)
    BY <2>5, BijectionPart
  <2>7. h \in Bijection(D \ J, D \ I)
    <3>1. \A i \in D : i \in D \ J <=> f[i] \in D \ I
      BY <2>2, <2>5
    <3>2. QED
      BY <3>1, BijectionPart
  <2>8. ASSUME NEW i \in D, NEW j \in D
        PROVE  /\ <<i, j>> \in ByScore(moved) <=> <<f[i], f[j]>> \in ByScore(offered)
               /\ <<i, j>> \in Q <=> <<f[i], f[j]>> \in R
    <3>. DEFINE a == offered[f[i]]
                b == offered[f[j]]
    <3>1. f[i] \in D /\ f[j] \in D /\ i \in Nat /\ j \in Nat /\ f[i] \in Nat /\ f[j] \in Nat
      BY <2>2, <2>3
    <3>2. Scored(a) /\ Scored(b) /\ a.id \in Nat /\ b.id \in Nat
      BY <2>3, <3>1 DEF Scored
    <3>3. i = j \/ a.id # b.id
      BY <2>2, <3>1 DEF DistinctIds
    <3>4. ByScore(moved) \subseteq D \X D /\ moved[i] = a /\ moved[j] = b
      BY <2>4 DEF ByScore
    <3>5. Ahead(moved, i, j) <=> Ahead(offered, f[i], f[j])
      <4>1. CASE i = j
        BY <3>1, <3>4, <4>1 DEF Ahead
      <4>2. CASE a.id # b.id
        <5>1. Precedes(a, b) \/ Precedes(b, a)
          BY <3>2, <4>2 DEF Precedes, Scored
        <5>2. ~(Precedes(a, b) /\ Precedes(b, a))
          BY <3>2, PrecedesIsWeak
        <5>3. QED
          BY <3>4, <5>1, <5>2 DEF Ahead
      <4>3. QED
        BY <3>3, <4>1, <4>2
    <3>6. <<i, j>> \in ByScore(moved) <=> <<f[i], f[j]>> \in ByScore(offered)
      BY <2>4, <3>1, <3>5, PairsAre
    <3>7. /\ DOMAIN Refusals(world, moved) = D /\ DOMAIN Refusals(world, offered) = D
          /\ Refusals(world, moved)[i].id = a.id /\ Refusals(world, moved)[j].id = b.id
          /\ Refusals(world, offered)[f[i]].id = a.id /\ Refusals(world, offered)[f[j]].id = b.id
      BY <2>4, <3>1 DEF Refusals
    <3>8. AheadById(Refusals(world, moved), i, j) <=> AheadById(Refusals(world, offered), f[i], f[j])
      BY <3>1, <3>2, <3>3, <3>7 DEF AheadById
    <3>9. <<i, j>> \in Q <=> <<f[i], f[j]>> \in R
      BY <3>1, <3>7, <3>8, PairsAre
    <3>10. QED
      BY <3>6, <3>9
  <2>9. /\ IsFiniteSet(I) /\ IsFiniteSet(D \ I) /\ Orders(ByScore(offered), I) /\ Orders(R, D \ I)
        /\ Sorts(Frontier(world, offered).lawful, offered, I, ByScore(offered))
        /\ Sorts(Frontier(world, offered).excluded, Refusals(world, offered), D \ I, R)
    BY <2>1, FrontierSorts
  <2>10. /\ IsFiniteSet(J) /\ IsFiniteSet(D \ J) /\ Orders(ByScore(moved), J) /\ Orders(Q, D \ J)
         /\ Sorts(Frontier(world, moved).lawful, moved, J, ByScore(moved))
         /\ Sorts(Frontier(world, moved).excluded, Refusals(world, moved), D \ J, Q)
    BY <2>4, FrontierSorts
  <2>11. Frontier(world, moved).lawful = Frontier(world, offered).lawful
    <3>1. \A i \in J : moved[i] = offered[g[i]]
      BY <2>4, <2>5
    <3>2. Carries(g, J, ByScore(moved), ByScore(offered))
      BY <2>5, <2>8 DEF Carries
    <3>. HIDE DEF I, J, g, moved
    <3>3. QED
      BY <2>6, <2>9, <2>10, <3>1, <3>2, SortsTravel
  <2>12. Frontier(world, moved).excluded = Frontier(world, offered).excluded
    <3>1. \A i \in D \ J : Refusals(world, moved)[i] = Refusals(world, offered)[h[i]]
      BY <2>2, <2>4 DEF Refusals
    <3>2. Carries(h, D \ J, Q, R)
      BY <2>8 DEF Carries
    <3>. HIDE DEF I, J, h, moved, Q, R
    <3>3. QED
      BY <2>7, <2>9, <2>10, <3>1, <3>2, SortsTravel
  <2>13. \A cs : Frontier(world, cs) = [lawful |-> Frontier(world, cs).lawful,
                                       excluded |-> Frontier(world, cs).excluded]
    BY DEF Frontier
  <2>14. QED
    BY <2>11, <2>12, <2>13
<1>2. QED
  BY <1>1, TypeCorrect, PTL

\* A failed edge does not collapse the graph: a candidate that is refused leaves
\* the lawful options as they are, and a lawful one is put among them.
THEOREM OptionsSurviveOffers == Spec => []OfferKeepsTheFrontier
<1>1. TypeOK => OfferKeepsTheFrontier
  <2>. SUFFICES ASSUME TypeOK, NEW c \in Candidates
                PROVE  LET new == Frontier(world, Append(offered, c)).lawful IN
                       \/ new = Lawful
                       \/ \E i \in DOMAIN new : new[i] = c /\ RemoveAt(new, i) = Lawful
    BY DEF OfferKeepsTheFrontier
  <2>. DEFINE more == Append(offered, c)
              new == Frontier(world, more).lawful
              n == Len(offered)
              I == LawfulIn(world, offered)
              J == LawfulIn(world, more)
  <2>1. offered \in Seq(Candidates) /\ more \in Seq(Candidates)
    BY DEF TypeOK
  <2>2. /\ DOMAIN offered = 1..n /\ DOMAIN more = 1..n + 1 /\ n \in Nat
        /\ more[n + 1] = c /\ \A i \in 1..n : more[i] = offered[i]
    BY <2>1
  <2>3. I \subseteq 1..n /\ n + 1 \notin I /\ \A i \in I : more[i] = offered[i]
    BY <2>2 DEF LawfulIn
  <2>4. ASSUME NEW i \in I, NEW j \in I
        PROVE  <<i, j>> \in ByScore(more) <=> <<i, j>> \in ByScore(offered)
    <3>1. i \in DOMAIN more /\ j \in DOMAIN more /\ i \in DOMAIN offered /\ j \in DOMAIN offered
      BY <2>2, <2>3
    <3>2. Ahead(more, i, j) <=> Ahead(offered, i, j)
      BY <2>3 DEF Ahead
    <3>3. QED
      BY <3>1, <3>2, PairsAre
  <2>5. /\ IsFiniteSet(I) /\ Orders(ByScore(offered), I) /\ Sorts(Lawful, offered, I, ByScore(offered))
        /\ IsFiniteSet(J) /\ Orders(ByScore(more), J) /\ Sorts(new, more, J, ByScore(more))
    BY <2>1, FrontierSorts DEF Lawful
  <2>6. CASE ProjectRefusal(c, world) = Admitted
    <3>1. J = I \cup {n + 1}
      BY <2>2, <2>6 DEF LawfulIn
    <3>. HIDE DEF I, J, new, more, n
    <3>2. Agree(ByScore(more), ByScore(offered), I)
      BY <2>4 DEF Agree
    <3>3. \E r \in DOMAIN new : new[r] = more[n + 1] /\ RemoveAt(new, r) = Lawful
      <4>1. OneMore(J, I, n + 1)
        BY <2>3, <3>1 DEF OneMore
      <4>2. \A i \in I : more[i] = offered[i]
        BY <2>3
      <4>. DEFINE x == n + 1
                  R == ByScore(offered)
                  Q == ByScore(more)
      <4>3. /\ IsFiniteSet(I) /\ Orders(R, I) /\ Sorts(Lawful, offered, I, R)
            /\ OneMore(J, I, x) /\ Orders(Q, J) /\ Sorts(new, more, J, Q) /\ Agree(Q, R, I)
        BY <2>5, <3>2, <4>1
      <4>. HIDE DEF x, R, Q
      <4>4. \E r \in DOMAIN new : new[r] = more[x] /\ RemoveAt(new, r) = Lawful
        BY <4>2, <4>3, SortsMakeRoom
      <4>5. QED
        BY <4>4 DEF x
    <3>4. QED
      BY <2>2, <3>3 DEF new, more
  <2>7. CASE ProjectRefusal(c, world) # Admitted
    <3>. DEFINE f == [i \in I |-> i]
    <3>1. J = I
      BY <2>2, <2>7 DEF LawfulIn
    <3>. HIDE DEF I, J, new, more
    <3>2. f \in Bijection(J, I)
      BY <3>1 DEF Bijection, Injection, Surjection, IsInjective
    <3>3. Carries(f, J, ByScore(more), ByScore(offered)) /\ \A i \in J : more[i] = offered[f[i]]
      BY <2>3, <2>4, <3>1 DEF Carries
    <3>. HIDE DEF f
    <3>4. new = Lawful
      BY <2>5, <3>2, <3>3, SortsTravel
    <3>5. QED
      BY <3>4 DEF new, more
  <2>8. QED
    BY <2>6, <2>7
<1>2. QED
  BY <1>1, TypeCorrect, PTL

\* The frontier is maximal and sound: every candidate is among the lawful options
\* as often as it was offered when the documented law admits it, and not at all
\* when it does not, and every other one is accounted for.
THEOREM FrontierHoldsTheLawful == Spec => []FrontierIsMaximal
<1>1. TypeOK => FrontierIsMaximal
  <2>. SUFFICES ASSUME TypeOK PROVE FrontierIsMaximal
    OBVIOUS
  <2>. DEFINE frontier == Frontier(world, offered)
              I == LawfulIn(world, offered)
              D == DOMAIN offered
  <2>1. /\ D = 1..Len(offered) /\ Len(offered) \in Nat /\ IsFiniteSet(D) /\ I \subseteq D
        /\ \A i \in D : offered[i] \in Candidates
    BY Offered DEF TypeOK, LawfulIn
  <2>2. /\ IsFiniteSet(I) /\ IsFiniteSet(D \ I) /\ Orders(ByScore(offered), I)
        /\ Orders(ById(Refusals(world, offered)), D \ I)
        /\ Sorts(frontier.lawful, offered, I, ByScore(offered))
        /\ Sorts(frontier.excluded, Refusals(world, offered), D \ I, ById(Refusals(world, offered)))
    BY FrontierSorts DEF TypeOK
  <2>3. Len(frontier.lawful) + Len(frontier.excluded) = Len(offered)
    <3>1. /\ Len(frontier.lawful) = Cardinality(I) /\ Cardinality(I) \in Nat
          /\ Len(frontier.excluded) = Cardinality(D \ I) /\ Cardinality(D \ I) \in Nat
      BY <2>2, SortKeeps
    <3>2. Cardinality(D \ I) = Cardinality(D) - Cardinality(D \cap I)
      BY <2>1, FS_Difference, Zenon
    <3>3. D \cap I = I
      BY <2>1
    <3>4. Cardinality(D) = Len(offered)
      <4>1. Cardinality(1..Len(offered)) = IF 1 > Len(offered) THEN 0 ELSE Len(offered) - 1 + 1
        BY <2>1, FS_Interval
      <4>2. QED
        BY <2>1, <4>1
    <3>. HIDE DEF D, I, frontier
    <3>5. Cardinality(D \ I) = Len(offered) - Cardinality(I)
      BY <3>2, <3>3, <3>4
    <3>6. QED
      BY <2>1, <3>1, <3>5
  <2>4. ASSUME NEW c \in Range(offered)
        PROVE  Cardinality({k \in DOMAIN frontier.lawful : frontier.lawful[k] = c}) =
                 IF IsLawful(c, world) THEN Cardinality({i \in D : offered[i] = c}) ELSE 0
    <3>1. c \in Candidates /\ world \in Worlds
      BY <2>1 DEF Range, TypeOK
    <3>2. ProjectRefusal(c, world) = Admitted <=> IsLawful(c, world)
      BY <3>1, ProjectsWhen, LawIs
    <3>3. Cardinality({k \in DOMAIN frontier.lawful : frontier.lawful[k] = c})
            = Cardinality({i \in I : offered[i] = c})
      <4>1. Cardinality(PlacesOf(frontier.lawful, DOMAIN frontier.lawful, c)) = Cardinality(PlacesOf(offered, I, c))
        <5>. HIDE DEF I, frontier
        <5>1. QED
          BY <2>2, SortCounts
      <4>2. QED
        BY <4>1 DEF PlacesOf
    <3>4. CASE IsLawful(c, world)
      <4>1. {i \in I : offered[i] = c} = {i \in D : offered[i] = c}
        BY <3>2, <3>4 DEF LawfulIn
      <4>2. QED
        BY <3>3, <3>4, <4>1
    <3>5. CASE ~IsLawful(c, world)
      <4>1. {i \in I : offered[i] = c} = {}
        BY <3>2, <3>5 DEF LawfulIn
      <4>2. Cardinality({i \in I : offered[i] = c}) = 0
        BY <4>1, FS_EmptySet
      <4>3. QED
        BY <3>3, <3>5, <4>2
    <3>6. QED
      BY <3>4, <3>5
  <2>5. QED
    BY <2>3, <2>4 DEF FrontierIsMaximal
<1>2. QED
  BY <1>1, TypeCorrect, PTL
=============================================================================
