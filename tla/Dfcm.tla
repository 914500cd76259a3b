-------------------------------- MODULE Dfcm --------------------------------
(***************************************************************************)
(* The pure half of crates/hditc: observed worlds, constraints, mutations, *)
(* candidates, authority grants, the counterfactual projection, the DfCM   *)
(* frontier and the admission checks of PreparedDo::prepare.               *)
(*                                                                         *)
(* A BLAKE3 digest is modelled by the value it digests: two digests are    *)
(* equal exactly when the digested contents are.                           *)
(***************************************************************************)
EXTENDS Integers, Sequences, SequencesExt

CONSTANTS
  ValidSubjects,   \* the subjects that ExactSubject::validate accepts
  NoValue,         \* a dimension that is absent (no such key in Dimensions)
  NoDimension,     \* the blank dimension name
  NoKey            \* the blank idempotency key

-----------------------------------------------------------------------------
(* Worlds and constraints.                                                 *)

\* World::validate; `wellFormed` says that no dimension name is blank and that
\* every evidence digest is one.
Validates(w) == w.subject \in ValidSubjects /\ w.wellFormed

\* Mutant: the negation of World::knows is lost.
KnowsUnknowns(w, dims) == dims \subseteq w.unknown

Knows(w, dims) == w.unknown \cap dims = {}

Holds(c, dims) ==
  LET actual == dims[c.dim] IN
  CASE c.kind = "Present"   -> actual # NoValue
    [] c.kind = "Absent"    -> actual = NoValue
    [] c.kind = "Equals"    -> actual = c.value
    [] c.kind = "NotEquals" -> actual # NoValue /\ actual # c.value

\* normalize_constraints sorts and removes duplicates: a set of constraints.
ConstraintsHold(cs, dims) == \A c \in cs : Holds(c, dims)

ConstraintDimensions(cs) == {c.dim : c \in cs}

-----------------------------------------------------------------------------
(* Refusals: a function of the code returns the first check that fails.    *)

Admitted == "Admitted"

\* `checks` lists <<passes, refusal code>> in the order the code tests them.
FirstRefusal(checks) ==
  LET i == SelectInSeq(checks, LAMBDA check : ~check[1])
  IN  IF i = 0 THEN Admitted ELSE checks[i][2]

-----------------------------------------------------------------------------
(* Projection: the candidate applied to a copy of the world's dimensions.  *)

\* Mutant: `before` is not compared.
ApplyMutationBlindly(acc, m) ==
  CASE acc.refusal # Admitted -> acc
    [] m.dim = NoDimension    -> [acc EXCEPT !.refusal = "ConstraintClosure"]
    [] OTHER                  -> [acc EXCEPT !.dims[m.dim] = m.after]

\* Mutation::apply on [refusal, dims]: after the first refusal nothing applies.
ApplyMutation(acc, m) ==
  IF acc.refusal # Admitted THEN acc
  ELSE IF m.dim = NoDimension THEN [acc EXCEPT !.refusal = "ConstraintClosure"]
  ELSE IF acc.dims[m.dim] # m.before THEN [acc EXCEPT !.refusal = "StaleObservation"]
  ELSE [acc EXCEPT !.dims[m.dim] = m.after]

ApplyMutations(muts, dims) ==
  LET applied[n \in 0..Len(muts)] ==
        IF n = 0 THEN [refusal |-> Admitted, dims |-> dims]
        ELSE ApplyMutation(applied[n - 1], muts[n])
  IN  applied[Len(muts)]

ProjectedDimensions(c, w) == ApplyMutations(c.mutations, w.dims).dims

ProjectRefusal(c, w) ==
  LET applied == ApplyMutations(c.mutations, w.dims) IN
  FirstRefusal(<<
    <<w.subject \in ValidSubjects,                    "InvalidSubject">>,
    <<w.wellFormed,                                   "ConstraintClosure">>,
    <<c.subject \in ValidSubjects,                    "InvalidSubject">>,
    <<c.subject = w.subject,                          "SubjectMismatch">>,
    <<c.named,                                        "ConstraintClosure">>,
    <<c.key # NoKey,                                  "MissingIdempotency">>,
    <<c.reversible,                                   "IrreversibleCandidate">>,
    <<Knows(w, c.requires),                           "CriticalUnknown">>,
    <<applied.refusal = Admitted,                     applied.refusal>>,
    <<ConstraintsHold(c.constraints, applied.dims),   "ConstraintClosure">> >>)

-----------------------------------------------------------------------------
(* The DfCM frontier of a sequence of candidates.                          *)

\* Mutant: the comparator stops at the cost.
PrecedesByScore(l, r) ==
  \/ l.preservation > r.preservation
  \/ /\ l.preservation = r.preservation
     /\ l.gain > r.gain \/ (l.gain = r.gain /\ l.cost < r.cost)

\* The comparator of lawful.sort_by; a candidate's id is a number, its rank
\* in the order of the id strings.
Precedes(l, r) ==
  \/ l.preservation > r.preservation
  \/ /\ l.preservation = r.preservation
     /\ \/ l.gain > r.gain
        \/ /\ l.gain = r.gain
           /\ \/ l.cost < r.cost
              \/ l.cost = r.cost /\ l.id < r.id

\* The comparator of excluded.sort_by.
PrecedesById(l, r) == l.id < r.id

\* A stable sort of the elements of s at the indices in I: the k-th is the one
\* that k - 1 others come before.
StableSort(s, I, Before(_, _)) ==
  LET First(i, j) == Before(s[i], s[j]) \/ (~Before(s[j], s[i]) /\ i < j)
      Rank(i) == Cardinality({j \in I : First(j, i)}) + 1
  IN  [k \in 1..Cardinality(I) |-> s[CHOOSE i \in I : Rank(i) = k]]

\* Mutant: a refused candidate fails the whole search.
FrontierFailsFast(w, cs) ==
  LET refused == [i \in DOMAIN cs |-> [id |-> cs[i].id, reason |-> ProjectRefusal(cs[i], w)]]
      lawful  == {i \in DOMAIN cs : \A j \in DOMAIN cs : refused[j].reason = Admitted}
  IN  [lawful   |-> StableSort(cs, lawful, Precedes),
       excluded |-> StableSort(refused, DOMAIN cs \ lawful, PrecedesById)]

Frontier(w, cs) ==
  LET refused == [i \in DOMAIN cs |-> [id |-> cs[i].id, reason |-> ProjectRefusal(cs[i], w)]]
      lawful  == {i \in DOMAIN cs : refused[i].reason = Admitted}
  IN  [lawful   |-> StableSort(cs, lawful, Precedes),
       excluded |-> StableSort(refused, DOMAIN cs \ lawful, PrecedesById)]

-----------------------------------------------------------------------------
(* Authority grants and admission.                                         *)

\* AuthorityGrant::verify_for; `sealed` says that the grant's digest matches
\* its contents. Authority::permits is equality.
GrantVerifies(g, c) ==
  /\ g.subject = c.subject
  /\ g.authority = c.authority
  /\ g.sealed

\* PreparedDo::prepare returns a carrier: the candidate projects, the grant
\* covers it, and the projected world closes over postconditions and bound.
Admits(w, c, g, post) ==
  LET projected == ProjectedDimensions(c, w) IN
  /\ ProjectRefusal(c, w) = Admitted
  /\ GrantVerifies(g, c)
  /\ post # {}
  /\ Knows(w, ConstraintDimensions(post) \cup ConstraintDimensions(g.bound))
  /\ ConstraintsHold(post, projected)
  /\ ConstraintsHold(g.bound, projected)

\* A receipt reservation: its id and what its digests bind (the idempotency key
\* is part of the candidate).
Reservation(w, c, g, post, id) ==
  [id |-> id, cand |-> c, grant |-> g, before |-> w, post |-> post]

\* The PreparedDo carrier that an admitted preparation returns.
Carrier(w, c, g, post, id) ==
  [cand |-> c, grant |-> g, post |-> post,
   projected |-> ProjectedDimensions(c, w),
   res |-> Reservation(w, c, g, post, id)]

\* Mutant: the reservation's digests are not compared with the carrier.
VerifiesGrantOnly(p) ==
  /\ p.cand.subject \in ValidSubjects /\ p.cand.key # NoKey
  /\ GrantVerifies(p.grant, p.cand)

\* PreparedDo::verify looks at the carrier only, never at the world: the
\* reservation's before_digest and id are compared with nothing.
Verifies(p) ==
  /\ p.cand.subject \in ValidSubjects /\ p.cand.key # NoKey
  /\ GrantVerifies(p.grant, p.cand)
  /\ p.res.cand = p.cand /\ p.res.grant = p.grant /\ p.res.post = p.post
  /\ ConstraintsHold(p.post, p.projected)
  /\ ConstraintsHold(p.grant.bound, p.projected)
=============================================================================
