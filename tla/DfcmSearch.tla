----------------------------- MODULE DfcmSearch -----------------------------
(***************************************************************************)
(* dfcm_frontier of crates/hditc as a search is run: candidates are offered *)
(* one after another, the world is observed anew in between, and the       *)
(* frontier is the function Frontier(world, offered) of the two.           *)
(***************************************************************************)
EXTENDS Dfcm

CONSTANTS
  Candidates,   \* candidates that may be offered
  Worlds,       \* worlds that may be observed
  MaxOffered    \* bound on the candidates offered to one search

\* Scores are unsigned, identifiers are ordered, a world says of every dimension
\* that a mutation may name what it has there (NoValue when it is absent), unless
\* the name is blank.
ASSUME SearchAssumption ==
  /\ Worlds # {} /\ MaxOffered \in Nat
  /\ \A c \in Candidates :
       /\ {c.id, c.preservation, c.gain, c.cost} \subseteq Nat
       /\ c.mutations = [i \in 1..Len(c.mutations) |-> c.mutations[i]] /\ Len(c.mutations) \in Nat
  /\ \A w \in Worlds :
       /\ DOMAIN w = {"subject", "wellFormed", "unknown", "dims"}
       /\ w.dims = [d \in DOMAIN w.dims |-> w.dims[d]]
       /\ \A c \in Candidates : \A i \in 1..Len(c.mutations) :
            c.mutations[i].dim \in DOMAIN w.dims \cup {NoDimension}

VARIABLES world, offered

vars == <<world, offered>>

Init == world \in Worlds /\ offered = <<>>

\* Mutant: the projection is applied to the observed world, not to a copy.
OfferCommits(c) ==
  /\ Len(offered) < MaxOffered
  /\ offered' = Append(offered, c)
  /\ world' = [world EXCEPT !.dims = ProjectedDimensions(c, world)]

Offer(c) ==
  /\ Len(offered) < MaxOffered
  /\ offered' = Append(offered, c)
  /\ UNCHANGED world

Observe(w) ==
  /\ w # world
  /\ world' = w
  /\ UNCHANGED offered

Next == (\E c \in Candidates : Offer(c)) \/ (\E w \in Worlds : Observe(w))

Spec == Init /\ [][Next]_vars

-----------------------------------------------------------------------------
(* Properties.                                                             *)

Lawful == Frontier(world, offered).lawful

TypeOK == world \in Worlds /\ offered \in Seq(Candidates)

\* The value of dimension d once the first k mutations of c have been applied
\* to world w: what the last of them on d left, or what w has.
ValueAfter(c, w, d, k) ==
  LET on_d == {i \in 1..k : c.mutations[i].dim = d}
  IN  IF on_d = {} THEN w.dims[d] ELSE c.mutations[Max(on_d)].after

\* The DfCM law of docs/HDITC-DFCM-RUNTIME.md, item by item.
IsLawful(c, w) ==
  LET final == [d \in DOMAIN w.dims |-> ValueAfter(c, w, d, Len(c.mutations))] IN
  /\ w.subject \in ValidSubjects /\ w.wellFormed
  /\ c.named /\ c.key # NoKey
  /\ c.subject = w.subject
  /\ c.reversible
  /\ \A d \in c.requires : d \notin w.unknown
  /\ \A k \in DOMAIN c.mutations :
       /\ c.mutations[k].dim # NoDimension
       /\ c.mutations[k].before = ValueAfter(c, w, c.mutations[k].dim, k - 1)
  /\ \A constraint \in c.constraints : Holds(constraint, final)

\* The frontier is maximal and sound: it holds the lawful candidates and no
\* other, as often as they were offered, and every other one is accounted for.
FrontierIsMaximal ==
  LET frontier == Frontier(world, offered)
      Times(s, c) == Cardinality({i \in DOMAIN s : s[i] = c})
  IN  /\ \A c \in Range(offered) :
           Times(frontier.lawful, c) = IF IsLawful(c, world) THEN Times(offered, c) ELSE 0
      /\ Len(frontier.lawful) + Len(frontier.excluded) = Len(offered)

DistinctIds == \A i, j \in DOMAIN offered : offered[i].id = offered[j].id => i = j

Permuted(s, f) == [i \in DOMAIN s |-> s[f[i]]]

\* The frontier is deterministic: in whatever order the same candidates arrive,
\* the lawful options and the exclusions come out in the same order.
FrontierIgnoresArrivalOrder ==
  DistinctIds =>
    \A f \in Bijection(DOMAIN offered, DOMAIN offered) :
      Frontier(world, Permuted(offered, f)) = Frontier(world, offered)

\* A failed edge does not collapse the graph: one more candidate, lawful or
\* not, removes no lawful option and reorders none.
OfferKeepsTheFrontier ==
  LET old == Lawful IN
  \A c \in Candidates :
    LET new == Frontier(world, Append(offered, c)).lawful IN
    \/ new = old
    \/ \E i \in DOMAIN new : new[i] = c /\ RemoveAt(new, i) = old

\* Losing knowledge never makes an option lawful.
UnknownNeverAdmits ==
  \A w \in Worlds :
    (w = [world EXCEPT !.unknown = w.unknown] /\ world.unknown \subseteq w.unknown) =>
      Range(Frontier(w, offered).lawful) \subseteq Range(Lawful)
=============================================================================
