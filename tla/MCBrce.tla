------------------------------- MODULE MCBrce -------------------------------
(***************************************************************************)
(* A small instance of Brce: one service whose state is to become "ready"  *)
(* under a grant that bounds its blast radius, and a second subject.       *)
(***************************************************************************)
EXTENDS Brce

CONSTANTS caller1, caller2, service, other

MCCallers == {caller1, caller2}

MCSubjects == {service, other}

World(s, state, radius, unknown) ==
  [subject |-> s, wellFormed |-> TRUE, unknown |-> unknown,
   dims |-> [d \in {"state", "radius"} |-> IF d = "state" THEN state ELSE radius]]

Pending == World(service, "pending", "bounded", {})
Ready   == World(service, "ready", "bounded", {})
Wide    == World(service, "ready", "wide", {})
Unknown == World(service, "ready", "bounded", {"state"})
Other   == World(other, "ready", "bounded", {})

MCWorlds == {Pending, Ready, Wide, Unknown, Other}

Equals(d, v) == [kind |-> "Equals", dim |-> d, value |-> v]

Enable ==
  [id |-> 1, subject |-> service, named |-> TRUE, key |-> "key", authority |-> "Modify",
   reversible |-> TRUE, preservation |-> 1, gain |-> 1, cost |-> 1, requires |-> {"state"},
   mutations |-> <<[dim |-> "state", before |-> "pending", after |-> "ready"]>>,
   constraints |-> {}]

\* A candidate for the other subject: no grant of the instance covers it.
Elsewhere == [Enable EXCEPT !.subject = other, !.mutations = <<>>]

MCCandidates == {Enable, Elsewhere}

Grant(authority, sealed, bound) ==
  [subject |-> service, authority |-> authority, sealed |-> sealed, bound |-> bound]

Bounded  == Grant("Modify", TRUE, {Equals("radius", "bounded")})
Free     == Grant("Modify", TRUE, {})
Draft    == Grant("Draft", TRUE, {})
Unsealed == Grant("Modify", FALSE, {})

MCGrants == {Bounded, Free, Draft, Unsealed}

\* The projection reaches the first; a carrier altered to the second drifted.
AtReady   == {Equals("state", "ready")}
AtPending == {Equals("state", "pending")}

MCPosts == {AtReady, AtPending}

MCTokens == {"token"}

\* Two reservations under different grants: ids that collide, and that do not.
MCOneId        == {"id"}
MCCollidingIds == [s \in Seeds |-> "id"]
MCDistinctIds  == [s \in Seeds |-> s.grant]

\* One field of what is prepared altered: only a projection that still closes
\* leaves a carrier that verifies.
Held(g) == Carrier(Pending, Enable, g, AtReady, IdOf[Seed(Pending, Enable, g, AtReady)])

OneFieldAltered ==
  {[Held(Bounded) EXCEPT !.grant = Free],
   [Held(Bounded) EXCEPT !.post = AtPending],
   [Held(Bounded) EXCEPT !.cand = Elsewhere],
   [Held(Free) EXCEPT !.projected = Wide.dims]}

\* A reservation sealed over the fields of its carrier, under an id of choice.
Sealed(w, c, g, post, dims, id) ==
  [cand |-> c, grant |-> g, post |-> post, projected |-> dims,
   res |-> Reservation(w, c, g, post, id)]

\* Over a world that is past the mutation; under a grant that does not cover the
\* candidate.
SelfSealed(id) ==
  {Sealed(Wide, Enable, Bounded, AtReady, Ready.dims, id),
   Sealed(Pending, Enable, Draft, AtReady, Ready.dims, id)}

MCAltered == OneFieldAltered \cup SelfSealed("id")

\* The callers are interchangeable.
MCSymmetry == Permutations(MCCallers)

\* Smaller sets for the refinement and the liveness runs.
MCFewCandidates == {Enable}
MCFewPosts  == {AtReady}
MCFewWorlds == {Pending, Ready, Other}
MCFewGrants == {Bounded, Free}

\* A reservation over a world that never admitted it, under the id of another.
MCFewAltered == {Sealed(Ready, Enable, Free, AtReady, Ready.dims, Bounded)}
=============================================================================
