---------------------------- MODULE MCDfcmSearch ----------------------------
(***************************************************************************)
(* A small instance of DfcmSearch: two dimensions, five worlds and twelve  *)
(* candidates, among them ties at every level of the preference order and  *)
(* one candidate for each way to be refused.                               *)
(***************************************************************************)
EXTENDS DfcmSearch

CONSTANTS service, other, nosubject

MCSubjects == {service, other}

World(s, formed, state, radius, unknown) ==
  [subject |-> s, wellFormed |-> formed, unknown |-> unknown,
   dims |-> [d \in {"state", "radius"} |-> IF d = "state" THEN state ELSE radius]]

MCWorlds ==
  {World(service, TRUE, "pending", "bounded", {}),
   World(service, TRUE, "pending", "bounded", {"state"}),
   World(service, TRUE, "ready", NoValue, {}),
   World(service, FALSE, "pending", "bounded", {}),
   World(nosubject, TRUE, "pending", "bounded", {})}

Mutation(d, before, after) == [dim |-> d, before |-> before, after |-> after]

Start == Mutation("state", "pending", "starting")
Ready == Mutation("state", "starting", "ready")
Widen == Mutation("radius", NoValue, "wide")
Blank == Mutation(NoDimension, NoValue, "ready")

Base ==
  [id |-> 1, subject |-> service, named |-> TRUE, key |-> "key", authority |-> "Modify",
   reversible |-> TRUE, preservation |-> 1, gain |-> 1, cost |-> 1, requires |-> {},
   mutations |-> <<Start, Ready>>,
   constraints |-> {[kind |-> "NotEquals", dim |-> "state", value |-> "starting"]}]

MCCandidates ==
  {Base,
   [Base EXCEPT !.id = 2, !.requires = {"state"}],
   [Base EXCEPT !.id = 3, !.cost = 2, !.mutations = <<>>],
   [Base EXCEPT !.id = 4, !.cost = 2, !.gain = 2, !.mutations = <<Ready>>],
   [Base EXCEPT !.id = 4, !.preservation = 2, !.mutations = <<Start>>],
   [Base EXCEPT !.id = 5, !.preservation = 2, !.cost = 3, !.mutations = <<Widen>>,
                !.constraints = {[kind |-> "Present", dim |-> "radius", value |-> NoValue]}],
   [Base EXCEPT !.id = 6, !.reversible = FALSE, !.preservation = 9],
   [Base EXCEPT !.id = 7, !.subject = other, !.preservation = 9],
   [Base EXCEPT !.id = 8, !.key = NoKey],
   [Base EXCEPT !.id = 9, !.gain = 2, !.named = FALSE],
   [Base EXCEPT !.id = 10, !.gain = 2,
                !.constraints = {[kind |-> "Absent", dim |-> "radius", value |-> NoValue]}],
   [Base EXCEPT !.id = 11, !.preservation = 2, !.mutations = <<Start, Blank, Ready>>]}
=============================================================================
