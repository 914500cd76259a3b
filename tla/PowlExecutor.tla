---------------------------- MODULE PowlExecutor ----------------------------
(***************************************************************************)
(* The structural executor of a workflow tree (powl/executor): which       *)
(* leaves a marking enables, what firing one does to the marking, when the *)
(* tree is complete, why a run is stuck, and the replay of a recorded run; *)
(* with the checks built on it or beside it (powl/conformance,             *)
(* powl/membership).  All of it is functions: no state of its own.         *)
(***************************************************************************)
EXTENDS Powl

CONSTANTS
  MaxActivityFires,   \* ExecutionBound.max_activity_fires
  MaxNodeVisits,      \* ExecutionBound.max_node_visits
  MaxMarkingStates    \* ExecutionBound.max_marking_states

ASSUME ExecutionBoundAssumption ==
  MaxActivityFires \in Nat /\ MaxNodeVisits \in Nat /\ MaxMarkingStates \in Nat

\* The cap of a traversal that ignores how often nodes were visited.
NoCap == Unbounded

-----------------------------------------------------------------------------
(* Markings.  A cursor of 0 is a choice graph not yet entered; child 0 of  *)
(* the visits of a composite counts its repetition rounds.                 *)

Marking(m, keys, cursor, visits, fires, paths) ==
  [completed |-> keys, cursor |-> cursor, visits |-> visits, fires |-> fires,
   paths |-> paths, rounds |-> [p \in Composites(m) |-> 0]]

NoVisits(m) == [p \in Composites(m) |-> [i \in 0..m[p].n |-> 0]]

InitialMarking(m) == Marking(m, {}, [p \in Composites(m) |-> 0], NoVisits(m), 0, {})

Under(root, p) == IsPrefix(root, p)

\* All structural progress under root forgotten, but for the rounds in kept.
PurgedBut(mk, root, kept) ==
  [mk EXCEPT !.paths  = {p \in @ : ~Under(root, p)},
             !.cursor = [p \in DOMAIN @ |-> IF Under(root, p) THEN 0 ELSE @[p]],
             !.rounds = [p \in DOMAIN @ |-> IF Under(root, p) /\ p \notin kept THEN 0 ELSE @[p]]]

Purged(mk, root) == PurgedBut(mk, root, {})

\* Mutant: leaves that completed are not counted as progress.
InProgressByCursor(mk, p) ==
  \/ \E q \in DOMAIN mk.cursor : Under(p, q) /\ mk.cursor[q] # 0
  \/ \E q \in DOMAIN mk.rounds : Under(p, q) /\ q # p /\ mk.rounds[q] > 0

\* A repetition round of the composite at p is half-done.
InProgress(mk, p) ==
  \/ \E q \in mk.paths : Under(p, q) /\ q # p
  \/ \E q \in DOMAIN mk.cursor : Under(p, q) /\ mk.cursor[q] # 0
  \/ \E q \in DOMAIN mk.rounds : Under(p, q) /\ q # p /\ mk.rounds[q] > 0

\* One round of a composite has just finished, given what is complete below.
BodyDone(node, p, cur, complete) ==
  IF node.kind = "PartialOrder"
  THEN \A i \in 1..node.n : complete[Append(p, i)]
  ELSE cur = node.end /\ complete[Append(p, node.end)]

\* Mutant: rounds that were banked are not looked at.
CompleteByBody(m, mk) ==
  LET complete[p \in DOMAIN m] ==
        IF IsLeaf(m[p]) THEN p \in mk.paths
        ELSE Allows(m[p].freq, mk.rounds[p] + 1) /\ BodyDone(m[p], p, mk.cursor[p], complete)
  IN complete

\* The node at p is complete, given which nodes below it are.
NodeComplete(m, mk, p, complete) ==
  IF IsLeaf(m[p]) THEN p \in mk.paths
  ELSE LET done == mk.rounds[p] IN
       \/ Allows(m[p].freq, done) /\ ~InProgress(mk, p)
       \/ Allows(m[p].freq, done + 1) /\ BodyDone(m[p], p, mk.cursor[p], complete)

\* Which nodes are complete.
Complete(m, mk) ==
  LET complete[p \in DOMAIN m] == NodeComplete(m, mk, p, complete) IN complete

IsComplete(m, mk, p) == Complete(m, mk)[p]

IsFinal(m, mk) == IsComplete(m, mk, <<>>)

-----------------------------------------------------------------------------
(* Enabling *)

Capped(visits, cap) == cap # NoCap /\ visits >= cap

\* A composite offers nothing once every permitted repetition has run, nor a
\* further round once its round counter has reached the cap.
Exhausted(node, p, mk, cap) ==
  \/ node.freq.max # Unbounded /\ mk.rounds[p] >= node.freq.max
  \/ mk.rounds[p] > 0 /\ ~InProgress(mk, p) /\ Capped(mk.visits[p][0], cap)

\* The leaves that the node at p offers, given what the nodes below it offer.
\* A child that a choice graph would enter is looked at afresh: in a view of
\* the marking with all progress under it purged.
Offers(m, mk, cap, p, afresh, enabled) ==
  LET node == m[p]
      view == IF afresh THEN Purged(mk, p) ELSE mk
      complete == Complete(m, view)
      child(i) == Append(p, i)
      ready == {i \in 1..node.n : /\ ~complete[child(i)]
                                 /\ \A e \in node.closure : e[2] = i => complete[child(e[1])]}
      cur == view.cursor[p]
      next == IF cur = 0 THEN {node.start} ELSE {e[2] : e \in {f \in node.edges : f[1] = cur}}
  IN IF IsLeaf(node) THEN {p} \ view.paths
     ELSE IF Exhausted(node, p, view, cap) THEN {}
     ELSE IF node.kind = "PartialOrder" THEN UNION {enabled[<<child(i), afresh>>] : i \in ready}
     ELSE IF cur # 0 /\ ~complete[child(cur)] THEN enabled[<<child(cur), afresh>>]
     ELSE IF cur = node.end THEN {}
     ELSE UNION {enabled[<<child(i), TRUE>>] : i \in {j \in next : ~Capped(view.visits[p][j], cap)}}

\* The leaves that may advance.
EnabledUnder(m, mk, cap) ==
  LET enabled[at \in (DOMAIN m) \X BOOLEAN] == Offers(m, mk, cap, at[1], at[2], enabled)
  IN enabled[<< <<>>, FALSE >>]

Enabled(m, mk) == EnabledUnder(m, mk, MaxNodeVisits)

-----------------------------------------------------------------------------
(* Firing *)

\* The marking of a fire that was refused for the reason given.
Refused(reason) == [refused |-> reason]

IsRefused(result) == "refused" \in DOMAIN result

\* The occurrence that the next completion of an activity gets.
NextKey(mk, activity, context) ==
  [activity |-> activity, index |-> Cardinality({k \in mk.completed : k.activity = activity}),
   context |-> context]

\* Mutant: a child that is entered again is not counted again.
EnterChoicesOnce(m, mk, path) ==
  LET enter(prefix, i, before) ==
        LET moving == m[prefix].kind = "ChoiceGraph" /\ before.cursor[prefix] # i
            again == m[prefix].kind = "ChoiceGraph" /\ IsComplete(m, before, Append(prefix, i))
        IN IF moving THEN [Purged(before, Append(prefix, i)) EXCEPT !.cursor[prefix] = i, !.visits[prefix][i] = @ + 1]
           ELSE IF again THEN Purged(before, Append(prefix, i)) ELSE before
      entered[d \in 0..Len(path)] ==
        IF d = 0 THEN mk ELSE enter(SubSeq(path, 1, d-1), path[d], entered[d-1])
  IN entered[Len(path)]

\* Child i of the composite at p is entered, or entered again.
Enter(m, before, p, i) ==
  LET entering == /\ m[p].kind = "ChoiceGraph"
                  /\ before.cursor[p] # i \/ IsComplete(m, before, Append(p, i))
  IN IF ~entering THEN before
     ELSE [Purged(before, Append(p, i)) EXCEPT !.cursor[p] = i, !.visits[p][i] = @ + 1]

\* Entry into the choice graph at depth d of the path, from the top down.
EnterChoices(m, mk, path) ==
  LET entered[d \in 0..Len(path)] ==
        IF d = 0 THEN mk ELSE Enter(m, entered[d-1], SubSeq(path, 1, d-1), path[d])
  IN entered[Len(path)]

\* A round of the composite at p is banked if its body has just finished, and
\* its internal state is reset.
Bank(m, before, p) ==
  IF ~BodyDone(m[p], p, before.cursor[p], Complete(m, before)) THEN before
  ELSE [PurgedBut(before, p, {p}) EXCEPT !.rounds[p] = @ + 1, !.visits[p][0] = @ + 1]

\* Every ancestor banks, from the bottom up.
CloseRounds(m, path, mk) ==
  LET closed[d \in 0..Len(path)] ==
        IF d = Len(path) THEN mk ELSE Bank(m, closed[d+1], SubSeq(path, 1, d))
  IN closed[0]

Fire(m, mk, path, context) ==
  LET entered == EnterChoices(m, mk, path)
  IN IF path \notin Enabled(m, mk) THEN Refused("LANGUAGE_MISMATCH")
     ELSE IF mk.fires + 1 > MaxActivityFires THEN Refused("BOUND_EXHAUSTED")
     ELSE IF Cardinality(entered.paths) + 1 > MaxMarkingStates THEN Refused("BOUND_EXHAUSTED")
     ELSE CloseRounds(m, path,
            [entered EXCEPT !.completed = @ \cup {NextKey(mk, ActivityOf(m, path), context)},
                            !.paths = @ \cup {path}, !.fires = @ + 1])

-----------------------------------------------------------------------------
(* Stalls and records *)

\* Why a marking that is not final has nothing enabled.
ClassifyStall(m, mk) ==
  IF \/ mk.fires >= MaxActivityFires
     \/ Cardinality(mk.paths) >= MaxMarkingStates
     \/ EnabledUnder(m, mk, NoCap) # {}
  THEN "BOUND_EXHAUSTED" ELSE "DEADLOCK"

MustRun(m, p) == p \in Leaves(m) \/ ~Skippable(m[p].freq)

MayRun(m, p) == p \in Leaves(m) \/ m[p].freq.max # 0

\* The structure never leaves a traversal without a next step: every order has
\* a child that must run, every child of a choice graph may, and each but the
\* end has a successor (as validate_model asks: it has a way to the end).
Continuable(m) ==
  \A p \in Composites(m) : LET node == m[p] IN
    \/ node.kind = "PartialOrder" /\ \E i \in 1..node.n : MustRun(m, Append(p, i))
    \/ /\ node.kind = "ChoiceGraph" /\ \A i \in 1..node.n : MayRun(m, Append(p, i))
       /\ \A i \in (1..node.n) \ {node.end} : \E e \in node.edges : e[1] = i

\* One recorded step: the whole enabled set beside the pick.
ChoiceRecord(enabled, chosen, context) == [enabled |-> enabled, chosen |-> chosen, context |-> context]

\* Every marking derived again from the records, every pick checked again.
Replay(m, choices, initial) ==
  LET marking[k \in 0..Len(choices)] ==
        IF k = 0 THEN initial
        ELSE IF IsRefused(marking[k-1]) THEN marking[k-1]
        ELSE IF Enabled(m, marking[k-1]) # choices[k].enabled \/ choices[k].chosen \notin choices[k].enabled
             THEN Refused("REPLAY_DIVERGED")
        ELSE Fire(m, marking[k-1], choices[k].chosen, choices[k].context)
  IN marking[Len(choices)]

\* The observable labels of a recorded run.
TraceOf(m, choices) ==
  LET visible == SelectSeq(choices, LAMBDA c : m[c.chosen].kind = "Atom")
  IN [i \in DOMAIN visible |-> m[visible[i].chosen].label]

-----------------------------------------------------------------------------
(* Token replay of an observed run (powl/conformance): the events carry a  *)
(* label for an atom and the path of a silent leaf, no path for an atom.   *)

EventOf(m, path) == <<m[path].label, IF m[path].kind = "Atom" THEN <<>> ELSE path>>

EventsOf(m, choices) == [k \in DOMAIN choices |-> EventOf(m, choices[k].chosen)]

\* No two leaves are told by one event.
Unambiguous(m) == \A p, q \in Leaves(m) : EventOf(m, p) = EventOf(m, q) => p = q

\* Paths in the order in which Python sorts them.
PathBefore(p, q) ==
  \/ IsStrictPrefix(p, q)
  \/ \E k \in DOMAIN p \cap DOMAIN q : SubSeq(p, 1, k-1) = SubSeq(q, 1, k-1) /\ p[k] < q[k]

FirstPath(paths) == CHOOSE p \in paths : \A q \in paths \ {p} : PathBefore(p, q)

\* The marking after the events, or where they diverge from the tree.
TokenReplay(m, events) ==
  LET candidates(mk, e) == {p \in Enabled(m, mk) : EventOf(m, p) = e}
      marking[k \in 0..Len(events)] ==
        IF k = 0 THEN InitialMarking(m)
        ELSE IF IsRefused(marking[k-1]) THEN marking[k-1]
        ELSE IF candidates(marking[k-1], events[k]) = {} THEN Refused("DIVERGED")
        ELSE Fire(m, marking[k-1], FirstPath(candidates(marking[k-1], events[k])), "")
  IN marking[Len(events)]

Conforms(m, events) ==
  LET marking == TokenReplay(m, events)
  IN ~IsRefused(marking) /\ IsFinal(m, marking)
=============================================================================
