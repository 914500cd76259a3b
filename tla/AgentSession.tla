---------------------------- MODULE AgentSession ----------------------------
(***************************************************************************)
(* A planning session of autofde_lab (agent/session, bridge, epoch,        *)
(* ledger, replan, and the rollout loop that drives it).                   *)
(*                                                                         *)
(* A session holds a stack of epochs, each a workflow tree with a marking. *)
(* It advances the last one either a node at a time (step) or by a rollout *)
(* of the domain (advance), in which a policy samples an action, the       *)
(* domain performs it, and a callback commits it.  A two-phase ledger has  *)
(* an INTENDED record before every performance and a COMMITTED one after   *)
(* it.  A replan supersedes the last epoch and may seed the new one with   *)
(* work that the ledger shows as done.  The process may crash at any       *)
(* point; a new session may be given the ledger that was left behind.      *)
(***************************************************************************)
EXTENDS PowlExecutor, PowlMembership

CONSTANTS
  Models,       \* the trees that callers plan with: a function from their names
  MaxEpochs,    \* epochs of one session, one less for every crash before it
  MaxRecords,   \* lines of the ledger
  Steps,        \* what callers pass as the max_steps of an advance
  MaxFaults     \* crashes, and domain steps that raise

ASSUME SessionAssumption ==
  /\ \A n \in DOMAIN Models : WellFormed(Models[n]) /\ IsTree(Models[n])
  /\ MaxRecords \in Nat /\ Steps \subseteq Nat /\ \E most \in Steps : \A k \in Steps : k <= most

VARIABLES
  ledger,     \* the lines of the OccurrenceLedger
  epochs,     \* the stack of DecisionEpochs
  pending,    \* the intent that the bridge registered and has not committed
  outcome,    \* the standing of the session, folded over its receipts
  closed,     \* the session has been closed
  call,       \* where the call in progress stands
  performed,  \* history: the intents whose action had its effect and is not committed
  faults      \* how many crashes and raises happened

vars == <<ledger, epochs, pending, outcome, closed, call, performed, faults>>

NoIntent == [token |-> -1, path |-> <<>>, live |-> {}]

\* Between two calls; and no session at all.
Idle == [at |-> "idle", left |-> 0, last |-> FALSE]
Down == [at |-> "down", left |-> 0, last |-> FALSE]

At(place) == call.at = place

-----------------------------------------------------------------------------
(* The ledger *)

Line(phase, token, path, context, activity, index) ==
  [phase |-> phase, token |-> token, path |-> path, context |-> context,
   activity |-> activity, index |-> index]

Tokens(phase) == {r.token : r \in {q \in Range(ledger) : q.phase = phase}}

Outstanding == Tokens("INTENDED") \ Tokens("COMMITTED")

Resumable == Outstanding = {}

CommittedLines == SelectSeq(ledger, LAMBDA r : r.phase = "COMMITTED")

CommittedCount(activity) ==
  Len(SelectSeq(ledger, LAMBDA r : r.phase = "COMMITTED" /\ r.activity = activity))

\* Mutant: an intent is written over an outstanding one.
IntendAnyway(path, context, activity) ==
  ledger' = Append(ledger, Line("INTENDED", Len(ledger), path, context, activity, -1))

\* The token of an intent is its place in the ledger.
Intend(path, context, activity) ==
  /\ Resumable
  /\ ledger' = Append(ledger, Line("INTENDED", Len(ledger), path, context, activity, -1))

\* The counterpart of the intent with the token.
Commit(token, activity) ==
  LET intended == ledger[token + 1]
  IN /\ token \in Outstanding
     /\ ledger' = Append(ledger, Line("COMMITTED", token, intended.path, intended.context,
                                      activity, CommittedCount(activity)))

-----------------------------------------------------------------------------
(* Epochs *)

Epoch(id, marking) ==
  [id |-> id, seed |-> marking, marking |-> marking, choices |-> <<>>, standing |-> "UNKNOWN"]

Tree(e) == Models[e.id.model]

Current == Last(epochs)

EpochEnabled(e) == IF e.standing = "SUPERSEDED" THEN {} ELSE Enabled(Tree(e), e.marking)

Standing(e) ==
  IF IsFinal(Tree(e), e.marking) THEN "ALIVE"
  ELSE IF e.choices # <<>> THEN "PARTIAL_ALIVE" ELSE "UNKNOWN"

\* Mutant: the enabled set is taken after the fire.
AdvancedAfter(e, marking, live, path) ==
  [e EXCEPT !.marking = marking, !.standing = "PARTIAL_ALIVE",
            !.choices = Append(@, ChoiceRecord(Enabled(Tree(e), marking), path, e.id))]

\* The current epoch one step on: its record says what was enabled.
Advanced(e, marking, live, path) ==
  [e EXCEPT !.marking = marking, !.standing = "PARTIAL_ALIVE",
            !.choices = Append(@, ChoiceRecord(live, path, e.id))]

WithLast(e) == [epochs EXCEPT ![Len(epochs)] = e]

\* The standing of a session: blocked once an epoch was, alive while all were.
Outcome(standing) ==
  CASE outcome = "BLOCKED" \/ standing = "BLOCKED"                 -> "BLOCKED"
    [] standing = "ALIVE" /\ outcome \in {"UNKNOWN", "ALIVE"} -> "ALIVE"
    [] OTHER                                                    -> "PARTIAL_ALIVE"

\* The standing of an epoch goes into its receipt.
Receipt(e, standing) ==
  /\ epochs' = WithLast([e EXCEPT !.standing = standing])
  /\ outcome' = Outcome(standing)

\* A new epoch is pushed, the ones it supersedes stay in the stack.
Push(model, supersedes, preserves, marking) ==
  LET id == [index |-> Len(epochs), model |-> model, supersedes |-> supersedes, preserves |-> preserves]
      over(e) == IF e.id \in supersedes THEN [e EXCEPT !.standing = "SUPERSEDED"] ELSE e
  IN /\ ~closed
     /\ preserves \subseteq Labels(Models[model])
     /\ epochs' = Append([i \in DOMAIN epochs |-> over(epochs[i])], Epoch(id, marking))

OpenEpoch(model) ==
  /\ At("idle") /\ Len(epochs) + faults.crashes < MaxEpochs
  /\ Push(model, {}, {}, InitialMarking(Models[model]))
  /\ UNCHANGED <<ledger, pending, outcome, closed, call, performed, faults>>

-----------------------------------------------------------------------------
(* Replanning *)

LeavesWith(m, activity) == {p \in Leaves(m) : ActivityOf(m, p) = activity}

\* How many of the paths come before p.
Rank(p, paths) == Cardinality({q \in paths : PathBefore(q, p)})

\* The leaves of m that completed work stands for: an activity completed n
\* times is mapped when exactly n leaves carry it, in the order of both.
InferPreserveMap(m) ==
  LET done(activity) == SelectSeq(CommittedLines, LAMBDA r : r.activity = activity)
      aligned == {p \in Leaves(m) : LET a == ActivityOf(m, p)
                                    IN Len(done(a)) = Cardinality(LeavesWith(m, a))}
      key(r) == [activity |-> r.activity, index |-> r.index, context |-> r.context]
  IN [p \in aligned |-> LET a == ActivityOf(m, p)
                        IN key(done(a)[1 + Rank(p, LeavesWith(m, a))])]

\* The preserved leaves imply that the subtree at p is complete.
Covers(m, p, preserved) ==
  LET covers[q \in DOMAIN m] ==
        CASE m[q].kind = "PartialOrder" -> \A i \in 1..m[q].n : covers[Append(q, i)]
          [] m[q].kind = "ChoiceGraph"  -> covers[Append(q, m[q].end)]
          [] OTHER -> q \in preserved
  IN covers[p]

\* Mutant: the order is not looked at.
ValidPreserveMapAnyway(m, preserved) == preserved \subseteq Leaves(m)

\* No preserved leaf has a predecessor, at any level, that is not preserved.
ValidPreserveMap(m, preserved) ==
  \A p \in preserved : \A d \in DOMAIN p :
    LET above == SubSeq(p, 1, d - 1) IN
    m[above].kind = "PartialOrder" =>
      \A e \in m[above].closure : e[2] = p[d] => Covers(m, Append(above, e[1]), preserved)

\* The marking in which every preserved leaf is already complete.  Leaves are
\* taken in the order of their paths, so the last one sets the cursor.
SeedMarking(m, map) ==
  LET preserved == DOMAIN map
      selected(p) == {q[Len(p) + 1] : q \in {r \in preserved : Under(p, r)}}
      choice(p) == m[p].kind = "ChoiceGraph" /\ selected(p) # {}
  IN Marking(m, Range(map),
             [p \in Composites(m) |-> IF choice(p) THEN Max(selected(p)) ELSE 0],
             [p \in Composites(m) |-> [i \in 0..m[p].n |-> IF choice(p) /\ i \in selected(p) THEN 1 ELSE 0]],
             Cardinality(preserved), preserved)

\* The inferred map is validated and seeds the epoch that takes over.
Replan(model) ==
  LET m == Models[model]
      map == InferPreserveMap(m)
      seed == SeedMarking(m, map)
  IN /\ At("idle") /\ epochs # <<>> /\ Len(epochs) + faults.crashes < MaxEpochs
     /\ ValidPreserveMap(m, DOMAIN map)
     /\ DOMAIN map \cap EnabledUnder(m, seed, NoCap) = {}
     /\ Push(model, {Current.id}, {m[p].label : p \in {q \in DOMAIN map : m[q].kind = "Atom"}}, seed)
     /\ UNCHANGED <<ledger, pending, outcome, closed, call, performed, faults>>

-----------------------------------------------------------------------------
(* Stepping by node path: an intent, the structural fire, the commit *)

\* A path that is not enabled is refused here, before the intent is written.
StepIntend(path) ==
  /\ At("idle") /\ epochs # <<>> /\ Len(ledger) + 2 <= MaxRecords
  /\ path \in Enabled(Tree(Current), Current.marking)
  /\ Intend(path, Current.id, ActivityOf(Tree(Current), path))
  /\ call' = [Idle EXCEPT !.at = "stepping"]
  /\ UNCHANGED <<epochs, pending, outcome, closed, performed, faults>>

StepFire ==
  LET e == Current
      path == Last(ledger).path
      marking == Fire(Tree(e), e.marking, path, e.id)
  IN /\ At("stepping")
     /\ ~IsRefused(marking)
     /\ epochs' = WithLast(Advanced(e, marking, Enabled(Tree(e), e.marking), path))
     /\ Commit(Last(ledger).token, ActivityOf(Tree(e), path))
     /\ call' = Idle
     /\ UNCHANGED <<pending, outcome, closed, performed, faults>>

\* The fire raises: the intent stays without its counterpart.
StepRefused ==
  /\ At("stepping")
  /\ IsRefused(Fire(Tree(Current), Current.marking, Last(ledger).path, Current.id))
  /\ call' = Idle
  /\ UNCHANGED <<ledger, epochs, pending, outcome, closed, performed, faults>>

-----------------------------------------------------------------------------
(* Advancing by a rollout of the domain *)

\* The marking that the pending intent leads to in the current epoch.
PendingFire == Fire(Tree(Current), Current.marking, pending.path, Current.id)

\* The pending intent is fired, recorded and committed; when the rollout ends
\* with it, the epoch is receipted with the standing of its marking.
CommitIntent(ends) ==
  LET e == Advanced(Current, PendingFire, pending.live, pending.path)
  IN /\ ~IsRefused(PendingFire)
     /\ Commit(pending.token, ActivityOf(Tree(e), pending.path))
     /\ epochs' = WithLast(IF ends THEN [e EXCEPT !.standing = Standing(e)] ELSE e)
     /\ outcome' = IF ends THEN Outcome(Standing(e)) ELSE outcome
     /\ pending' = NoIntent
     /\ performed' = performed \ {pending.token}

\* Mutant: no epoch needs to be open.
AdvanceBeginUnopened(steps) ==
  /\ At("idle")
  /\ call' = [at |-> "sampling", left |-> steps, last |-> FALSE]
  /\ UNCHANGED <<ledger, epochs, pending, outcome, closed, performed, faults>>

AdvanceBegin(steps) ==
  /\ At("idle") /\ epochs # <<>>
  /\ call' = [at |-> "sampling", left |-> steps, last |-> FALSE]
  /\ UNCHANGED <<ledger, epochs, pending, outcome, closed, performed, faults>>

\* The enabled atoms that an action names.
Matches(action) == {p \in EpochEnabled(Current) : LET node == Tree(Current)[p]
                                                  IN node.kind = "Atom" /\ node.label = action}

\* The policy answers; the intent is written before the domain sees the action.
SampleAction(action) ==
  /\ At("sampling") /\ call.left > 0 /\ Len(ledger) + 2 <= MaxRecords
  /\ \E path \in Matches(action) :
       /\ Matches(action) = {path}
       /\ Intend(path, Current.id, action)
       /\ pending' = [token |-> Len(ledger), path |-> path, live |-> EpochEnabled(Current)]
  /\ call' = [call EXCEPT !.at = "acting"]
  /\ UNCHANGED <<epochs, outcome, closed, performed, faults>>

\* No enabled node, or more than one, matches: the epoch is receipted as blocked.
SampleUnresolved(action) ==
  /\ At("sampling") /\ call.left > 0
  /\ Cardinality(Matches(action)) # 1
  /\ Receipt(Current, "BLOCKED")
  /\ call' = Idle
  /\ UNCHANGED <<ledger, pending, closed, performed, faults>>

\* The ledger refuses a second intent, and the refusal leaves advance.
SampleRefused(action) ==
  /\ At("sampling") /\ call.left > 0
  /\ Cardinality(Matches(action)) = 1 /\ ~Resumable
  /\ call' = Idle
  /\ UNCHANGED <<ledger, epochs, pending, outcome, closed, performed, faults>>

\* The domain performs the action and may say that the episode is over.
DomainStep(termination) ==
  /\ At("acting")
  /\ performed' = performed \cup {pending.token}
  /\ call' = [call EXCEPT !.at = "committing", !.last = termination]
  /\ UNCHANGED <<ledger, epochs, pending, outcome, closed, faults>>

\* The domain raises, before or after it had an effect: advance is left with
\* the intent still pending.
DomainRaises(effect) ==
  /\ At("acting") /\ faults.raises + faults.crashes < MaxFaults
  /\ performed' = IF effect THEN performed \cup {pending.token} ELSE performed
  /\ call' = Idle
  /\ faults' = [faults EXCEPT !.raises = @ + 1]
  /\ UNCHANGED <<ledger, epochs, pending, outcome, closed>>

\* at_episode_step, or at_episode_end when the episode terminated.
AtEpisodeStep ==
  LET ends == call.last \/ call.left = 1
  IN /\ At("committing")
     /\ CommitIntent(ends)
     /\ call' = IF ends THEN Idle ELSE [call EXCEPT !.at = "sampling", !.left = @ - 1]
     /\ UNCHANGED <<closed, faults>>

\* A rollout of no steps ends at once, with a commit if an earlier one left
\* its intent pending.
AtEpisodeEnd ==
  /\ At("sampling") /\ call.left = 0
  /\ IF pending # NoIntent THEN CommitIntent(TRUE)
     ELSE Receipt(Current, Standing(Current)) /\ UNCHANGED <<ledger, pending, performed>>
  /\ call' = Idle
  /\ UNCHANGED <<closed, faults>>

\* The fire raises once the intent has been taken.
CommitRaises ==
  /\ At("committing") \/ (At("sampling") /\ call.left = 0 /\ pending # NoIntent)
  /\ IsRefused(PendingFire)
  /\ pending' = NoIntent
  /\ call' = Idle
  /\ UNCHANGED <<ledger, epochs, outcome, closed, performed, faults>>

-----------------------------------------------------------------------------
(* The session *)

SealEpoch ==
  /\ At("idle") /\ epochs # <<>>
  /\ Receipt(Current, Standing(Current))
  /\ UNCHANGED <<ledger, pending, closed, call, performed, faults>>

Close ==
  /\ At("idle") /\ Resumable
  /\ closed' = TRUE
  /\ UNCHANGED <<ledger, epochs, pending, outcome, call, performed, faults>>

\* Only the ledger outlives the process.
Crash ==
  /\ ~At("down") /\ faults.raises + faults.crashes < MaxFaults
  /\ epochs' = <<>> /\ pending' = NoIntent /\ outcome' = "UNKNOWN" /\ closed' = FALSE
  /\ call' = Down
  /\ faults' = [faults EXCEPT !.crashes = @ + 1]
  /\ UNCHANGED <<ledger, performed>>

\* A session over the ledger of an earlier one.
Resume ==
  /\ At("down") /\ Resumable
  /\ call' = Idle
  /\ UNCHANGED <<ledger, epochs, pending, outcome, closed, performed, faults>>

Init ==
  /\ ledger = <<>> /\ epochs = <<>> /\ pending = NoIntent /\ outcome = "UNKNOWN" /\ closed = FALSE
  /\ call = Idle /\ performed = {} /\ faults = [crashes |-> 0, raises |-> 0]

Actions == UNION {Labels(Models[n]) : n \in DOMAIN Models}

Paths == UNION {Leaves(Models[n]) : n \in DOMAIN Models}

Next ==
  \/ \E n \in DOMAIN Models : OpenEpoch(n) \/ Replan(n)
  \/ \E p \in Paths : StepIntend(p)
  \/ StepFire \/ StepRefused
  \/ \E k \in Steps : AdvanceBegin(k)
  \/ \E a \in Actions : SampleAction(a) \/ SampleUnresolved(a) \/ SampleRefused(a)
  \/ \E b \in BOOLEAN : DomainStep(b) \/ DomainRaises(b)
  \/ AtEpisodeStep \/ AtEpisodeEnd \/ CommitRaises
  \/ SealEpoch \/ Close \/ Crash \/ Resume

Spec == Init /\ [][Next]_vars

-----------------------------------------------------------------------------
(* Properties *)

Words == [n \in DOMAIN Models |-> Language(Models[n])]

Standings == {"UNKNOWN", "ALIVE", "PARTIAL_ALIVE", "BLOCKED", "SUPERSEDED"}

\* The types of the variables: lines name the intents they belong to, a call
\* that is under way has an epoch to work on, markings fit their trees.
TypeOK ==
  /\ \A i \in DOMAIN ledger : ledger[i].phase \in {"INTENDED", "COMMITTED"} /\ ledger[i].token \in 0..i-1
  /\ \A e \in Range(epochs) :
       /\ e.id.model \in DOMAIN Models /\ e.standing \in Standings
       /\ e.marking.paths \subseteq Leaves(Tree(e))
       /\ \A p \in Composites(Tree(e)) : e.marking.cursor[p] \in 0..Tree(e)[p].n
  /\ pending.token \in -1..Len(ledger)-1
  /\ outcome \in Standings \ {"SUPERSEDED"} /\ closed \in BOOLEAN
  /\ call.at \in {"down", "idle", "stepping", "sampling", "acting", "committing"}
  /\ call.left \in 0..Max(Steps) /\ call.last \in BOOLEAN
  /\ call.at \notin {"down", "idle"} => epochs # <<>>
  /\ performed \subseteq 0..MaxRecords-1

TraceOfEpoch(e) == TraceOf(Tree(e), e.choices)

Unseeded(e) == e.seed = InitialMarking(Tree(e))

\* The three accounts of a tree agree.  What an epoch that started empty has
\* run is the beginning of a word of its tree, and a whole word once the
\* executor calls the tree complete (is_final, on which ALIVE rests); its first
\* label is one that enabled_labels names; and the static check accepts a trace
\* for a tree, the one that ran or another, exactly when it is a word of it.
\* (Only the current epoch changes, and each was current when it did.)
EpochsStayInLanguage ==
  epochs # <<>> /\ Unseeded(Current) =>
    LET e == Current
        words == Words[e.id.model]
        trace == TraceOfEpoch(e)
    IN /\ \E w \in words : IsPrefix(trace, w)
       /\ IsFinal(Tree(e), e.marking) => trace \in words
       /\ trace # <<>> => trace[1] \in EnabledLabels(Tree(e))
       /\ At("idle") => \A n \in DOMAIN Models : RunsOnce(Models[n]) =>
            (TraceInLanguage(Models[n], trace) <=> trace \in Words[n])

\* No tree of choices, and none that must repeat: where a seed is sound.
Seedable(m) ==
  \A p \in Composites(m) : m[p].kind = "PartialOrder" /\ m[p].freq.min <= 1 /\ m[p].freq.max # 0

\* A traversal never runs into a structural deadlock, not even from a seed where
\* seeds are sound: where it stops short of completion, classify_stall can only
\* name a bound.  (In a tree that is not continuable, an order of children that
\* may all be skipped has nothing to run a second round of.)
OnlyBoundsStopATraversal ==
  epochs # <<>> => LET e == Current  m == Tree(e) IN
    Continuable(m) /\ (Unseeded(e) \/ Seedable(m)) /\ ~IsFinal(m, e.marking) =>
      EnabledUnder(m, e.marking, NoCap) # {}

\* Preserved work and new work make one run of the new tree: some word begins
\* with the preserved leaves and goes on with the trace of the epoch
\* (validate_preserve_map, seed_marking).
SeededEpochsStayInLanguage ==
  epochs # <<>> /\ Seedable(Tree(Current)) =>
    LET e == Current
        preserved == {Tree(e)[p].label : p \in e.seed.paths}
        n == Cardinality(preserved)
    IN \E w \in Words[e.id.model] :
         /\ ToSet(SubSeq(w, 1, n)) = preserved
         /\ IsPrefix(TraceOfEpoch(e), SubSeq(w, n + 1, Len(w)))

\* Visit counters outlive the rounds and purges of everything around them: no
\* leaf of a choice graph runs more often in one epoch than max_node_visits,
\* however loops and repetitions are nested.
LoopsAreCapped ==
  \A e \in Range(epochs) : \A p \in Leaves(Tree(e)) :
    p # <<>> /\ Tree(e)[Front(p)].kind = "ChoiceGraph" =>
      Cardinality({k \in DOMAIN e.choices : e.choices[k].chosen = p}) <= MaxNodeVisits

\* Between calls, what an epoch recorded suffices to run it again: replay from
\* its seed gives its marking, and the events of an epoch that started empty
\* conform to the tree exactly when it is complete, if they tell its leaves
\* apart.  A domain step that raised leaves an intent that a later epoch may
\* fire with the enabled set of an earlier one.
RecordsReplay ==
  At("idle") /\ epochs # <<>> => LET e == Current  m == Tree(e) IN
    /\ faults.raises = 0 => Replay(m, e.choices, e.seed) = e.marking
    /\ Unseeded(e) /\ Unambiguous(m) =>
         (Conforms(m, EventsOf(m, e.choices)) <=> IsFinal(m, e.marking))

\* Every intent is settled before the next one is written, and an action
\* whose effect is not yet committed has its intent on record.
LedgerAlternates ==
  /\ \A i \in DOMAIN ledger :
       IF i % 2 = 1 THEN ledger[i].phase = "INTENDED" /\ ledger[i].token = i - 1
       ELSE ledger[i].phase = "COMMITTED" /\ ledger[i].token = i - 2
  /\ performed \subseteq Outstanding
  /\ pending # NoIntent => pending.token \in Outstanding

\* An effect is forgotten by nothing but its commit, and as long as it is
\* unsettled no session closes and none starts over the ledger.
EffectsAreSettled ==
  /\ \A t \in performed \ performed' : t \in Tokens("COMMITTED")'
  /\ performed # {} => ~(At("down") /\ call'.at = "idle") /\ (closed' => closed)

\* The ledger is written ahead of the domain, across crashes and domain steps
\* that raise.  (It starts empty, so that what holds after every step always holds.)
WriteAhead == [][LedgerAlternates' /\ EffectsAreSettled]_vars

\* What session.py says of step: "checked before the intent is written, so a
\* rejected step cannot leave the ledger unresumable".
RejectedStepsLeaveTheLedgerResumable ==
  [][ At("stepping") /\ call' = Idle /\ epochs' = epochs => Resumable' ]_vars
=============================================================================
