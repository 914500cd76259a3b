------------------------- MODULE AgentSessionProofs -------------------------
(***************************************************************************)
(* Theorems of AgentSession, for every set of trees, every number of       *)
(* epochs, records and faults.                                             *)
(*                                                                         *)
(* The ledger alternates because an intent is only written over a settled  *)
(* ledger, which makes the last intent the only one that can be open.  The *)
(* invariant IInv adds that a call that waits for the domain has an        *)
(* intent, and that a step by node path has the only open one.             *)
(*                                                                         *)
(* Loops are capped because a fire of a leaf that a choice graph offers    *)
(* always counts an entry (LEMMA FireIs of PowlExecutorProofs).  The       *)
(* invariant SessionInv relates the records of an epoch to these counts,   *)
(* which no purge and no round resets, and says of its marking that no     *)
(* cursor is on a leaf that has yet to be completed.                       *)
(*                                                                         *)
(* What a step makes of the epochs is one of three things (Evolves): what  *)
(* was there, an epoch that begins, or the current one after one more      *)
(* fire.  That an epoch replays from its records (RecordsInv), and that    *)
(* its traversal goes on (GoingInv), are inductive over these three.       *)
(***************************************************************************)
EXTENDS AgentSession, PowlExecutorProofs

\* The ledger is a sequence.
Sequential == \E S : ledger \in Seq(S)

\* Intents and commits take turns, and every commit is of the intent before it.
Alternates ==
  \A i \in DOMAIN ledger :
    IF i % 2 = 1 THEN ledger[i].phase = "INTENDED" /\ ledger[i].token = i - 1
    ELSE ledger[i].phase = "COMMITTED" /\ ledger[i].token = i - 2

\* A line goes to the end, the ones before it stay.
LEMMA Appended ==
  ASSUME Sequential, NEW e, ledger' = Append(ledger, e)
  PROVE  /\ Sequential' /\ Len(ledger') = Len(ledger) + 1 /\ Len(ledger) \in Nat
         /\ DOMAIN ledger = 1..Len(ledger) /\ DOMAIN ledger' = 1..Len(ledger)+1
         /\ ledger'[Len(ledger)+1] = e
         /\ \A i \in 1..Len(ledger) : ledger'[i] = ledger[i]
<1>1. PICK S : ledger \in Seq(S)
  BY DEF Sequential
<1>2. ledger \in Seq(S \cup {e})
  BY <1>1
<1>3. ledger' \in Seq(S \cup {e})
  BY <1>2
<1>4. QED
  BY <1>2, <1>3 DEF Sequential

\* In a ledger that alternates only the last line can be an open intent.
LEMMA OutstandingIs ==
  Sequential /\ Alternates =>
    /\ Len(ledger) \in Nat
    /\ Len(ledger) % 2 = 1 => Outstanding = {Len(ledger) - 1}
    /\ Len(ledger) % 2 = 0 => Outstanding = {}
<1>. SUFFICES ASSUME Sequential, Alternates
              PROVE  /\ Len(ledger) \in Nat
                     /\ Len(ledger) % 2 = 1 => Outstanding = {Len(ledger) - 1}
                     /\ Len(ledger) % 2 = 0 => Outstanding = {}
  OBVIOUS
<1>1. Len(ledger) \in Nat /\ DOMAIN ledger = 1..Len(ledger)
  BY DEF Sequential
<1>2. \A t : t \in Tokens("INTENDED") <=> \E i \in 1..Len(ledger) : i % 2 = 1 /\ t = i - 1
  BY <1>1 DEF Tokens, Range, Alternates
<1>3. \A t : t \in Tokens("COMMITTED") <=> \E i \in 1..Len(ledger) : i % 2 = 0 /\ t = i - 2
  BY <1>1 DEF Tokens, Range, Alternates
<1>4. \A t : t \in Outstanding <=> Len(ledger) % 2 = 1 /\ t = Len(ledger) - 1
  <2>1. ASSUME NEW t, t \in Outstanding
        PROVE  Len(ledger) % 2 = 1 /\ t = Len(ledger) - 1
    <3>1. PICK i \in 1..Len(ledger) : i % 2 = 1 /\ t = i - 1
      BY <1>2, <2>1 DEF Outstanding
    <3>2. t \notin Tokens("COMMITTED")
      BY <2>1 DEF Outstanding
    <3>3. (i + 1) % 2 = 0 /\ t = (i + 1) - 2
      BY <3>1
    <3>4. i + 1 \notin 1..Len(ledger)
      BY <1>3, <3>2, <3>3
    <3>5. i = Len(ledger)
      <4>1. \A n \in Nat : \A j \in 1..n : j + 1 \notin 1..n => j = n
        OBVIOUS
      <4>2. QED
        BY <1>1, <3>4, <4>1
    <3>6. QED
      BY <3>1, <3>5
  <2>2. ASSUME NEW t, Len(ledger) % 2 = 1, t = Len(ledger) - 1
        PROVE  t \in Outstanding
    <3>1. t \in Tokens("INTENDED")
      <4>1. Len(ledger) \in 1..Len(ledger)
        <5>1. 0 % 2 = 0
          OBVIOUS
        <5>2. Len(ledger) # 0
          BY <2>2, <5>1
        <5>3. QED
          BY <1>1, <5>2
      <4>2. QED
        BY <1>2, <2>2, <4>1
    <3>2. t \notin Tokens("COMMITTED")
      BY <1>1, <1>3, <2>2
    <3>3. QED
      BY <3>1, <3>2 DEF Outstanding
  <2>3. QED
    BY <2>1, <2>2
<1>5. QED
  BY <1>1, <1>4

-----------------------------------------------------------------------------
(* The invariant *)

\* Effects and the pending intent belong to the intent that is open.
Unsettled ==
  /\ performed \subseteq Outstanding
  /\ pending # NoIntent => pending.token \in Outstanding

\* What the place of the call in progress says of the intents.
CallsIntend ==
  /\ DOMAIN call = {"at", "left", "last"}
  /\ call.at \in {"acting", "committing"} => pending # NoIntent
  /\ call.at = "stepping" => pending = NoIntent /\ performed = {} /\ Last(ledger).token \in Outstanding

\* The invariant of the ledger.
IInv == Sequential /\ Alternates /\ Unsettled /\ CallsIntend

\* The invariant is what the property says and more.
LEMMA IInvAlternates == IInv => LedgerAlternates
BY DEF IInv, Alternates, Unsettled, LedgerAlternates

\* An intent over a settled ledger is the only one that is open.
LEMMA Intended ==
  ASSUME Sequential, Alternates, NEW path, NEW context, NEW activity, Intend(path, context, activity)
  PROVE  /\ Sequential' /\ Alternates'
         /\ Outstanding = {} /\ Outstanding' = {Len(ledger)}
         /\ Len(ledger) \in Nat /\ Last(ledger').token = Len(ledger)
<1>. DEFINE line == Line("INTENDED", Len(ledger), path, context, activity, -1)
<1>1. ledger' = Append(ledger, line) /\ Outstanding = {}
  BY DEF Intend, Resumable
<1>2. line.phase = "INTENDED" /\ line.token = Len(ledger)
  BY DEF Line
<1>. HIDE DEF line
<1>3. Len(ledger) \in Nat /\ Len(ledger) % 2 = 0
  BY <1>1, OutstandingIs
<1>4. Sequential' /\ Alternates'
  BY <1>1, <1>2, <1>3, Appended DEF Alternates
<1>5. Len(ledger') = Len(ledger) + 1 /\ ledger'[Len(ledger) + 1] = line
  BY <1>1, Appended
<1>6. Len(ledger') % 2 = 1
  BY <1>3, <1>5
<1>7. Outstanding' = {Len(ledger') - 1}
  <2>1. (Sequential /\ Alternates => (Len(ledger) % 2 = 1 => Outstanding = {Len(ledger) - 1}))'
    BY OutstandingIs, PTL
  <2>2. QED
    BY <1>4, <1>6, <2>1
<1>8. QED
  BY <1>1, <1>2, <1>3, <1>4, <1>5, <1>7 DEF Last

\* A commit settles the only intent that is open.
LEMMA Committed ==
  ASSUME Sequential, Alternates, NEW token, NEW activity, Commit(token, activity)
  PROVE  /\ Sequential' /\ Alternates'
         /\ Outstanding = {token} /\ Outstanding' = {}
         /\ token \in Tokens("COMMITTED")'
<1>. DEFINE line == Line("COMMITTED", token, ledger[token + 1].path, ledger[token + 1].context,
                         activity, CommittedCount(activity))
<1>1. ledger' = Append(ledger, line) /\ token \in Outstanding
  BY DEF Commit
<1>2. line.phase = "COMMITTED" /\ line.token = token
  BY DEF Line
<1>. HIDE DEF line
<1>3. /\ Len(ledger) \in Nat /\ Len(ledger) % 2 = 1
      /\ token = Len(ledger) - 1 /\ Outstanding = {token}
  <2>1. Len(ledger) \in Nat /\ (Len(ledger) % 2 = 1 \/ Len(ledger) % 2 = 0)
    BY OutstandingIs
  <2>2. Len(ledger) % 2 # 0
    BY <1>1, OutstandingIs
  <2>3. QED
    BY <1>1, <2>1, <2>2, OutstandingIs
<1>4. /\ Sequential' /\ Len(ledger') = Len(ledger) + 1
      /\ DOMAIN ledger = 1..Len(ledger) /\ DOMAIN ledger' = 1..Len(ledger)+1
      /\ ledger'[Len(ledger) + 1] = line /\ \A i \in 1..Len(ledger) : ledger'[i] = ledger[i]
  BY <1>1, Appended
<1>5. (Len(ledger) + 1) % 2 = 0 /\ token = (Len(ledger) + 1) - 2
  BY <1>3
<1>6. Alternates'
  BY <1>2, <1>3, <1>4, <1>5 DEF Alternates
<1>7. Outstanding' = {}
  <2>1. (Sequential /\ Alternates => (Len(ledger) % 2 = 0 => Outstanding = {}))'
    BY OutstandingIs, PTL
  <2>2. QED
    BY <1>4, <1>5, <1>6, <2>1
<1>8. token \in Tokens("COMMITTED")'
  <2>1. Len(ledger) + 1 \in DOMAIN ledger'
    BY <1>3, <1>4
  <2>2. QED
    BY <1>2, <1>4, <2>1 DEF Tokens, Range
<1>9. QED
  BY <1>3, <1>4, <1>6, <1>7, <1>8

-----------------------------------------------------------------------------
(* The steps *)

\* The effects that a step may have: none on the ledger and its intents, as long
\* as no call comes to wait for the domain or to fire.
LEMMA Elsewhere ==
  ASSUME IInv, UNCHANGED <<ledger, performed>>, pending' = pending \/ pending' = NoIntent,
         DOMAIN call' = {"at", "left", "last"}, call'.at \notin {"acting", "committing", "stepping"}
  PROVE  IInv'
<1>1. Sequential' /\ Alternates' /\ Outstanding' = Outstanding
  BY DEF IInv, Sequential, Alternates, Outstanding, Tokens
<1>2. Unsettled'
  BY <1>1 DEF IInv, Unsettled
<1>3. CallsIntend'
  BY DEF CallsIntend
<1>4. QED
  BY <1>1, <1>2, <1>3 DEF IInv

\* A step that performs nothing, closes nothing and starts nothing.
LEMMA NoEffect ==
  ASSUME UNCHANGED performed, closed' => closed, ~(At("down") /\ call'.at = "idle")
  PROVE  EffectsAreSettled
BY DEF EffectsAreSettled

\* Over a ledger that can be resumed nothing is left to settle.
LEMMA NothingOpen ==
  ASSUME IInv, Resumable
  PROVE  performed = {} /\ pending = NoIntent
BY DEF IInv, Unsettled, Resumable

\* Steps that open, seal or leave: an intent may be forgotten, the ledger is as before.
LEMMA EpochSteps ==
  ASSUME IInv,
         \/ \E n \in DOMAIN Models : OpenEpoch(n) \/ Replan(n)
         \/ \E k \in Steps : AdvanceBegin(k)
         \/ \E a \in Actions : SampleUnresolved(a) \/ SampleRefused(a)
         \/ StepRefused \/ CommitRaises \/ SealEpoch
  PROVE  IInv' /\ EffectsAreSettled
<1>1. /\ UNCHANGED <<ledger, performed, closed>> /\ ~At("down")
      /\ pending' = pending \/ pending' = NoIntent
      /\ call' = Idle \/ (call' = call /\ At("idle")) \/ \E k \in Steps : call' = [at |-> "sampling", left |-> k, last |-> FALSE]
  BY DEF OpenEpoch, Replan, AdvanceBegin, SampleUnresolved, SampleRefused, StepRefused, CommitRaises, SealEpoch, At
<1>2. DOMAIN call' = {"at", "left", "last"} /\ call'.at \notin {"acting", "committing", "stepping"}
  BY <1>1 DEF Idle, At, IInv, CallsIntend
<1>3. QED
  BY <1>1, <1>2, Elsewhere, NoEffect

\* A session closes, and starts, over a ledger without an open intent.
LEMMA CloseSteps ==
  ASSUME IInv, Close \/ Resume
  PROVE  IInv' /\ EffectsAreSettled
<1>1. performed = {} /\ performed' = {} /\ UNCHANGED <<ledger, pending>>
  BY NothingOpen DEF Close, Resume
<1>2. DOMAIN call' = {"at", "left", "last"} /\ call'.at = "idle"
  BY DEF Close, Resume, Idle, At, IInv, CallsIntend
<1>3. IInv'
  BY <1>1, <1>2, Elsewhere
<1>4. EffectsAreSettled
  BY <1>1 DEF EffectsAreSettled
<1>5. QED
  BY <1>3, <1>4

\* A crash keeps the ledger, and the effects that it speaks of.
LEMMA CrashSteps ==
  ASSUME IInv, Crash
  PROVE  IInv' /\ EffectsAreSettled
<1>1. UNCHANGED <<ledger, performed>> /\ pending' = NoIntent /\ closed' = FALSE /\ call' = Down
  BY DEF Crash
<1>2. DOMAIN call' = {"at", "left", "last"} /\ call'.at = "down"
  BY <1>1 DEF Down
<1>3. IInv'
  BY <1>1, <1>2, Elsewhere
<1>4. EffectsAreSettled
  BY <1>1, <1>2, NoEffect
<1>5. QED
  BY <1>3, <1>4

\* An intent is written when nothing is open.
LEMMA IntendSteps ==
  ASSUME IInv, (\E p \in Paths : StepIntend(p)) \/ (\E a \in Actions : SampleAction(a))
  PROVE  IInv' /\ EffectsAreSettled
<1>1. PICK path, context, activity : Intend(path, context, activity)
  BY DEF StepIntend, SampleAction
<1>2. /\ Sequential' /\ Alternates' /\ Outstanding' = {Len(ledger)}
      /\ Len(ledger) \in Nat /\ Last(ledger').token = Len(ledger)
  BY <1>1, Intended DEF IInv
<1>3. performed = {} /\ performed' = {} /\ pending = NoIntent
  BY <1>1, NothingOpen DEF Intend, StepIntend, SampleAction
<1>4. Unsettled' /\ CallsIntend'
  <2>1. CASE \E p \in Paths : StepIntend(p)
    BY <1>2, <1>3, <2>1 DEF StepIntend, Unsettled, CallsIntend, Idle
  <2>2. CASE \E a \in Actions : SampleAction(a)
    <3>1. /\ pending'.token = Len(ledger) /\ pending' # NoIntent
          /\ call' = [call EXCEPT !.at = "acting"]
      BY <1>2, <2>2 DEF SampleAction, NoIntent
    <3>2. DOMAIN call' = {"at", "left", "last"} /\ call'.at = "acting"
      BY <3>1 DEF IInv, CallsIntend
    <3>3. QED
      BY <1>2, <1>3, <3>1, <3>2 DEF Unsettled, CallsIntend
  <2>3. QED
    BY <2>1, <2>2
<1>5. EffectsAreSettled
  <2>1. UNCHANGED closed
    BY DEF StepIntend, SampleAction
  <2>2. QED
    BY <1>3, <2>1 DEF EffectsAreSettled
<1>6. QED
  BY <1>2, <1>4, <1>5 DEF IInv

\* The domain performs the action of the open intent.
LEMMA DomainSteps ==
  ASSUME IInv, \E b \in BOOLEAN : DomainStep(b) \/ DomainRaises(b)
  PROVE  IInv' /\ EffectsAreSettled
<1>1. /\ UNCHANGED <<ledger, pending, closed>> /\ At("acting")
      /\ performed' = performed \cup {pending.token} \/ performed' = performed
  BY DEF DomainStep, DomainRaises
<1>2. pending # NoIntent /\ pending.token \in Outstanding
  BY <1>1 DEF IInv, CallsIntend, Unsettled, At
<1>3. Sequential' /\ Alternates' /\ Outstanding' = Outstanding
  BY <1>1 DEF IInv, Sequential, Alternates, Outstanding, Tokens
<1>4. Unsettled'
  BY <1>1, <1>2, <1>3 DEF IInv, Unsettled
<1>5. DOMAIN call' = {"at", "left", "last"} /\ call'.at \in {"idle", "committing"}
  <2>1. ASSUME NEW b \in BOOLEAN, DomainStep(b)
        PROVE  DOMAIN call' = {"at", "left", "last"} /\ call'.at = "committing"
    BY <2>1 DEF DomainStep, IInv, CallsIntend
  <2>2. ASSUME NEW b \in BOOLEAN, DomainRaises(b)
        PROVE  DOMAIN call' = {"at", "left", "last"} /\ call'.at = "idle"
    BY <2>2 DEF DomainRaises, Idle
  <2>3. QED
    BY <2>1, <2>2
<1>6. CallsIntend'
  BY <1>1, <1>2, <1>5 DEF CallsIntend
<1>7. EffectsAreSettled
  BY <1>1 DEF EffectsAreSettled, At
<1>8. QED
  BY <1>3, <1>4, <1>6, <1>7 DEF IInv

\* What a commit, of a step or of a rollout, makes of the intents.
LEMMA CommitSettles ==
  ASSUME IInv, NEW token, NEW activity, Commit(token, activity), pending' = NoIntent,
         performed' = performed \ {token}, UNCHANGED closed,
         DOMAIN call' = {"at", "left", "last"}, call'.at \in {"idle", "sampling"}, ~At("down")
  PROVE  IInv' /\ EffectsAreSettled
<1>1. /\ Sequential' /\ Alternates'
      /\ Outstanding = {token} /\ Outstanding' = {} /\ token \in Tokens("COMMITTED")'
  BY Committed DEF IInv
<1>2. performed \subseteq {token} /\ performed' = {}
  BY <1>1 DEF IInv, Unsettled
<1>3. Unsettled' /\ CallsIntend'
  BY <1>2 DEF Unsettled, CallsIntend
<1>4. EffectsAreSettled
  BY <1>1, <1>2 DEF EffectsAreSettled
<1>5. QED
  BY <1>1, <1>3, <1>4 DEF IInv

\* The three places that commit.
LEMMA CommitSteps ==
  ASSUME IInv, StepFire \/ AtEpisodeStep \/ AtEpisodeEnd
  PROVE  IInv' /\ EffectsAreSettled
<1>1. CASE StepFire
  <2>1. PICK activity : Commit(Last(ledger).token, activity)
    BY <1>1 DEF StepFire
  <2>2. UNCHANGED <<pending, closed, performed>> /\ call' = Idle /\ At("stepping")
    BY <1>1 DEF StepFire
  <2>3. pending' = NoIntent /\ performed' = performed \ {Last(ledger).token} /\ ~At("down")
    BY <2>2 DEF IInv, CallsIntend, At
  <2>4. DOMAIN call' = {"at", "left", "last"} /\ call'.at = "idle"
    BY <2>2 DEF Idle
  <2>5. QED
    BY <2>1, <2>2, <2>3, <2>4, CommitSettles
<1>2. CASE AtEpisodeStep
  <2>1. PICK ends : CommitIntent(ends)
    BY <1>2 DEF AtEpisodeStep
  <2>2. PICK activity : Commit(pending.token, activity)
    BY <2>1 DEF CommitIntent
  <2>3. pending' = NoIntent /\ performed' = performed \ {pending.token}
    BY <2>1 DEF CommitIntent
  <2>4. UNCHANGED closed /\ ~At("down")
    BY <1>2 DEF AtEpisodeStep, At
  <2>5. DOMAIN call' = {"at", "left", "last"} /\ call'.at \in {"idle", "sampling"}
    BY <1>2 DEF AtEpisodeStep, Idle, IInv, CallsIntend
  <2>6. QED
    BY <2>2, <2>3, <2>4, <2>5, CommitSettles
<1>3. CASE AtEpisodeEnd
  <2>1. UNCHANGED closed /\ call' = Idle /\ ~At("down")
    BY <1>3 DEF AtEpisodeEnd, At
  <2>2. DOMAIN call' = {"at", "left", "last"} /\ call'.at = "idle"
    BY <2>1 DEF Idle
  <2>3. CASE pending # NoIntent
    <3>1. CommitIntent(TRUE)
      BY <1>3, <2>3 DEF AtEpisodeEnd
    <3>2. PICK activity : Commit(pending.token, activity)
      BY <3>1 DEF CommitIntent
    <3>3. pending' = NoIntent /\ performed' = performed \ {pending.token}
      BY <3>1 DEF CommitIntent
    <3>4. QED
      BY <2>1, <2>2, <3>2, <3>3, CommitSettles
  <2>4. CASE pending = NoIntent
    <3>1. UNCHANGED <<ledger, pending, performed>>
      BY <1>3, <2>4 DEF AtEpisodeEnd
    <3>2. IInv'
      BY <2>2, <3>1, Elsewhere
    <3>3. QED
      BY <2>1, <3>1, <3>2, NoEffect
  <2>5. QED
    BY <2>3, <2>4
<1>4. QED
  BY <1>1, <1>2, <1>3

-----------------------------------------------------------------------------
(* The ledger is kept *)

\* There is nothing to settle at the start.
LEMMA Begins == Init => IInv
<1>1. SUFFICES ASSUME Init PROVE IInv
  OBVIOUS
<1>2. ledger = <<>> /\ ledger \in Seq({})
  BY <1>1 DEF Init
<1>3. Sequential /\ Alternates
  BY <1>2 DEF Sequential, Alternates
<1>4. Unsettled /\ CallsIntend
  BY <1>1 DEF Init, Unsettled, CallsIntend, Idle
<1>5. QED
  BY <1>3, <1>4 DEF IInv

\* The invariant is inductive, and every step settles its effects.
LEMMA NextKeeps == IInv /\ [Next]_vars => IInv' /\ [EffectsAreSettled]_vars
<1>1. SUFFICES ASSUME IInv, [Next]_vars PROVE IInv' /\ (EffectsAreSettled \/ UNCHANGED vars)
  OBVIOUS
<1>2. CASE UNCHANGED vars
  <2>1. UNCHANGED <<ledger, pending, call, performed>>
    BY <1>2 DEF vars
  <2>2. IInv'
    BY <1>1, <2>1 DEF IInv, Sequential, Alternates, Unsettled, CallsIntend, Outstanding, Tokens
  <2>3. QED
    BY <1>2, <2>2
<1>3. CASE Next
  BY <1>1, <1>3, EpochSteps, CloseSteps, CrashSteps, IntendSteps, DomainSteps, CommitSteps DEF Next
<1>4. QED
  BY <1>1, <1>2, <1>3

-----------------------------------------------------------------------------
(* Seeds *)

\* An epoch that takes over work on leaves.  The cursor of a choice graph is on
\* the last of them under it, or on the node that it is under.
LEMMA SeedIs ==
  ASSUME NEW m, IsTree(m), NEW map, DOMAIN map \subseteq Leaves(m)
  PROVE  Fits(m, SeedMarking(m, map)) /\ Arrived(m, SeedMarking(m, map))
<1>. DEFINE preserved == DOMAIN map
            selected(p) == {q[Len(p) + 1] : q \in {r \in preserved : Under(p, r)}}
            choice(p) == m[p].kind = "ChoiceGraph" /\ selected(p) # {}
            cursor == [p \in Composites(m) |-> IF choice(p) THEN Max(selected(p)) ELSE 0]
            visits == [p \in Composites(m) |-> [i \in 0..m[p].n |-> IF choice(p) /\ i \in selected(p) THEN 1 ELSE 0]]
            mk == SeedMarking(m, map)
<1>1. mk = Marking(m, Range(map), cursor, visits, Cardinality(preserved), preserved)
  BY DEF SeedMarking
<1>. HIDE DEF mk
<1>2. ASSUME NEW p \in Composites(m), NEW q \in preserved, Under(p, q)
      PROVE  /\ q[Len(p) + 1] \in 1..m[p].n
             /\ Append(p, q[Len(p) + 1]) \in Leaves(m) => Append(p, q[Len(p) + 1]) = q
  <2>1. /\ p \in Seq(Nat) /\ Len(p) \in Nat /\ q \in Leaves(m) /\ q \in DOMAIN m /\ q \in Seq(Nat) /\ Len(q) \in Nat
    BY TreeIs
  <2>2. Len(p) <= Len(q) /\ \A i \in 1..Len(p) : p[i] = q[i]
    BY <1>2, <2>1, UnderIs
  <2>3. Len(p) # Len(q)
    <3>1. SUFFICES ASSUME Len(p) = Len(q) PROVE FALSE
      OBVIOUS
    <3>2. p = q
      BY <2>1, <2>2, <3>1, SamePath
    <3>3. QED
      BY <2>1, <3>2 DEF Composites
  <2>4. Len(p) \in 0..Len(q) /\ Len(p) < Len(q) /\ Len(p) + 1 \in 0..Len(q) /\ Len(p) + 1 # 0 /\ (Len(p) + 1) - 1 = Len(p)
    BY <2>1, <2>2, <2>3
  <2>5. Upper(q, Len(p)) = p
    <3>1. Upper(q, Len(p)) \in Seq(Nat) /\ Len(Upper(q, Len(p))) = Len(p) /\ \A i \in 1..Len(p) : Upper(q, Len(p))[i] = q[i]
      BY <2>1, <2>4, UpperIs
    <3>2. \A i \in 1..Len(Upper(q, Len(p))) : Upper(q, Len(p))[i] = p[i]
      BY <2>2, <3>1
    <3>3. QED
      BY <2>1, <3>1, <3>2, SamePath
  <2>6. q[Len(p) + 1] \in 1..m[p].n
    BY <2>1, <2>4, <2>5, AboveIs
  <2>7. Upper(q, Len(p) + 1) = Append(p, q[Len(p) + 1])
    <3>1. Upper(q, Len(p) + 1) = Append(Upper(q, (Len(p) + 1) - 1), q[Len(p) + 1])
      BY <2>1, <2>4, UpperIs
    <3>2. QED
      BY <2>4, <2>5, <3>1
  <2>8. ASSUME Append(p, q[Len(p) + 1]) \in Leaves(m) PROVE Append(p, q[Len(p) + 1]) = q
    <3>1. Upper(q, Len(p) + 1) \notin Composites(m)
      BY <2>7, <2>8 DEF Composites
    <3>2. ~(Len(p) + 1 < Len(q))
      BY <2>1, <2>4, <3>1, AboveIs
    <3>3. Len(p) + 1 = Len(q)
      BY <2>1, <2>4, <3>2
    <3>4. Upper(q, Len(q)) = q
      BY <2>1, <2>4, <3>3, UpperIs
    <3>5. QED
      BY <2>7, <3>3, <3>4
  <2>9. QED
    BY <2>6, <2>8
<1>3. ASSUME NEW p \in Composites(m), choice(p)
      PROVE  Max(selected(p)) \in selected(p) /\ Max(selected(p)) \in 1..m[p].n
  <2>1. m[p].n \in Nat
    BY TreeIs
  <2>2. selected(p) \subseteq 1..m[p].n
    BY <1>2
  <2>. DEFINE T == selected(p)
  <2>3. T \subseteq 0..m[p].n /\ T # {}
    BY <1>3, <2>1, <2>2
  <2>4. T \subseteq 1..m[p].n
    BY <2>2
  <2>. HIDE DEF T
  <2>5. Max(T) \in T
    BY <2>1, <2>3, GreatestNatural
  <2>6. Max(T) \in T /\ Max(T) \in 1..m[p].n
    BY <2>4, <2>5
  <2>7. QED
    BY <2>6 DEF T
<1>4. DOMAIN cursor = Composites(m) /\ \A p \in Composites(m) : cursor[p] \in 0..m[p].n
  <2>1. ASSUME NEW p \in Composites(m) PROVE cursor[p] \in 0..m[p].n
    <3>1. m[p].n \in Nat
      BY TreeIs
    <3>2. CASE choice(p)
      <4>1. cursor[p] = Max(selected(p))
        BY <3>2
      <4>2. Max(selected(p)) \in 1..m[p].n
        BY <1>3, <3>2
      <4>. HIDE DEF cursor
      <4>3. QED
        BY <3>1, <4>1, <4>2
    <3>3. CASE ~choice(p)
      <4>1. cursor[p] = 0
        BY <3>3
      <4>. HIDE DEF cursor
      <4>2. QED
        BY <3>1, <4>1
    <3>4. QED
      BY <3>2, <3>3
  <2>2. QED
    BY <2>1
<1>5. /\ DOMAIN visits = Composites(m)
      /\ \A p \in Composites(m) : DOMAIN visits[p] = 0..m[p].n /\ \A i \in 0..m[p].n : visits[p][i] \in Nat
  <2>. HIDE DEF selected, choice
  <2>1. QED
    OBVIOUS
<1>. HIDE DEF visits
<1>6. Fits(m, mk) /\ mk.cursor = cursor /\ mk.paths = preserved
  <2>. HIDE DEF cursor
  <2>1. QED
    BY <1>1, <1>4, <1>5, MarkingFits
<1>7. ASSUME NEW p \in Composites(m), Ahead(m, mk, p) PROVE FALSE
  <2>1. choice(p) /\ mk.cursor[p] = Max(selected(p))
    BY <1>6, <1>7 DEF Ahead
  <2>2. mk.cursor[p] \in selected(p)
    BY <1>3, <2>1
  <2>3. PICK q \in preserved : Under(p, q) /\ mk.cursor[p] = q[Len(p) + 1]
    BY <2>2
  <2>4. Append(p, q[Len(p) + 1]) \in Leaves(m) \ preserved
    BY <1>6, <1>7, <2>3 DEF Ahead
  <2>5. Append(p, q[Len(p) + 1]) = q
    BY <1>2, <2>3, <2>4
  <2>6. QED
    BY <2>4, <2>5
<1>8. QED
  BY <1>6, <1>7 DEF mk, Arrived

-----------------------------------------------------------------------------
(* Epochs *)

\* The fires of leaf p in epoch e.
Fired(e, p) == {k \in DOMAIN e.choices : e.choices[k].chosen = p}

\* As often as an epoch fired a leaf, the leaf was entered; and it is only
\* entered below the cap.  (A seed may count an entry that was never fired.)
FiresAreCounted(e) ==
  \A p \in Leaves(Tree(e)) \ {<<>>} : Tree(e)[Front(p)].kind = "ChoiceGraph" =>
    /\ Cardinality(Fired(e, p)) <= Times(e.marking, p)
    /\ Cardinality(Fired(e, p)) = 0 \/ Times(e.marking, p) <= MaxNodeVisits

\* An epoch has a tree of its own, a marking that fits it, and counted fires.
EpochIs(e) ==
  /\ DOMAIN e = {"id", "seed", "marking", "choices", "standing"}
  /\ e.id.model \in DOMAIN Models /\ e.standing \in Standings
  /\ \E S : e.choices \in Seq(S)
  /\ Fits(Tree(e), e.marking) /\ Arrived(Tree(e), e.marking)
  /\ FiresAreCounted(e)

\* The stack of epochs.
EpochsAre ==
  /\ \E S : epochs \in Seq(S)
  /\ \A i \in DOMAIN epochs : EpochIs(epochs[i])

\* Callers plan with trees.
LEMMA ModelsAre == \A n \in DOMAIN Models : IsTree(Models[n])
BY SessionAssumption

\* What a leaf of a choice graph has been entered.
LEMMA TimesIs ==
  ASSUME NEW m, IsTree(m), NEW mk, Fits(m, mk), NEW c \in Leaves(m) \ {<<>>}
  PROVE  Times(mk, c) \in Nat
<1>1. Front(c) \in Composites(m) /\ Last(c) \in 1..m[Front(c)].n
  BY LeafIs
<1>2. m[Front(c)].n \in Nat
  BY <1>1, TreeIs
<1>3. Last(c) \in 0..m[Front(c)].n
  BY <1>1, <1>2
<1>4. QED
  BY <1>1, <1>3 DEF Fits, Times

\* An epoch begins without a fire.
LEMMA EpochBegins ==
  ASSUME NEW id, id.model \in DOMAIN Models, NEW marking,
         Fits(Models[id.model], marking), Arrived(Models[id.model], marking)
  PROVE  EpochIs(Epoch(id, marking))
<1>. DEFINE e == Epoch(id, marking)
<1>1. /\ DOMAIN e = {"id", "seed", "marking", "choices", "standing"}
      /\ e.id = id /\ e.marking = marking /\ e.choices = <<>> /\ e.standing = "UNKNOWN"
  BY DEF Epoch
<1>. HIDE DEF e
<1>2. Tree(e) = Models[id.model] /\ IsTree(Models[id.model])
  BY <1>1, ModelsAre DEF Tree
<1>3. \A p : Fired(e, p) = {}
  BY <1>1 DEF Fired
<1>4. FiresAreCounted(e)
  <2>1. Cardinality({}) = 0
    BY FS_EmptySet, Zenon
  <2>2. \A p \in Leaves(Tree(e)) \ {<<>>} : Times(e.marking, p) \in Nat
    BY <1>1, <1>2, TimesIs
  <2>3. ASSUME NEW p \in Leaves(Tree(e)) \ {<<>>}
        PROVE  Cardinality(Fired(e, p)) = 0 /\ 0 <= Times(e.marking, p)
    <3>1. Times(e.marking, p) \in Nat
      BY <2>2
    <3>2. Cardinality(Fired(e, p)) = 0
      BY <1>3, <2>1
    <3>3. QED
      BY <3>1, <3>2
  <2>4. QED
    BY <2>3 DEF FiresAreCounted
<1>5. e.choices \in Seq({})
  BY <1>1
<1>6. EpochIs(e)
  BY <1>1, <1>2, <1>4, <1>5 DEF EpochIs, Standings
<1>7. QED
  BY <1>6 DEF e

\* A standing changes nothing else about an epoch.
LEMMA EpochStands ==
  ASSUME NEW e, EpochIs(e), NEW s \in Standings
  PROVE  EpochIs([e EXCEPT !.standing = s])
<1>. DEFINE f == [e EXCEPT !.standing = s]
<1>1. DOMAIN e = {"id", "seed", "marking", "choices", "standing"}
  BY DEF EpochIs
<1>2. DOMAIN f = DOMAIN e /\ f.id = e.id /\ f.marking = e.marking /\ f.choices = e.choices /\ f.standing = s
  BY <1>1
<1>. HIDE DEF f
<1>3. Tree(f) = Tree(e) /\ \A p : Fired(f, p) = Fired(e, p)
  BY <1>2 DEF Tree, Fired
<1>4. FiresAreCounted(f)
  BY <1>2, <1>3 DEF EpochIs, FiresAreCounted
<1>5. EpochIs(f)
  BY <1>2, <1>3, <1>4 DEF EpochIs
<1>6. QED
  BY <1>5 DEF f

\* One fire on, the counts agree still.
LEMMA EpochAdvances ==
  ASSUME NEW e, EpochIs(e), NEW path, NEW context, NEW live,
         ~IsRefused(Fire(Tree(e), e.marking, path, context))
  PROVE  EpochIs(Advanced(e, Fire(Tree(e), e.marking, path, context), live, path))
<1>. DEFINE m == Tree(e)
            next == Fire(m, e.marking, path, context)
            record == ChoiceRecord(live, path, e.id)
            f == Advanced(e, next, live, path)
<1>1. /\ DOMAIN e = {"id", "seed", "marking", "choices", "standing"}
      /\ e.id.model \in DOMAIN Models /\ IsTree(m)
      /\ Fits(m, e.marking) /\ Arrived(m, e.marking) /\ FiresAreCounted(e)
  BY ModelsAre DEF EpochIs, Tree
<1>2. /\ path \in Leaves(m)
      /\ Fits(m, next) /\ Arrived(m, next)
      /\ \A c \in Leaves(m) \ {<<>>} : m[Front(c)].kind = "ChoiceGraph" =>
           /\ Times(next, c) = IF c = path THEN Times(e.marking, c) + 1 ELSE Times(e.marking, c)
           /\ c = path => Times(e.marking, c) < MaxNodeVisits
  BY <1>1, FireIs
<1>. HIDE DEF next
<1>3. /\ DOMAIN f = DOMAIN e /\ f.id = e.id /\ f.marking = next /\ f.standing = "PARTIAL_ALIVE"
      /\ f.choices = Append(e.choices, record)
  BY <1>1 DEF Advanced
<1>4. record.chosen = path
  BY DEF ChoiceRecord
<1>. HIDE DEF f, record
<1>5. PICK S : e.choices \in Seq(S)
  BY DEF EpochIs
<1>6. e.choices \in Seq(S \cup {record})
  BY <1>5
<1>7. /\ f.choices \in Seq(S \cup {record}) /\ Len(e.choices) \in Nat
      /\ DOMAIN e.choices = 1..Len(e.choices) /\ DOMAIN f.choices = 1..Len(e.choices) + 1
      /\ f.choices[Len(e.choices) + 1] = record
      /\ \A k \in 1..Len(e.choices) : f.choices[k] = e.choices[k]
  BY <1>3, <1>6
<1>8. Tree(f) = m
  BY <1>3 DEF Tree
<1>9. ASSUME NEW c
      PROVE  /\ Cardinality(Fired(e, c)) \in Nat
             /\ Cardinality(Fired(f, c)) = IF c = path THEN Cardinality(Fired(e, c)) + 1 ELSE Cardinality(Fired(e, c))
  <2>. DEFINE last == Len(e.choices) + 1
  <2>0. last \in Nat /\ last \notin 1..Len(e.choices) /\ 1..last = (1..Len(e.choices)) \cup {last}
    BY <1>7
  <2>1. IsFiniteSet(Fired(e, c)) /\ last \notin Fired(e, c)
    <3>1. IsFiniteSet(1..Len(e.choices))
      BY <1>7, FS_Interval
    <3>2. Fired(e, c) \subseteq 1..Len(e.choices)
      BY <1>7 DEF Fired
    <3>3. IsFiniteSet(Fired(e, c))
      BY <3>1, <3>2, FS_Subset, Zenon
    <3>4. QED
      BY <2>0, <3>2, <3>3
  <2>2. Fired(f, c) = IF c = path THEN Fired(e, c) \cup {last} ELSE Fired(e, c)
    <3>1. ASSUME NEW k \in 1..Len(e.choices) PROVE k \in Fired(f, c) <=> k \in Fired(e, c)
      BY <1>7, <2>0 DEF Fired
    <3>2. last \in Fired(f, c) <=> c = path
      BY <1>4, <1>7, <2>0 DEF Fired
    <3>3. Fired(f, c) \subseteq 1..last /\ Fired(e, c) \subseteq 1..Len(e.choices)
      BY <1>7 DEF Fired
    <3>. HIDE DEF last
    <3>4. ASSUME NEW k PROVE k \in Fired(f, c) <=> k \in Fired(e, c) \/ (c = path /\ k = last)
      <4>1. CASE k \in 1..Len(e.choices)
        BY <2>0, <3>1, <4>1
      <4>2. CASE k = last
        BY <2>1, <3>2, <4>2
      <4>3. CASE k \notin 1..last
        BY <2>0, <3>3, <4>3
      <4>4. QED
        BY <2>0, <4>1, <4>2, <4>3
    <3>5. QED
      BY <3>4
  <2>3. Cardinality(Fired(e, c)) \in Nat
    BY <2>1, FS_CardinalityType, Zenon
  <2>4. Cardinality(Fired(e, c) \cup {last}) = Cardinality(Fired(e, c)) + 1
    BY <2>1, FS_AddElement, Zenon
  <2>5. QED
    BY <2>2, <2>3, <2>4
<1>10. FiresAreCounted(f)
  <2>1. SUFFICES ASSUME NEW c \in Leaves(m) \ {<<>>}, m[Front(c)].kind = "ChoiceGraph"
                 PROVE  /\ Cardinality(Fired(f, c)) <= Times(next, c)
                        /\ Cardinality(Fired(f, c)) = 0 \/ Times(next, c) <= MaxNodeVisits
    BY <1>3, <1>8 DEF FiresAreCounted
  <2>2. /\ Times(next, c) = IF c = path THEN Times(e.marking, c) + 1 ELSE Times(e.marking, c)
        /\ c = path => Times(e.marking, c) < MaxNodeVisits
    BY <1>2, <2>1
  <2>3. /\ Cardinality(Fired(e, c)) <= Times(e.marking, c)
        /\ Cardinality(Fired(e, c)) = 0 \/ Times(e.marking, c) <= MaxNodeVisits
    BY <1>1, <2>1 DEF FiresAreCounted
  <2>4. Times(e.marking, c) \in Nat
    BY <1>1, TimesIs
  <2>5. MaxNodeVisits \in Nat
    BY ExecutionBoundAssumption
  <2>6. /\ Cardinality(Fired(e, c)) \in Nat
        /\ Cardinality(Fired(f, c)) = IF c = path THEN Cardinality(Fired(e, c)) + 1 ELSE Cardinality(Fired(e, c))
    BY <1>9
  <2>7. QED
    BY <2>2, <2>3, <2>4, <2>5, <2>6
<1>. HIDE DEF m
<1>11. EpochIs(f)
  BY <1>1, <1>2, <1>3, <1>7, <1>8, <1>10 DEF EpochIs, Standings
<1>12. QED
  BY <1>11 DEF f, next, m

\* The last epoch is one of the stack.
LEMMA CurrentIs ==
  ASSUME EpochsAre, epochs # <<>>
  PROVE  EpochIs(Current) /\ Len(epochs) \in 1..Len(epochs) /\ DOMAIN epochs = 1..Len(epochs) /\ Len(epochs) \in Nat
BY DEF EpochsAre, Current, Last

\* The current epoch is replaced.
LEMMA LastReplaced ==
  ASSUME EpochsAre, epochs # <<>>, NEW e, EpochIs(e), epochs' = WithLast(e)
  PROVE  EpochsAre' /\ epochs' # <<>>
<1>1. PICK S : epochs \in Seq(S)
  BY DEF EpochsAre
<1>2. Len(epochs) \in 1..Len(epochs) /\ Len(epochs) \in Nat /\ DOMAIN epochs = 1..Len(epochs)
  BY CurrentIs
<1>3. epochs \in Seq(S \cup {e})
  BY <1>1
<1>4. epochs' \in Seq(S \cup {e}) /\ DOMAIN epochs' = 1..Len(epochs) /\ epochs'[Len(epochs)] = e
  BY <1>2, <1>3 DEF WithLast
<1>5. \A i \in 1..Len(epochs) : epochs'[i] = IF i = Len(epochs) THEN e ELSE epochs[i]
  BY <1>2, <1>3 DEF WithLast
<1>6. \A i \in DOMAIN epochs' : EpochIs(epochs'[i])
  BY <1>2, <1>4, <1>5 DEF EpochsAre
<1>7. epochs' # <<>>
  BY <1>2, <1>4
<1>8. QED
  BY <1>4, <1>6, <1>7 DEF EpochsAre

\* A new one is pushed.
LEMMA Pushed ==
  ASSUME EpochsAre, NEW model \in DOMAIN Models, NEW supersedes, NEW preserves, NEW marking,
         Fits(Models[model], marking), Arrived(Models[model], marking),
         Push(model, supersedes, preserves, marking)
  PROVE  EpochsAre' /\ epochs' # <<>>
<1>. DEFINE id == [index |-> Len(epochs), model |-> model, supersedes |-> supersedes, preserves |-> preserves]
            over(e) == IF e.id \in supersedes THEN [e EXCEPT !.standing = "SUPERSEDED"] ELSE e
            old == [i \in DOMAIN epochs |-> over(epochs[i])]
            new == Epoch(id, marking)
<1>1. epochs' = Append(old, new)
  BY DEF Push
<1>2. EpochIs(new)
  <2>1. id.model = model
    OBVIOUS
  <2>. HIDE DEF id
  <2>2. QED
    BY <2>1, EpochBegins
<1>. HIDE DEF new
<1>3. DOMAIN epochs = 1..Len(epochs) /\ Len(epochs) \in Nat
  BY DEF EpochsAre
<1>4. ASSUME NEW i \in 1..Len(epochs) PROVE EpochIs(old[i])
  <2>1. EpochIs(epochs[i])
    BY <1>3 DEF EpochsAre
  <2>2. EpochIs([epochs[i] EXCEPT !.standing = "SUPERSEDED"])
    BY <2>1, EpochStands DEF Standings
  <2>3. QED
    BY <1>3, <2>1, <2>2
<1>5. DOMAIN old = 1..Len(epochs)
  BY <1>3
<1>. DEFINE S == {old[i] : i \in 1..Len(epochs)} \cup {new}
<1>6. old \in Seq(S) /\ Len(old) = Len(epochs)
  BY <1>3, <1>5
<1>. HIDE DEF old
<1>7. new \in S
  OBVIOUS
<1>. HIDE DEF S
<1>8. epochs' \in Seq(S) /\ DOMAIN epochs' = 1..Len(epochs) + 1
  BY <1>1, <1>3, <1>6, <1>7
<1>9. \A i \in 1..Len(epochs) + 1 : epochs'[i] = IF i = Len(epochs) + 1 THEN new ELSE old[i]
  BY <1>1, <1>3, <1>6, <1>7
<1>10. \A i \in DOMAIN epochs' : EpochIs(epochs'[i])
  BY <1>2, <1>3, <1>4, <1>8, <1>9
<1>11. epochs' # <<>>
  BY <1>3, <1>8
<1>12. QED
  BY <1>8, <1>10, <1>11 DEF EpochsAre

-----------------------------------------------------------------------------
(* The types, and how often a leaf runs *)

\* An intent is only written when there is room for its counterpart.
LedgerFits ==
  Len(ledger) <= MaxRecords /\ (Len(ledger) % 2 = 1 => Len(ledger) < MaxRecords)

\* Where a call may stand, and that it then has an epoch.
CallFits ==
  /\ call.at \in {"down", "idle", "stepping", "sampling", "acting", "committing"}
  /\ call.left \in 0..Max(Steps) /\ call.last \in BOOLEAN
  /\ call.at \in {"acting", "committing"} => call.left > 0
  /\ call.at \notin {"down", "idle"} => epochs # <<>>

\* The standing of the session.
StandingsFit == outcome \in Standings \ {"SUPERSEDED"} /\ closed \in BOOLEAN

\* What the invariant adds to the one of the ledger.
SessionFits == EpochsAre /\ LedgerFits /\ CallFits /\ StandingsFit

\* The invariant of the session.
SessionInv == IInv /\ SessionFits

\* No advance has more steps than the longest.
LEMMA StepsAre == Max(Steps) \in Nat /\ \A k \in Steps : k \in 0..Max(Steps)
<1>1. PICK most \in Steps : \A k \in Steps : k <= most
  BY SessionAssumption
<1>2. \E x \in Steps : \A y \in Steps : x >= y
  BY <1>1, SessionAssumption
<1>3. Max(Steps) \in Steps /\ \A y \in Steps : Max(Steps) >= y
  BY <1>2, Zenon DEF Max
<1>4. Steps \subseteq Nat
  BY SessionAssumption
<1>. DEFINE top == Max(Steps)
<1>5. top \in Nat /\ \A k \in Steps : k \in Nat /\ k <= top
  BY <1>3, <1>4
<1>. HIDE DEF top
<1>6. \A k \in Steps : k \in 0..top
  BY <1>5
<1>7. QED
  BY <1>5, <1>6 DEF top

\* Where nothing is done to the epochs.
LEMMA EpochsKept == EpochsAre /\ UNCHANGED epochs => EpochsAre'
BY DEF EpochsAre

\* Nor to the ledger.
LEMMA LedgerKept == LedgerFits /\ UNCHANGED ledger => LedgerFits'
BY DEF LedgerFits

\* Nor to the standing of the session.
LEMMA StandingsKept == StandingsFit /\ UNCHANGED <<outcome, closed>> => StandingsFit'
BY DEF StandingsFit

\* A call that has ended fits.
LEMMA CallEnds == call' = Idle \/ call' = Down => CallFits'
<1>1. Idle.at = "idle" /\ Idle.left = 0 /\ Idle.last = FALSE /\ Down.at = "down" /\ Down.left = 0 /\ Down.last = FALSE
  BY DEF Idle, Down
<1>2. 0 \in 0..Max(Steps)
  BY StepsAre
<1>3. QED
  BY <1>1, <1>2 DEF CallFits

\* An intent leaves room for its commit.
LEMMA IntendFits ==
  ASSUME IInv, LedgerFits, Len(ledger) + 2 <= MaxRecords,
         NEW path, NEW context, NEW activity, Intend(path, context, activity)
  PROVE  LedgerFits'
<1>1. Len(ledger) \in Nat /\ Len(ledger') = Len(ledger) + 1
  BY Appended DEF Intend, IInv
<1>2. MaxRecords \in Nat
  BY SessionAssumption
<1>3. QED
  BY <1>1, <1>2 DEF LedgerFits

\* A commit takes the room that its intent left.
LEMMA CommitFits ==
  ASSUME IInv, LedgerFits, NEW token, NEW activity, Commit(token, activity)
  PROVE  LedgerFits'
<1>1. Len(ledger) \in Nat /\ Len(ledger') = Len(ledger) + 1
  BY Appended DEF Commit, IInv
<1>2. Len(ledger) % 2 = 1
  <2>1. Len(ledger) % 2 = 1 \/ Len(ledger) % 2 = 0
    BY <1>1
  <2>2. Outstanding # {}
    BY DEF Commit
  <2>3. QED
    BY <2>1, <2>2, OutstandingIs DEF IInv
<1>3. MaxRecords \in Nat
  BY SessionAssumption
<1>4. (Len(ledger) + 1) % 2 # 1
  BY <1>1, <1>2
<1>5. QED
  BY <1>1, <1>2, <1>3, <1>4 DEF LedgerFits

\* A session is never superseded.
LEMMA OutcomeIs == \A s : Outcome(s) \in Standings \ {"SUPERSEDED"}
BY DEF Outcome, Standings

\* The standing of a marking.
LEMMA StandingIs == \A e : Standing(e) \in Standings
BY DEF Standing, Standings

\* The leaves that completed work is mapped to.
LEMMA PreservedAreLeaves == \A m : DOMAIN InferPreserveMap(m) \subseteq Leaves(m)
<1>. SUFFICES ASSUME NEW m PROVE DOMAIN InferPreserveMap(m) \subseteq Leaves(m)
  OBVIOUS
<1>1. DOMAIN InferPreserveMap(m) =
        {p \in Leaves(m) : LET a == ActivityOf(m, p)
                           IN Len(SelectSeq(CommittedLines, LAMBDA r : r.activity = a)) = Cardinality(LeavesWith(m, a))}
  BY DEF InferPreserveMap
<1>2. QED
  BY <1>1

\* A receipt gives the current epoch a standing.
LEMMA Receipted ==
  ASSUME EpochsAre, epochs # <<>>, NEW s \in Standings, Receipt(Current, s)
  PROVE  EpochsAre' /\ epochs' # <<>> /\ outcome' \in Standings \ {"SUPERSEDED"}
<1>1. EpochIs([Current EXCEPT !.standing = s])
  BY CurrentIs, EpochStands
<1>2. epochs' = WithLast([Current EXCEPT !.standing = s]) /\ outcome' = Outcome(s)
  BY DEF Receipt
<1>. DEFINE e == [Current EXCEPT !.standing = s]
<1>. HIDE DEF e
<1>3. EpochsAre' /\ epochs' # <<>>
  <2>1. EpochIs(e) /\ epochs' = WithLast(e)
    BY <1>1, <1>2 DEF e
  <2>2. QED
    BY <2>1, LastReplaced
<1>4. QED
  BY <1>2, <1>3, OutcomeIs

\* The commit of a rollout.
LEMMA CommitIntentIs ==
  ASSUME SessionInv, epochs # <<>>, NEW ends, CommitIntent(ends)
  PROVE  EpochsAre' /\ epochs' # <<>> /\ LedgerFits' /\ outcome' \in Standings \ {"SUPERSEDED"}
<1>. DEFINE e == Advanced(Current, PendingFire, pending.live, pending.path)
            f == IF ends THEN [e EXCEPT !.standing = Standing(e)] ELSE e
<1>1. /\ ~IsRefused(PendingFire) /\ epochs' = WithLast(f)
      /\ outcome' = outcome \/ \E s : outcome' = Outcome(s)
  BY DEF CommitIntent
<1>2. EpochIs(e)
  BY <1>1, CurrentIs, EpochAdvances DEF SessionInv, SessionFits, PendingFire
<1>. HIDE DEF e
<1>3. EpochIs(f)
  BY <1>2, EpochStands, StandingIs
<1>. HIDE DEF f
<1>4. EpochsAre' /\ epochs' # <<>>
  BY <1>1, <1>3, LastReplaced DEF SessionInv, SessionFits
<1>5. PICK activity : Commit(pending.token, activity)
  BY DEF CommitIntent
<1>6. LedgerFits'
  BY <1>5, CommitFits DEF SessionInv, SessionFits
<1>7. QED
  BY <1>1, <1>4, <1>6, OutcomeIs DEF SessionInv, SessionFits, StandingsFit

\* An epoch is opened, or takes over.
LEMMA EpochStepsFit ==
  ASSUME SessionInv, \E n \in DOMAIN Models : OpenEpoch(n) \/ Replan(n)
  PROVE  SessionFits'
<1>1. PICK n \in DOMAIN Models : OpenEpoch(n) \/ Replan(n)
  OBVIOUS
<1>2. IsTree(Models[n])
  BY ModelsAre
<1>3. EpochsAre' /\ epochs' # <<>>
  <2>1. CASE OpenEpoch(n)
    <3>1. Push(n, {}, {}, InitialMarking(Models[n]))
      BY <2>1 DEF OpenEpoch
    <3>2. Fits(Models[n], InitialMarking(Models[n])) /\ Arrived(Models[n], InitialMarking(Models[n]))
      BY <1>2, InitialIs
    <3>3. QED
      BY <3>1, <3>2, Pushed DEF SessionInv, SessionFits
  <2>2. CASE Replan(n)
    <3>. DEFINE seed == SeedMarking(Models[n], InferPreserveMap(Models[n]))
    <3>1. PICK supersedes, preserves : Push(n, supersedes, preserves, seed)
      BY <2>2 DEF Replan
    <3>2. Fits(Models[n], seed) /\ Arrived(Models[n], seed)
      BY <1>2, SeedIs, PreservedAreLeaves
    <3>. HIDE DEF seed
    <3>3. QED
      BY <3>1, <3>2, Pushed DEF SessionInv, SessionFits
  <2>3. QED
    BY <1>1, <2>1, <2>2
<1>4. UNCHANGED <<ledger, outcome, closed, call>>
  BY <1>1 DEF OpenEpoch, Replan
<1>5. QED
  BY <1>3, <1>4 DEF SessionInv, SessionFits, LedgerFits, CallFits, StandingsFit

\* A step by node path.
LEMMA StepStepsFit ==
  ASSUME SessionInv, (\E p \in Paths : StepIntend(p)) \/ StepFire \/ StepRefused
  PROVE  SessionFits'
<1>1. ASSUME NEW p \in Paths, StepIntend(p)
      PROVE  SessionFits'
  <2>1. /\ UNCHANGED <<epochs, outcome, closed>> /\ epochs # <<>>
        /\ call' = [Idle EXCEPT !.at = "stepping"]
    BY <1>1 DEF StepIntend
  <2>2. LedgerFits'
    BY <1>1, IntendFits DEF StepIntend, SessionInv, SessionFits
  <2>3. call'.at = "stepping" /\ call'.left = 0 /\ call'.last = FALSE
    BY <2>1 DEF Idle
  <2>4. CallFits'
    <3>1. 0 \in 0..Max(Steps)
      BY StepsAre
    <3>2. QED
      BY <2>1, <2>3, <3>1 DEF CallFits
  <2>5. QED
    BY <2>1, <2>2, <2>4, EpochsKept, StandingsKept DEF SessionInv, SessionFits
<1>2. CASE StepFire
  <2>. DEFINE path == Last(ledger).path
              marking == Fire(Tree(Current), Current.marking, path, Current.id)
              e == Advanced(Current, marking, Enabled(Tree(Current), Current.marking), path)
  <2>1. /\ At("stepping") /\ ~IsRefused(marking) /\ epochs' = WithLast(e)
        /\ call' = Idle /\ UNCHANGED <<outcome, closed>>
    BY <1>2 DEF StepFire
  <2>2. epochs # <<>>
    BY <2>1 DEF SessionInv, SessionFits, CallFits, At
  <2>3. EpochIs(Current)
    BY <2>2, CurrentIs DEF SessionInv, SessionFits
  <2>4. EpochIs(e)
    BY <2>1, <2>3, EpochAdvances
  <2>. HIDE DEF e
  <2>5. EpochsAre'
    BY <2>1, <2>2, <2>4, LastReplaced DEF SessionInv, SessionFits
  <2>6. PICK activity : Commit(Last(ledger).token, activity)
    BY <1>2 DEF StepFire
  <2>7. LedgerFits'
    BY <2>6, CommitFits DEF SessionInv, SessionFits
  <2>8. QED
    BY <2>1, <2>5, <2>7, CallEnds, StandingsKept DEF SessionInv, SessionFits
<1>3. CASE StepRefused
  <2>1. call' = Idle /\ UNCHANGED <<ledger, epochs, outcome, closed>>
    BY <1>3 DEF StepRefused
  <2>2. QED
    BY <2>1, CallEnds, EpochsKept, LedgerKept, StandingsKept DEF SessionInv, SessionFits
<1>4. QED
  BY <1>1, <1>2, <1>3

\* A rollout begins, waits for the domain, and is left without a commit.
LEMMA RolloutStepsFit ==
  ASSUME SessionInv,
         \/ \E k \in Steps : AdvanceBegin(k)
         \/ \E a \in Actions : SampleAction(a) \/ SampleUnresolved(a) \/ SampleRefused(a)
         \/ \E b \in BOOLEAN : DomainStep(b) \/ DomainRaises(b)
         \/ CommitRaises
  PROVE  SessionFits'
<1>0. /\ DOMAIN call = {"at", "left", "last"} /\ CallFits
      /\ EpochsAre /\ LedgerFits /\ StandingsFit /\ IInv
  BY DEF SessionInv, SessionFits, IInv, CallsIntend
<1>1. ASSUME NEW k \in Steps, AdvanceBegin(k) PROVE SessionFits'
  <2>1. /\ UNCHANGED <<epochs, ledger, outcome, closed>> /\ epochs # <<>>
        /\ call' = [at |-> "sampling", left |-> k, last |-> FALSE]
    BY <1>1 DEF AdvanceBegin
  <2>2. CallFits'
    BY <2>1, StepsAre DEF CallFits
  <2>3. QED
    BY <1>0, <2>1, <2>2, EpochsKept, LedgerKept, StandingsKept DEF SessionFits
<1>2. ASSUME NEW a \in Actions, SampleAction(a) PROVE SessionFits'
  <2>1. /\ UNCHANGED <<epochs, outcome, closed>> /\ At("sampling") /\ call.left > 0
        /\ call' = [call EXCEPT !.at = "acting"]
    BY <1>2 DEF SampleAction
  <2>2. call'.at = "acting" /\ call'.left = call.left /\ call'.last = call.last
    BY <1>0, <2>1
  <2>3. CallFits'
    BY <1>0, <2>1, <2>2 DEF CallFits, At
  <2>4. LedgerFits'
    BY <1>0, <1>2, IntendFits DEF SampleAction
  <2>5. QED
    BY <1>0, <2>1, <2>3, <2>4, EpochsKept, StandingsKept DEF SessionFits
<1>3. ASSUME NEW a \in Actions, SampleUnresolved(a) PROVE SessionFits'
  <2>1. /\ UNCHANGED <<ledger, closed>> /\ At("sampling") /\ call' = Idle /\ Receipt(Current, "BLOCKED")
    BY <1>3 DEF SampleUnresolved
  <2>2. epochs # <<>>
    BY <1>0, <2>1 DEF CallFits, At
  <2>3. EpochsAre' /\ outcome' \in Standings \ {"SUPERSEDED"}
    BY <1>0, <2>1, <2>2, Receipted DEF Standings
  <2>4. StandingsFit'
    BY <1>0, <2>1, <2>3 DEF StandingsFit
  <2>5. QED
    BY <1>0, <2>1, <2>3, <2>4, CallEnds, LedgerKept DEF SessionFits
<1>4. ASSUME \/ \E a \in Actions : SampleRefused(a)
             \/ \E b \in BOOLEAN : DomainRaises(b)
             \/ CommitRaises
      PROVE  SessionFits'
  <2>1. UNCHANGED <<epochs, ledger, outcome, closed>> /\ call' = Idle
    BY <1>4 DEF SampleRefused, DomainRaises, CommitRaises
  <2>2. QED
    BY <1>0, <2>1, CallEnds, EpochsKept, LedgerKept, StandingsKept DEF SessionFits
<1>5. ASSUME NEW b \in BOOLEAN, DomainStep(b) PROVE SessionFits'
  <2>1. /\ UNCHANGED <<epochs, ledger, outcome, closed>> /\ At("acting")
        /\ call' = [call EXCEPT !.at = "committing", !.last = b]
    BY <1>5 DEF DomainStep
  <2>2. call'.at = "committing" /\ call'.left = call.left /\ call'.last = b
    BY <1>0, <2>1
  <2>3. CallFits'
    BY <1>0, <2>1, <2>2 DEF CallFits, At
  <2>4. QED
    BY <1>0, <2>1, <2>3, EpochsKept, LedgerKept, StandingsKept DEF SessionFits
<1>6. QED
  BY <1>1, <1>2, <1>3, <1>4, <1>5

\* A rollout commits.
LEMMA CommitStepsFit ==
  ASSUME SessionInv, AtEpisodeStep \/ AtEpisodeEnd
  PROVE  SessionFits'
<1>0. /\ DOMAIN call = {"at", "left", "last"} /\ CallFits
      /\ EpochsAre /\ LedgerFits /\ StandingsFit /\ IInv
  BY DEF SessionInv, SessionFits, IInv, CallsIntend
<1>1. CASE AtEpisodeStep
  <2>. DEFINE ends == call.last \/ call.left = 1
  <2>1. /\ At("committing") /\ CommitIntent(ends) /\ UNCHANGED closed
        /\ call' = IF ends THEN Idle ELSE [call EXCEPT !.at = "sampling", !.left = call.left - 1]
    BY <1>1 DEF AtEpisodeStep
  <2>2. epochs # <<>> /\ call.left > 0
    BY <1>0, <2>1 DEF CallFits, At
  <2>3. EpochsAre' /\ epochs' # <<>> /\ LedgerFits' /\ outcome' \in Standings \ {"SUPERSEDED"}
    BY <2>1, <2>2, CommitIntentIs
  <2>4. CallFits'
    <3>1. CASE ends
      BY <2>1, <3>1, CallEnds
    <3>2. CASE ~ends
      <4>1. call'.at = "sampling" /\ call'.left = call.left - 1 /\ call'.last = call.last
        BY <1>0, <2>1, <3>2
      <4>2. call.left \in 0..Max(Steps) /\ Max(Steps) \in Nat
        BY <1>0, StepsAre DEF CallFits
      <4>3. call.left - 1 \in 0..Max(Steps)
        BY <2>2, <4>2
      <4>4. QED
        BY <1>0, <2>3, <4>1, <4>3 DEF CallFits
    <3>3. QED
      BY <3>1, <3>2
  <2>5. QED
    BY <1>0, <2>1, <2>3, <2>4 DEF SessionFits, StandingsFit
<1>2. CASE AtEpisodeEnd
  <2>1. At("sampling") /\ call' = Idle /\ UNCHANGED closed
    BY <1>2 DEF AtEpisodeEnd
  <2>2. epochs # <<>>
    BY <1>0, <2>1 DEF CallFits, At
  <2>3. EpochsAre' /\ LedgerFits' /\ outcome' \in Standings \ {"SUPERSEDED"}
    <3>1. CASE pending # NoIntent
      BY <1>2, <2>2, <3>1, CommitIntentIs DEF AtEpisodeEnd
    <3>2. CASE pending = NoIntent
      BY <1>0, <1>2, <2>2, <3>2, Receipted, StandingIs, LedgerKept DEF AtEpisodeEnd
    <3>3. QED
      BY <3>1, <3>2
  <2>4. QED
    BY <1>0, <2>1, <2>3, CallEnds DEF SessionFits, StandingsFit
<1>3. QED
  BY <1>1, <1>2

\* The session itself.
LEMMA SessionStepsFit ==
  ASSUME SessionInv, SealEpoch \/ Close \/ Crash \/ Resume
  PROVE  SessionFits'
<1>0. EpochsAre /\ LedgerFits /\ StandingsFit /\ CallFits
  BY DEF SessionInv, SessionFits
<1>1. CASE SealEpoch
  <2>1. /\ epochs # <<>> /\ Receipt(Current, Standing(Current)) /\ UNCHANGED <<ledger, closed, call>>
    BY <1>1 DEF SealEpoch
  <2>2. EpochsAre' /\ epochs' # <<>> /\ outcome' \in Standings \ {"SUPERSEDED"}
    BY <1>0, <2>1, Receipted, StandingIs
  <2>3. QED
    BY <1>0, <2>1, <2>2, LedgerKept DEF SessionFits, StandingsFit, CallFits
<1>2. CASE Close
  <2>1. UNCHANGED <<ledger, epochs, outcome, call>> /\ closed' = TRUE
    BY <1>2 DEF Close
  <2>2. CallFits'
    BY <1>0, <2>1 DEF CallFits
  <2>3. QED
    BY <1>0, <2>1, <2>2, EpochsKept, LedgerKept DEF SessionFits, StandingsFit
<1>3. CASE Crash
  <2>1. epochs' = <<>> /\ outcome' = "UNKNOWN" /\ closed' = FALSE /\ call' = Down /\ UNCHANGED ledger
    BY <1>3 DEF Crash
  <2>2. EpochsAre'
    <3>1. epochs' \in Seq({})
      BY <2>1
    <3>2. QED
      BY <2>1, <3>1 DEF EpochsAre
  <2>3. StandingsFit'
    BY <2>1 DEF StandingsFit, Standings
  <2>4. QED
    BY <1>0, <2>1, <2>2, <2>3, CallEnds, LedgerKept DEF SessionFits
<1>4. CASE Resume
  <2>1. UNCHANGED <<ledger, epochs, outcome, closed>> /\ call' = Idle
    BY <1>4 DEF Resume
  <2>2. QED
    BY <1>0, <2>1, CallEnds, EpochsKept, LedgerKept, StandingsKept DEF SessionFits
<1>5. QED
  BY <1>1, <1>2, <1>3, <1>4

\* A session starts without epochs.
LEMMA SessionBegins == Init => SessionInv
<1>. SUFFICES ASSUME Init PROVE SessionInv
  OBVIOUS
<1>1. IInv
  BY Begins
<1>2. /\ ledger = <<>> /\ epochs = <<>> /\ outcome = "UNKNOWN" /\ closed = FALSE /\ call = Idle
  BY DEF Init
<1>3. EpochsAre
  <2>1. epochs \in Seq({})
    BY <1>2
  <2>2. QED
    BY <1>2, <2>1 DEF EpochsAre
<1>4. LedgerFits
  <2>1. Len(ledger) = 0 /\ 0 % 2 = 0 /\ MaxRecords \in Nat
    BY <1>2, SessionAssumption
  <2>2. QED
    BY <2>1 DEF LedgerFits
<1>5. CallFits
  <2>1. Idle.at = "idle" /\ Idle.left = 0 /\ Idle.last = FALSE
    BY DEF Idle
  <2>2. 0 \in 0..Max(Steps)
    BY StepsAre
  <2>3. QED
    BY <1>2, <2>1, <2>2 DEF CallFits
<1>6. StandingsFit
  BY <1>2 DEF StandingsFit, Standings
<1>7. QED
  BY <1>1, <1>3, <1>4, <1>5, <1>6 DEF SessionInv, SessionFits

\* The invariant is inductive.
LEMMA SessionKeeps == SessionInv /\ [Next]_vars => SessionInv'
<1>. SUFFICES ASSUME SessionInv, [Next]_vars PROVE SessionInv'
  OBVIOUS
<1>1. IInv'
  BY NextKeeps DEF SessionInv
<1>2. SessionFits'
  <2>1. CASE UNCHANGED vars
    <3>1. EpochsAre' /\ LedgerFits' /\ StandingsFit'
      BY <2>1, EpochsKept, LedgerKept, StandingsKept DEF SessionInv, SessionFits, vars
    <3>2. CallFits'
      BY <2>1 DEF SessionInv, SessionFits, CallFits, vars
    <3>3. QED
      BY <3>1, <3>2 DEF SessionFits
  <2>2. CASE Next
    BY <2>2, EpochStepsFit, StepStepsFit, RolloutStepsFit, CommitStepsFit, SessionStepsFit DEF Next
  <2>3. QED
    BY <2>1, <2>2
<1>3. QED
  BY <1>1, <1>2 DEF SessionInv

\* It says what the types are.
LEMMA SessionInvTypes == SessionInv => TypeOK
<1>. SUFFICES ASSUME SessionInv PROVE TypeOK
  OBVIOUS
<1>0. IInv /\ EpochsAre /\ LedgerFits /\ CallFits /\ StandingsFit
  BY DEF SessionInv, SessionFits
<1>1. Len(ledger) \in Nat /\ DOMAIN ledger = 1..Len(ledger)
  BY <1>0 DEF IInv, Sequential
<1>2. \A i \in DOMAIN ledger : ledger[i].phase \in {"INTENDED", "COMMITTED"} /\ ledger[i].token \in 0..i-1
  <2>1. SUFFICES ASSUME NEW i \in 1..Len(ledger)
                 PROVE  ledger[i].phase \in {"INTENDED", "COMMITTED"} /\ ledger[i].token \in 0..i-1
    BY <1>1
  <2>2. CASE i % 2 = 1
    BY <1>0, <1>1, <2>2 DEF IInv, Alternates
  <2>3. CASE i % 2 = 0
    <3>1. ledger[i].phase = "COMMITTED" /\ ledger[i].token = i - 2
      BY <1>0, <1>1, <2>3 DEF IInv, Alternates
    <3>2. i \in Nat /\ i # 1
      BY <2>3
    <3>3. i - 2 \in 0..i-1
      BY <2>1, <3>2
    <3>4. QED
      BY <3>1, <3>3
  <2>4. QED
    BY <2>2, <2>3
<1>3. \A e \in Range(epochs) :
        /\ e.id.model \in DOMAIN Models /\ e.standing \in Standings
        /\ e.marking.paths \subseteq Leaves(Tree(e))
        /\ \A p \in Composites(Tree(e)) : e.marking.cursor[p] \in 0..Tree(e)[p].n
  BY <1>0 DEF Range, EpochsAre, EpochIs, Fits
<1>4. \A t \in Outstanding : t \in 0..Len(ledger)-1 /\ Len(ledger) - 1 < MaxRecords
  <2>1. SUFFICES ASSUME NEW t \in Outstanding PROVE t \in 0..Len(ledger)-1 /\ Len(ledger) - 1 < MaxRecords
    OBVIOUS
  <2>2. Len(ledger) % 2 = 1 \/ Len(ledger) % 2 = 0
    BY <1>1
  <2>3. Len(ledger) % 2 = 1 /\ t = Len(ledger) - 1
    BY <1>0, <2>1, <2>2, OutstandingIs DEF IInv
  <2>4. Len(ledger) # 0
    BY <2>3
  <2>5. MaxRecords \in Nat
    BY SessionAssumption
  <2>6. QED
    BY <1>0, <1>1, <2>3, <2>4, <2>5 DEF LedgerFits
<1>5. pending.token \in -1..Len(ledger)-1
  <2>1. CASE pending = NoIntent
    BY <1>1, <2>1 DEF NoIntent
  <2>2. CASE pending # NoIntent
    BY <1>0, <1>1, <1>4, <2>2 DEF IInv, Unsettled
  <2>3. QED
    BY <2>1, <2>2
<1>6. performed \subseteq 0..MaxRecords-1
  <2>1. SUFFICES ASSUME NEW t \in performed PROVE t \in 0..MaxRecords-1
    OBVIOUS
  <2>2. t \in 0..Len(ledger)-1 /\ Len(ledger) - 1 < MaxRecords
    BY <1>0, <1>4 DEF IInv, Unsettled
  <2>3. MaxRecords \in Nat
    BY SessionAssumption
  <2>4. QED
    BY <1>1, <2>2, <2>3
<1>7. QED
  BY <1>0, <1>2, <1>3, <1>5, <1>6 DEF TypeOK, CallFits, StandingsFit

\* And a leaf that was fired was entered, below the cap, at least as often.
LEMMA SessionInvCaps == SessionInv => LoopsAreCapped
<1>. SUFFICES ASSUME SessionInv, NEW e \in Range(epochs), NEW p \in Leaves(Tree(e)),
                     p # <<>>, Tree(e)[Front(p)].kind = "ChoiceGraph"
              PROVE  Cardinality(Fired(e, p)) <= MaxNodeVisits
  BY DEF LoopsAreCapped, Fired
<1>1. EpochIs(e)
  BY DEF SessionInv, SessionFits, EpochsAre, Range
<1>2. /\ Cardinality(Fired(e, p)) <= Times(e.marking, p)
      /\ Cardinality(Fired(e, p)) = 0 \/ Times(e.marking, p) <= MaxNodeVisits
  BY <1>1 DEF EpochIs, FiresAreCounted
<1>3. Times(e.marking, p) \in Nat
  BY <1>1, TimesIs, ModelsAre DEF EpochIs, Tree
<1>4. Cardinality(Fired(e, p)) \in Nat
  <2>1. IsFiniteSet(DOMAIN e.choices)
    <3>1. Len(e.choices) \in Nat /\ DOMAIN e.choices = 1..Len(e.choices)
      BY <1>1 DEF EpochIs
    <3>2. QED
      BY <3>1, FS_Interval
  <2>2. Fired(e, p) \subseteq DOMAIN e.choices
    BY DEF Fired
  <2>3. IsFiniteSet(Fired(e, p))
    BY <2>1, <2>2, FS_Subset, Zenon
  <2>4. QED
    BY <2>3, FS_CardinalityType, Zenon
<1>5. MaxNodeVisits \in Nat
  BY ExecutionBoundAssumption
<1>6. QED
  BY <1>2, <1>3, <1>4, <1>5

-----------------------------------------------------------------------------
(* What becomes of an epoch *)

\* The faults are counted.
FaultsAre == faults \in [crashes : Nat, raises : Nat]

\* As long as no domain step raised, an intent is only pending while a rollout
\* waits for the domain, and it has the enabled set of the current marking.
Timely ==
  pending # NoIntent /\ faults.raises = 0 =>
    /\ call.at \in {"acting", "committing"} /\ epochs # <<>>
    /\ pending.live = Enabled(Tree(Current), Current.marking)

\* Two epochs that differ at most in their standing.
SameWork(e, f) == f.id = e.id /\ f.seed = e.seed /\ f.marking = e.marking /\ f.choices = e.choices

\* An epoch of before.
Kept(f) == \E i \in DOMAIN epochs : SameWork(epochs[i], f)

\* An epoch that starts, empty or from a seed.
Begun(f) ==
  \E id, marking :
    /\ id.model \in DOMAIN Models
    /\ LET m == Models[id.model]
       IN marking = InitialMarking(m) \/ marking = SeedMarking(m, InferPreserveMap(m))
    /\ SameWork(Epoch(id, marking), f)

\* The current epoch, one fire on.
WentOn(f) ==
  /\ epochs # <<>>
  /\ \E live, path : LET next == Fire(Tree(Current), Current.marking, path, Current.id) IN
       /\ ~IsRefused(next)
       /\ faults.raises = 0 => live = Enabled(Tree(Current), Current.marking)
       /\ SameWork(Advanced(Current, next, live, path), f)

\* Where every epoch of the next state comes from.
Evolves == \A i \in DOMAIN epochs' : Kept(epochs'[i]) \/ Begun(epochs'[i]) \/ WentOn(epochs'[i])

\* Epochs that are left alone.
LEMMA EvolveKept == UNCHANGED epochs => Evolves
BY DEF Evolves, Kept, SameWork

\* The current epoch is replaced.
LEMMA EvolveLast ==
  ASSUME EpochsAre, epochs # <<>>, NEW e, epochs' = WithLast(e), Kept(e) \/ WentOn(e)
  PROVE  Evolves
<1>1. PICK S : epochs \in Seq(S)
  BY DEF EpochsAre
<1>2. DOMAIN epochs' = DOMAIN epochs /\ \A i \in DOMAIN epochs : epochs'[i] = e \/ epochs'[i] = epochs[i]
  BY <1>1 DEF WithLast
<1>3. QED
  BY <1>2 DEF Evolves, Kept, SameWork

\* A new one is pushed.
LEMMA EvolvePushed ==
  ASSUME EpochsAre, NEW model \in DOMAIN Models, NEW supersedes, NEW preserves, NEW marking,
         \/ marking = InitialMarking(Models[model])
         \/ marking = SeedMarking(Models[model], InferPreserveMap(Models[model])),
         Push(model, supersedes, preserves, marking)
  PROVE  Evolves
<1>. DEFINE id == [index |-> Len(epochs), model |-> model, supersedes |-> supersedes, preserves |-> preserves]
            over(e) == IF e.id \in supersedes THEN [e EXCEPT !.standing = "SUPERSEDED"] ELSE e
            old == [i \in DOMAIN epochs |-> over(epochs[i])]
            new == Epoch(id, marking)
<1>1. epochs' = Append(old, new)
  BY DEF Push
<1>2. Begun(new)
  <2>1. id.model = model
    OBVIOUS
  <2>2. SameWork(new, new)
    BY DEF SameWork
  <2>. HIDE DEF id
  <2>3. QED
    BY <2>1, <2>2 DEF Begun
<1>. HIDE DEF new
<1>3. DOMAIN epochs = 1..Len(epochs) /\ Len(epochs) \in Nat
  BY DEF EpochsAre
<1>4. ASSUME NEW i \in 1..Len(epochs) PROVE Kept(old[i])
  <2>1. EpochIs(epochs[i])
    BY <1>3 DEF EpochsAre
  <2>2. SameWork(epochs[i], [epochs[i] EXCEPT !.standing = "SUPERSEDED"])
    BY <2>1 DEF SameWork, EpochIs
  <2>3. SameWork(epochs[i], epochs[i])
    BY DEF SameWork
  <2>4. QED
    BY <1>3, <2>2, <2>3 DEF Kept
<1>5. DOMAIN old = 1..Len(epochs)
  BY <1>3
<1>. DEFINE S == {old[i] : i \in 1..Len(epochs)} \cup {new}
<1>6. old \in Seq(S) /\ Len(old) = Len(epochs)
  BY <1>3, <1>5
<1>. HIDE DEF old
<1>7. new \in S
  OBVIOUS
<1>. HIDE DEF S
<1>8. DOMAIN epochs' = 1..Len(epochs) + 1
  BY <1>1, <1>3, <1>6, <1>7
<1>9. \A i \in 1..Len(epochs) + 1 : epochs'[i] = IF i = Len(epochs) + 1 THEN new ELSE old[i]
  BY <1>1, <1>3, <1>6, <1>7
<1>10. ASSUME NEW i \in DOMAIN epochs' PROVE Kept(epochs'[i]) \/ Begun(epochs'[i])
  <2>1. i \in 1..Len(epochs) + 1 /\ (i # Len(epochs) + 1 => i \in 1..Len(epochs))
    BY <1>3, <1>8
  <2>2. QED
    BY <1>2, <1>4, <1>9, <2>1
<1>11. QED
  BY <1>10 DEF Evolves

\* A receipt leaves the work of an epoch as it is.
LEMMA ReceiptKept ==
  ASSUME EpochsAre, epochs # <<>>, NEW s, Receipt(Current, s)
  PROVE  Evolves
<1>. DEFINE e == [Current EXCEPT !.standing = s]
<1>1. EpochIs(Current) /\ Len(epochs) \in DOMAIN epochs /\ Current = epochs[Len(epochs)]
  BY CurrentIs DEF Current, Last
<1>2. SameWork(Current, e)
  BY <1>1 DEF EpochIs, SameWork
<1>3. epochs' = WithLast(e)
  BY DEF Receipt
<1>. HIDE DEF e
<1>4. Kept(e)
  BY <1>1, <1>2 DEF Kept
<1>5. QED
  BY <1>3, <1>4, EvolveLast

\* A commit fires the pending path, with the enabled set of its intent.
LEMMA CommitWentOn ==
  ASSUME SessionInv, epochs # <<>>, Timely, pending # NoIntent, NEW ends, CommitIntent(ends)
  PROVE  Evolves
<1>. DEFINE e == Advanced(Current, PendingFire, pending.live, pending.path)
            f == IF ends THEN [e EXCEPT !.standing = Standing(e)] ELSE e
<1>1. ~IsRefused(PendingFire) /\ epochs' = WithLast(f) /\ EpochsAre
  BY DEF CommitIntent, SessionInv, SessionFits
<1>2. EpochIs(Current)
  BY <1>1, CurrentIs
<1>3. DOMAIN e = {"id", "seed", "marking", "choices", "standing"}
  BY <1>2 DEF Advanced, EpochIs
<1>. HIDE DEF e
<1>4. SameWork(e, f)
  BY <1>3 DEF SameWork
<1>. HIDE DEF f
<1>5. faults.raises = 0 => pending.live = Enabled(Tree(Current), Current.marking)
  BY DEF Timely
<1>6. WentOn(f)
  BY <1>1, <1>4, <1>5 DEF WentOn, PendingFire, e
<1>7. QED
  BY <1>1, <1>6, EvolveLast

\* Every step of the session makes one of this of its epochs.
LEMMA NextEvolves ==
  ASSUME SessionInv, Timely, Next
  PROVE  Evolves
<1>0. EpochsAre /\ CallFits /\ IInv
  BY DEF SessionInv, SessionFits
<1>1. ASSUME NEW n \in DOMAIN Models, OpenEpoch(n) PROVE Evolves
  BY <1>0, <1>1, EvolvePushed DEF OpenEpoch
<1>2. ASSUME NEW n \in DOMAIN Models, Replan(n) PROVE Evolves
  <2>. DEFINE seed == SeedMarking(Models[n], InferPreserveMap(Models[n]))
  <2>1. PICK supersedes, preserves : Push(n, supersedes, preserves, seed)
    BY <1>2 DEF Replan
  <2>2. QED
    BY <1>0, <2>1, EvolvePushed
<1>3. CASE StepFire
  <2>. DEFINE path == Last(ledger).path
              live == Enabled(Tree(Current), Current.marking)
              next == Fire(Tree(Current), Current.marking, path, Current.id)
              e == Advanced(Current, next, live, path)
  <2>1. At("stepping") /\ ~IsRefused(next) /\ epochs' = WithLast(e)
    BY <1>3 DEF StepFire
  <2>2. epochs # <<>>
    BY <1>0, <2>1 DEF CallFits, At
  <2>3. SameWork(e, e)
    BY DEF SameWork
  <2>4. WentOn(e)
    BY <2>1, <2>2, <2>3 DEF WentOn
  <2>. HIDE DEF e
  <2>5. QED
    BY <1>0, <2>1, <2>2, <2>4, EvolveLast
<1>4. CASE AtEpisodeStep
  <2>1. PICK ends : CommitIntent(ends)
    BY <1>4 DEF AtEpisodeStep
  <2>2. epochs # <<>> /\ pending # NoIntent
    BY <1>0, <1>4 DEF AtEpisodeStep, CallFits, At, IInv, CallsIntend
  <2>3. QED
    BY <2>1, <2>2, CommitWentOn
<1>5. CASE AtEpisodeEnd
  <2>1. epochs # <<>>
    BY <1>0, <1>5 DEF AtEpisodeEnd, CallFits, At
  <2>2. CASE pending # NoIntent
    BY <1>5, <2>1, <2>2, CommitWentOn DEF AtEpisodeEnd
  <2>3. CASE pending = NoIntent
    BY <1>0, <1>5, <2>1, <2>3, ReceiptKept DEF AtEpisodeEnd
  <2>4. QED
    BY <2>2, <2>3
<1>6. ASSUME (\E a \in Actions : SampleUnresolved(a)) \/ SealEpoch PROVE Evolves
  <2>1. PICK s : Receipt(Current, s)
    BY <1>6 DEF SampleUnresolved, SealEpoch
  <2>2. epochs # <<>>
    BY <1>0, <1>6 DEF SampleUnresolved, SealEpoch, CallFits, At
  <2>3. QED
    BY <1>0, <2>1, <2>2, ReceiptKept
<1>7. ASSUME \/ \E p \in Paths : StepIntend(p)
             \/ StepRefused
             \/ \E k \in Steps : AdvanceBegin(k)
             \/ \E a \in Actions : SampleAction(a) \/ SampleRefused(a)
             \/ \E b \in BOOLEAN : DomainStep(b) \/ DomainRaises(b)
             \/ CommitRaises \/ Close \/ Resume
      PROVE  Evolves
  <2>1. UNCHANGED epochs
    BY <1>7 DEF StepIntend, StepRefused, AdvanceBegin, SampleAction, SampleRefused, DomainStep, DomainRaises,
                CommitRaises, Close, Resume
  <2>2. QED
    BY <2>1, EvolveKept
<1>8. CASE Crash
  <2>1. epochs' = <<>>
    BY <1>8 DEF Crash
  <2>2. QED
    BY <2>1 DEF Evolves
<1>9. QED
  BY <1>1, <1>2, <1>3, <1>4, <1>5, <1>6, <1>7, <1>8 DEF Next

\* Faults are only ever added.
LEMMA FaultsKeep ==
  ASSUME FaultsAre, [Next]_vars
  PROVE  FaultsAre' /\ (faults'.raises = 0 => faults.raises = 0)
<1>1. \/ UNCHANGED faults
      \/ faults' = [faults EXCEPT !.raises = @ + 1]
      \/ faults' = [faults EXCEPT !.crashes = @ + 1]
  BY DEF Next, vars, OpenEpoch, Replan, StepIntend, StepFire, StepRefused, AdvanceBegin, SampleAction,
         SampleUnresolved, SampleRefused, DomainStep, DomainRaises, AtEpisodeStep, AtEpisodeEnd, CommitRaises,
         SealEpoch, Close, Crash, Resume
<1>2. faults.raises \in Nat /\ faults.crashes \in Nat /\ DOMAIN faults = {"crashes", "raises"}
  BY DEF FaultsAre
<1>3. QED
  BY <1>1, <1>2 DEF FaultsAre

\* An intent is written for the current marking, and committed before that changes.
LEMMA TimelyKeeps ==
  ASSUME SessionInv, FaultsAre, Timely, [Next]_vars
  PROVE  Timely'
<1>0. CallFits /\ EpochsAre /\ DOMAIN call = {"at", "left", "last"}
  BY DEF SessionInv, SessionFits, IInv, CallsIntend
<1>1. faults'.raises = 0 => faults.raises = 0
  BY FaultsKeep
<1>2. ASSUME pending' = NoIntent PROVE Timely'
  BY <1>2 DEF Timely
<1>3. ASSUME UNCHANGED pending, call.at \notin {"acting", "committing"} PROVE Timely'
  BY <1>1, <1>3 DEF Timely
<1>4. CASE UNCHANGED vars
  BY <1>4 DEF vars, Timely, Current
<1>5. ASSUME NEW a \in Actions, SampleAction(a) PROVE Timely'
  <2>1. PICK path \in Matches(a) : pending' = [token |-> Len(ledger), path |-> path, live |-> EpochEnabled(Current)]
    BY <1>5 DEF SampleAction
  <2>2. pending'.live = Enabled(Tree(Current), Current.marking)
    BY <2>1 DEF Matches, EpochEnabled
  <2>3. UNCHANGED epochs /\ call'.at = "acting" /\ epochs # <<>>
    BY <1>0, <1>5 DEF SampleAction, CallFits, At
  <2>4. QED
    BY <2>2, <2>3 DEF Timely, Current
<1>6. ASSUME NEW b \in BOOLEAN, DomainStep(b) PROVE Timely'
  <2>1. UNCHANGED <<epochs, pending, faults>> /\ call'.at = "committing"
    BY <1>0, <1>6 DEF DomainStep
  <2>2. QED
    BY <2>1 DEF Timely, Current
<1>7. ASSUME NEW b \in BOOLEAN, DomainRaises(b) PROVE Timely'
  <2>1. faults'.raises # 0
    BY <1>7 DEF DomainRaises, FaultsAre
  <2>2. QED
    BY <2>1 DEF Timely
<1>8. ASSUME AtEpisodeStep \/ AtEpisodeEnd \/ CommitRaises \/ Crash PROVE Timely'
  <2>1. pending' = NoIntent
    BY <1>8 DEF AtEpisodeStep, AtEpisodeEnd, CommitIntent, CommitRaises, Crash
  <2>2. QED
    BY <1>2, <2>1
<1>9. ASSUME \/ \E n \in DOMAIN Models : OpenEpoch(n) \/ Replan(n)
             \/ \E p \in Paths : StepIntend(p)
             \/ StepFire \/ StepRefused
             \/ \E k \in Steps : AdvanceBegin(k)
             \/ \E a \in Actions : SampleUnresolved(a) \/ SampleRefused(a)
             \/ SealEpoch \/ Close \/ Resume
      PROVE  Timely'
  <2>1. UNCHANGED pending /\ call.at \notin {"acting", "committing"}
    BY <1>9 DEF OpenEpoch, Replan, StepIntend, StepFire, StepRefused, AdvanceBegin, SampleUnresolved, SampleRefused,
                SealEpoch, Close, Resume, At
  <2>2. QED
    BY <1>3, <2>1
<1>10. QED
  BY <1>4, <1>5, <1>6, <1>7, <1>8, <1>9 DEF Next

-----------------------------------------------------------------------------
(* Records *)

\* The records of an epoch tell how its marking came from its seed, fire by
\* fire; without their contexts they tell the same but for the occurrences.
\* Each says what was enabled, as long as no domain step raised.
Recorded(e, raises) ==
  LET m == Tree(e)
      n == Len(e.choices)
  IN \E f, g : /\ Runs(f, m, e.choices, e.seed, "own") /\ f[n] = e.marking
               /\ Runs(g, m, e.choices, e.seed, "none") /\ Alike(f[n], g[n])
               /\ raises = 0 => Telling(f, m, e.choices)

\* The invariant of the records.
RecordsInv ==
  /\ SessionInv /\ FaultsAre /\ Timely
  /\ \A i \in DOMAIN epochs : Recorded(epochs[i], faults.raises)

\* Records do not depend on a standing, and what they say while no domain step
\* raised they said before.
LEMMA RecordedSame ==
  ASSUME NEW e, NEW f, SameWork(e, f), NEW raises, NEW later, later = 0 => raises = 0, Recorded(e, raises)
  PROVE  Recorded(f, later)
BY DEF SameWork, Recorded, Tree

\* The marking that an epoch starts with.
LEMMA StartIs ==
  ASSUME NEW m, IsTree(m), NEW marking,
         marking = InitialMarking(m) \/ marking = SeedMarking(m, InferPreserveMap(m))
  PROVE  Fits(m, marking) /\ Arrived(m, marking)
BY InitialIs, SeedIs, PreservedAreLeaves

\* An epoch starts without records.
LEMMA RecordsBegin ==
  ASSUME NEW id, id.model \in DOMAIN Models, NEW marking, NEW raises,
         \/ marking = InitialMarking(Models[id.model])
         \/ marking = SeedMarking(Models[id.model], InferPreserveMap(Models[id.model]))
  PROVE  Recorded(Epoch(id, marking), raises)
<1>. DEFINE e == Epoch(id, marking)
            f == [k \in 0..0 |-> marking]
<1>1. e.id = id /\ e.seed = marking /\ e.marking = marking /\ e.choices = <<>>
  BY DEF Epoch
<1>. HIDE DEF e
<1>2. Tree(e) = Models[id.model] /\ IsTree(Models[id.model])
  BY <1>1, ModelsAre DEF Tree
<1>3. Fits(Tree(e), marking) /\ Arrived(Tree(e), marking)
  BY <1>2, StartIs
<1>4. Len(e.choices) = 0 /\ f[0] = marking
  BY <1>1
<1>. HIDE DEF f
<1>5. \A context : Runs(f, Tree(e), e.choices, e.seed, context)
  BY <1>1, <1>3, <1>4 DEF Runs
<1>6. Alike(f[0], f[0])
  BY <1>3, <1>4 DEF Alike, Fits
<1>7. Recorded(e, raises)
  <2>. DEFINE n == Len(e.choices)
  <2>1. n = 0 /\ f[n] = e.marking /\ Alike(f[n], f[n])
    BY <1>1, <1>4, <1>6
  <2>2. Runs(f, Tree(e), e.choices, e.seed, "own") /\ Runs(f, Tree(e), e.choices, e.seed, "none")
    BY <1>5
  <2>3. Telling(f, Tree(e), e.choices)
    BY <2>1 DEF Telling
  <2>4. QED
    BY <2>1, <2>2, <2>3 DEF Recorded
<1>8. QED
  BY <1>7 DEF e

\* A fire adds its record.
LEMMA RecordsGrow ==
  ASSUME NEW e, EpochIs(e), NEW raises, Recorded(e, raises), NEW path, NEW live,
         ~IsRefused(Fire(Tree(e), e.marking, path, e.id)),
         raises = 0 => live = Enabled(Tree(e), e.marking)
  PROVE  Recorded(Advanced(e, Fire(Tree(e), e.marking, path, e.id), live, path), raises)
<1>. DEFINE m == Tree(e)
            n == Len(e.choices)
            next == Fire(m, e.marking, path, e.id)
            record == ChoiceRecord(live, path, e.id)
            a == Advanced(e, next, live, path)
<1>1. /\ DOMAIN e = {"id", "seed", "marking", "choices", "standing"} /\ IsTree(m)
  BY ModelsAre DEF EpochIs, Tree
<1>2. PICK T : e.choices \in Seq(T)
  BY DEF EpochIs
<1>. DEFINE S == T \cup {record}
<1>3. e.choices \in Seq(S) /\ record \in S /\ n \in Nat
  BY <1>2
<1>4. PICK f, g : /\ Runs(f, m, e.choices, e.seed, "own") /\ f[n] = e.marking
                  /\ Runs(g, m, e.choices, e.seed, "none") /\ Alike(f[n], g[n])
                  /\ raises = 0 => Telling(f, m, e.choices)
  BY DEF Recorded
<1>5. a.id = e.id /\ a.seed = e.seed /\ a.marking = next /\ a.choices = Append(e.choices, record)
  BY <1>1 DEF Advanced
<1>6. /\ record.enabled = live /\ record.chosen = path
      /\ ContextOf(record, "own") = e.id /\ ContextOf(record, "none") = ""
  BY DEF ChoiceRecord, ContextOf
<1>7. Tree(a) = m
  BY <1>5 DEF Tree
<1>. DEFINE after == Fire(m, g[n], path, "")
<1>8. ~IsRefused(next)
  OBVIOUS
<1>9. n \in 0..n
  BY <1>3
<1>10. ~IsRefused(after) /\ Alike(next, after)
  <2>1. Fits(m, f[n])
    BY <1>4, <1>9 DEF Runs
  <2>2. QED
    BY <1>1, <1>4, <1>8, <2>1, FireAlike
<1>. DEFINE ff == [k \in 0..n + 1 |-> IF k = n + 1 THEN next ELSE f[k]]
            gg == [k \in 0..n + 1 |-> IF k = n + 1 THEN after ELSE g[k]]
<1>. HIDE DEF m, S, record, a
<1>11. next = Fire(m, f[n], record.chosen, ContextOf(record, "own"))
  BY <1>4, <1>6
<1>12. after = Fire(m, g[n], record.chosen, ContextOf(record, "none"))
  BY <1>6
<1>. HIDE DEF next, after
<1>13. /\ Runs(ff, m, Append(e.choices, record), e.seed, "own") /\ ff[n + 1] = next
       /\ \A k \in 0..n : ff[k] = f[k]
  BY <1>1, <1>3, <1>4, <1>8, <1>11, RunGrows
<1>14. Runs(gg, m, Append(e.choices, record), e.seed, "none") /\ gg[n + 1] = after
  BY <1>1, <1>3, <1>4, <1>10, <1>12, RunGrows, SMTT(30)
<1>. HIDE DEF ff, gg
<1>15. Len(a.choices) = n + 1 /\ a.choices[n + 1] = record /\ \A k \in 1..n : a.choices[k] = e.choices[k]
  BY <1>3, <1>5
<1>16. ASSUME raises = 0, NEW k \in 1..n + 1
       PROVE  a.choices[k].enabled = Enabled(m, ff[k - 1])
  <2>1. CASE k = n + 1
    <3>1. k - 1 = n
      BY <1>3, <2>1
    <3>2. ff[n] = e.marking
      BY <1>4, <1>9, <1>13
    <3>3. QED
      BY <1>6, <1>15, <1>16, <2>1, <3>1, <3>2 DEF m
  <2>2. CASE k # n + 1
    <3>1. k \in 1..n /\ k - 1 \in 0..n
      BY <1>3, <2>2
    <3>2. QED
      BY <1>4, <1>13, <1>15, <1>16, <3>1 DEF Telling
  <2>3. QED
    BY <2>1, <2>2
<1>. HIDE DEF n
<1>17. raises = 0 => Telling(ff, m, a.choices)
  BY <1>15, <1>16 DEF Telling
<1>18. Recorded(a, raises)
  BY <1>5, <1>7, <1>10, <1>13, <1>14, <1>15, <1>17 DEF Recorded
<1>19. QED
  BY <1>18 DEF a, next, m

\* A session starts without records.
LEMMA RecordsBegins == Init => RecordsInv
<1>. SUFFICES ASSUME Init PROVE RecordsInv
  OBVIOUS
<1>1. SessionInv
  BY SessionBegins
<1>2. FaultsAre /\ Timely /\ epochs = <<>>
  BY DEF Init, FaultsAre, Timely
<1>3. QED
  BY <1>1, <1>2 DEF RecordsInv

\* Every step keeps it: where an epoch comes from says what its records are.
LEMMA RecordsKeep == RecordsInv /\ [Next]_vars => RecordsInv'
<1>. SUFFICES ASSUME RecordsInv, [Next]_vars PROVE RecordsInv'
  OBVIOUS
<1>0. SessionInv /\ FaultsAre /\ Timely /\ \A i \in DOMAIN epochs : Recorded(epochs[i], faults.raises)
  BY DEF RecordsInv
<1>1. SessionInv' /\ FaultsAre' /\ Timely' /\ (faults'.raises = 0 => faults.raises = 0)
  BY <1>0, SessionKeeps, FaultsKeep, TimelyKeeps
<1>2. Evolves
  <2>1. CASE UNCHANGED vars
    BY <2>1, EvolveKept DEF vars
  <2>2. QED
    BY <1>0, <2>1, NextEvolves
<1>3. ASSUME NEW i \in DOMAIN epochs' PROVE Recorded(epochs'[i], faults'.raises)
  <2>. DEFINE f == epochs'[i]
              raises == faults.raises
              later == faults'.raises
  <2>0. Kept(f) \/ Begun(f) \/ WentOn(f)
    BY <1>2 DEF Evolves
  <2>4. later = 0 => raises = 0
    BY <1>1
  <2>. HIDE DEF f, later
  <2>1. CASE Kept(f)
    <3>1. PICK j \in DOMAIN epochs : SameWork(epochs[j], f)
      BY <2>1 DEF Kept
    <3>2. Recorded(epochs[j], raises)
      BY <1>0
    <3>3. Recorded(f, later)
      BY <2>4, <3>1, <3>2, RecordedSame
    <3>4. QED
      BY <3>3 DEF f, later
  <2>2. CASE Begun(f)
    <3>1. PICK id, marking :
             /\ id.model \in DOMAIN Models
             /\ \/ marking = InitialMarking(Models[id.model])
                \/ marking = SeedMarking(Models[id.model], InferPreserveMap(Models[id.model]))
             /\ SameWork(Epoch(id, marking), f)
      BY <2>2 DEF Begun
    <3>2. Recorded(Epoch(id, marking), raises)
      BY <3>1, RecordsBegin
    <3>3. Recorded(f, later)
      BY <2>4, <3>1, <3>2, RecordedSame
    <3>4. QED
      BY <3>3 DEF f, later
  <2>3. CASE WentOn(f)
    <3>. DEFINE m == Tree(Current)
    <3>1. PICK live, path :
             /\ ~IsRefused(Fire(Tree(Current), Current.marking, path, Current.id))
             /\ raises = 0 => live = Enabled(Tree(Current), Current.marking)
             /\ SameWork(Advanced(Current, Fire(Tree(Current), Current.marking, path, Current.id), live, path), f)
      BY <2>3 DEF WentOn
    <3>2. EpochIs(Current) /\ Recorded(Current, raises)
      <4>1. epochs # <<>> /\ EpochsAre
        BY <1>0, <2>3 DEF WentOn, SessionInv, SessionFits
      <4>2. EpochIs(Current) /\ Len(epochs) \in DOMAIN epochs
        BY <4>1, CurrentIs
      <4>3. QED
        BY <1>0, <4>2 DEF Current, Last
    <3>3. Recorded(Advanced(Current, Fire(Tree(Current), Current.marking, path, Current.id), live, path), raises)
      BY <3>1, <3>2, RecordsGrow
    <3>4. Recorded(f, later)
      BY <2>4, <3>1, <3>3, RecordedSame
    <3>5. QED
      BY <3>4 DEF f, later
  <2>5. QED
    BY <2>0, <2>1, <2>2, <2>3 DEF f
<1>4. QED
  BY <1>1, <1>3 DEF RecordsInv

\* An epoch can be run again, from its records and from its events.
EpochReplays(e, raises) ==
  LET m == Tree(e) IN
    /\ raises = 0 => Replay(m, e.choices, e.seed) = e.marking
    /\ Unseeded(e) /\ Unambiguous(m) =>
         (Conforms(m, EventsOf(m, e.choices)) <=> IsFinal(m, e.marking))

\* What its records say lets it.
LEMMA RecordedReplays ==
  ASSUME NEW e, EpochIs(e), NEW raises, Recorded(e, raises)
  PROVE  EpochReplays(e, raises)
<1>. DEFINE m == Tree(e)
            n == Len(e.choices)
<1>1. IsTree(m)
  BY ModelsAre DEF EpochIs, Tree
<1>2. PICK S : e.choices \in Seq(S)
  BY DEF EpochIs
<1>3. PICK f, g : /\ Runs(f, m, e.choices, e.seed, "own") /\ f[n] = e.marking
                  /\ Runs(g, m, e.choices, e.seed, "none") /\ Alike(f[n], g[n])
                  /\ raises = 0 => Telling(f, m, e.choices)
  BY DEF Recorded
<1>. HIDE DEF m
<1>4. ASSUME raises = 0 PROVE Replay(m, e.choices, e.seed) = e.marking
  <2>1. Telling(f, m, e.choices)
    BY <1>3, <1>4
  <2>2. Runs(f, m, e.choices, e.seed, "own") /\ f[n] = e.marking
    BY <1>3
  <2>3. Replay(m, e.choices, e.seed) = f[n]
    BY <1>1, <1>2, <2>1, <2>2, ReplayFollows
  <2>4. QED
    BY <2>2, <2>3
<1>5. ASSUME Unseeded(e), Unambiguous(m)
      PROVE  Conforms(m, EventsOf(m, e.choices)) <=> IsFinal(m, e.marking)
  <2>1. e.seed = InitialMarking(m)
    BY <1>5 DEF Unseeded, m
  <2>2. TokenReplay(m, EventsOf(m, e.choices)) = g[n]
    BY <1>1, <1>2, <1>3, <1>5, <2>1, TokenReplayFollows
  <2>3. ~IsRefused(g[n])
    BY <1>3 DEF Alike, IsRefused
  <2>4. Complete(m, g[n]) = Complete(m, e.marking)
    BY <1>1, <1>3, CompleteAlike
  <2>5. QED
    BY <2>2, <2>3, <2>4 DEF Conforms, IsFinal, IsComplete
<1>6. QED
  BY <1>4, <1>5 DEF EpochReplays, m

\* The invariant says so of every epoch.
LEMMA RecordsInvReplay == RecordsInv => \A e \in Range(epochs) : EpochReplays(e, faults.raises)
<1>. SUFFICES ASSUME RecordsInv, NEW i \in DOMAIN epochs PROVE EpochReplays(epochs[i], faults.raises)
  BY DEF Range
<1>1. EpochIs(epochs[i]) /\ Recorded(epochs[i], faults.raises)
  BY DEF RecordsInv, SessionInv, SessionFits, EpochsAre
<1>2. QED
  BY <1>1, RecordedReplays

\* So of the current one.
LEMMA RecordsInvRecordsReplay == RecordsInv => RecordsReplay
<1>. SUFFICES ASSUME RecordsInv, epochs # <<>> PROVE EpochReplays(Current, faults.raises)
  BY DEF RecordsReplay, EpochReplays
<1>1. Len(epochs) \in DOMAIN epochs
  BY CurrentIs DEF RecordsInv, SessionInv, SessionFits
<1>2. Current \in Range(epochs)
  BY <1>1 DEF Current, Last, Range
<1>3. QED
  BY <1>2, RecordsInvReplay

-----------------------------------------------------------------------------
(* Traversals go on *)

\* A traversal goes on in a tree that lets it, from where it may start.
Lively(e) ==
  Continuable(Tree(e)) /\ (Unseeded(e) \/ Seedable(Tree(e))) => Going(Tree(e), e.marking)

\* The invariant of traversals.
GoingInv == SessionInv /\ FaultsAre /\ Timely /\ \A i \in DOMAIN epochs : Lively(epochs[i])

\* It does not depend on a standing.
LEMMA LivelySame ==
  ASSUME NEW e, NEW f, SameWork(e, f), Lively(e)
  PROVE  Lively(f)
BY DEF SameWork, Lively, Tree, Unseeded

\* A marking that seeds an epoch is one without rounds.
LEMMA SeedFull ==
  ASSUME NEW m, IsTree(m), NEW map, Fits(m, SeedMarking(m, map))
  PROVE  Full(m, SeedMarking(m, map)) /\ \A p \in Composites(m) : SeedMarking(m, map).rounds[p] = 0
<1>. DEFINE selected(p) == {q[Len(p) + 1] : q \in {r \in DOMAIN map : Under(p, r)}}
            choice(p) == m[p].kind = "ChoiceGraph" /\ selected(p) # {}
            cursor == [p \in Composites(m) |-> IF choice(p) THEN Max(selected(p)) ELSE 0]
            visits == [p \in Composites(m) |-> [i \in 0..m[p].n |-> IF choice(p) /\ i \in selected(p) THEN 1 ELSE 0]]
<1>1. SeedMarking(m, map) = Marking(m, Range(map), cursor, visits, Cardinality(DOMAIN map), DOMAIN map)
  BY DEF SeedMarking
<1>. HIDE DEF cursor, visits
<1>2. QED
  BY <1>1, MarkingFull

\* An epoch that starts goes on.
LEMMA LivelyBegins ==
  ASSUME NEW id, id.model \in DOMAIN Models, NEW marking,
         \/ marking = InitialMarking(Models[id.model])
         \/ marking = SeedMarking(Models[id.model], InferPreserveMap(Models[id.model]))
  PROVE  Lively(Epoch(id, marking))
<1>. DEFINE e == Epoch(id, marking)
            m == Models[id.model]
<1>1. e.seed = marking /\ e.marking = marking /\ Tree(e) = m
  BY DEF Epoch, Tree
<1>. HIDE DEF e
<1>2. IsTree(m) /\ WellFormed(m)
  BY SessionAssumption
<1>3. SUFFICES ASSUME Continuable(m), marking = InitialMarking(m) \/ Seedable(m) PROVE Going(m, marking)
  BY <1>1 DEF Lively, Unseeded, e
<1>4. CASE marking = InitialMarking(m)
  BY <1>2, <1>3, <1>4, InitialGoing
<1>5. CASE marking # InitialMarking(m)
  <2>1. Fits(m, marking)
    BY <1>2, StartIs
  <2>2. Full(m, marking) /\ \A p \in Composites(m) : marking.rounds[p] = 0
    BY <1>2, <1>5, <2>1, SeedFull
  <2>3. \A p \in Composites(m) : m[p].freq.min <= 1 /\ m[p].freq.max # 0
    BY <1>3, <1>5 DEF Seedable
  <2>4. QED
    BY <1>2, <2>2, <2>3, OnceGoing
<1>6. QED
  BY <1>4, <1>5

\* And still does one fire on.
LEMMA LivelyGoesOn ==
  ASSUME NEW e, EpochIs(e), Lively(e), NEW path, NEW live, ~IsRefused(Fire(Tree(e), e.marking, path, e.id))
  PROVE  Lively(Advanced(e, Fire(Tree(e), e.marking, path, e.id), live, path))
<1>. DEFINE m == Tree(e)
            next == Fire(m, e.marking, path, e.id)
            a == Advanced(e, next, live, path)
<1>1. IsTree(m) /\ WellFormed(m) /\ Arrived(m, e.marking)
  BY SessionAssumption DEF EpochIs, Tree
<1>2. a.seed = e.seed /\ a.marking = next /\ Tree(a) = m
  BY DEF EpochIs, Advanced, Tree
<1>. HIDE DEF a
<1>3. SUFFICES ASSUME Continuable(m), Unseeded(e) \/ Seedable(m) PROVE Going(m, next)
  BY <1>2 DEF Lively, Unseeded, a
<1>4. Going(m, e.marking)
  BY <1>3 DEF Lively
<1>5. QED
  BY <1>1, <1>3, <1>4, FireGoing

\* A session starts without a traversal.
LEMMA GoingBegins == Init => GoingInv
<1>. SUFFICES ASSUME Init PROVE GoingInv
  OBVIOUS
<1>1. SessionInv
  BY SessionBegins
<1>2. FaultsAre /\ Timely /\ epochs = <<>>
  BY DEF Init, FaultsAre, Timely
<1>3. QED
  BY <1>1, <1>2 DEF GoingInv

\* Every step keeps the traversals going.
LEMMA GoingKeeps == GoingInv /\ [Next]_vars => GoingInv'
<1>. SUFFICES ASSUME GoingInv, [Next]_vars PROVE GoingInv'
  OBVIOUS
<1>0. SessionInv /\ FaultsAre /\ Timely /\ \A i \in DOMAIN epochs : Lively(epochs[i])
  BY DEF GoingInv
<1>1. SessionInv' /\ FaultsAre' /\ Timely'
  BY <1>0, SessionKeeps, FaultsKeep, TimelyKeeps
<1>2. Evolves
  <2>1. CASE UNCHANGED vars
    BY <2>1, EvolveKept DEF vars
  <2>2. QED
    BY <1>0, <2>1, NextEvolves
<1>3. ASSUME NEW i \in DOMAIN epochs' PROVE Lively(epochs'[i])
  <2>. DEFINE f == epochs'[i]
  <2>0. Kept(f) \/ Begun(f) \/ WentOn(f)
    BY <1>2 DEF Evolves
  <2>. HIDE DEF f
  <2>1. CASE Kept(f)
    <3>1. PICK j \in DOMAIN epochs : SameWork(epochs[j], f)
      BY <2>1 DEF Kept
    <3>2. Lively(epochs[j])
      BY <1>0
    <3>3. QED
      BY <3>1, <3>2, LivelySame DEF f
  <2>2. CASE Begun(f)
    <3>1. PICK id, marking :
             /\ id.model \in DOMAIN Models
             /\ \/ marking = InitialMarking(Models[id.model])
                \/ marking = SeedMarking(Models[id.model], InferPreserveMap(Models[id.model]))
             /\ SameWork(Epoch(id, marking), f)
      BY <2>2 DEF Begun
    <3>2. Lively(Epoch(id, marking))
      BY <3>1, LivelyBegins
    <3>3. QED
      BY <3>1, <3>2, LivelySame DEF f
  <2>3. CASE WentOn(f)
    <3>1. PICK live, path :
             /\ ~IsRefused(Fire(Tree(Current), Current.marking, path, Current.id))
             /\ SameWork(Advanced(Current, Fire(Tree(Current), Current.marking, path, Current.id), live, path), f)
      BY <2>3 DEF WentOn
    <3>2. EpochIs(Current) /\ Lively(Current)
      <4>1. epochs # <<>> /\ EpochsAre
        BY <1>0, <2>3 DEF WentOn, SessionInv, SessionFits
      <4>2. EpochIs(Current) /\ Len(epochs) \in DOMAIN epochs
        BY <4>1, CurrentIs
      <4>3. QED
        BY <1>0, <4>2 DEF Current, Last
    <3>3. Lively(Advanced(Current, Fire(Tree(Current), Current.marking, path, Current.id), live, path))
      BY <3>1, <3>2, LivelyGoesOn
    <3>4. QED
      BY <3>1, <3>3, LivelySame DEF f
  <2>4. QED
    BY <2>0, <2>1, <2>2, <2>3 DEF f
<1>4. QED
  BY <1>1, <1>3 DEF GoingInv

\* An epoch has a next step, unless it is at its end.
NeverDeadlocked(e) ==
  LET m == Tree(e) IN
    Continuable(m) /\ (Unseeded(e) \/ Seedable(m)) /\ ~IsFinal(m, e.marking) =>
      EnabledUnder(m, e.marking, NoCap) # {}

\* The invariant says so of every epoch.
LEMMA GoingInvDeadlock == GoingInv => \A e \in Range(epochs) : NeverDeadlocked(e)
<1>. SUFFICES ASSUME GoingInv, NEW i \in DOMAIN epochs PROVE NeverDeadlocked(epochs[i])
  BY DEF Range
<1>1. EpochIs(epochs[i]) /\ Lively(epochs[i])
  BY DEF GoingInv, SessionInv, SessionFits, EpochsAre
<1>2. IsTree(Tree(epochs[i])) /\ WellFormed(Tree(epochs[i]))
  BY <1>1, SessionAssumption DEF EpochIs, Tree
<1>3. QED
  BY <1>1, <1>2, NoDeadlock DEF NeverDeadlocked, Lively

\* So of the current one.
LEMMA GoingInvOnlyBounds == GoingInv => OnlyBoundsStopATraversal
<1>. SUFFICES ASSUME GoingInv, epochs # <<>> PROVE NeverDeadlocked(Current)
  BY DEF OnlyBoundsStopATraversal, NeverDeadlocked
<1>1. Len(epochs) \in DOMAIN epochs
  BY CurrentIs DEF GoingInv, SessionInv, SessionFits
<1>2. Current \in Range(epochs)
  BY <1>1 DEF Current, Last, Range
<1>3. QED
  BY <1>2, GoingInvDeadlock

-----------------------------------------------------------------------------
(* Theorems *)

\* The ledger is written ahead of the domain: every intent is settled before
\* the next is written, an effect has its intent on record until its commit,
\* and no session closes or starts over an effect that is not committed.
THEOREM LedgerIsWrittenAhead == Spec => WriteAhead
BY Begins, NextKeeps, IInvAlternates, PTL DEF Spec, WriteAhead

\* The types of a session.  A call that is under way has an epoch to work on,
\* the marking of every epoch fits its tree, no line of the ledger is written
\* beyond its room, whatever is opened, replanned, raised or crashed.
THEOREM TypeCorrect == Spec => []TypeOK
BY SessionBegins, SessionKeeps, SessionInvTypes, PTL DEF Spec

\* No leaf of a choice graph runs more often in one epoch than max_node_visits,
\* for every tree, however its loops, repetitions and choices are nested, and
\* also when the epoch was seeded by a replan: the visits that fire counts
\* survive every purge of enter and every bank of close_rounds.
THEOREM LoopsStayCapped == Spec => []LoopsAreCapped
BY SessionBegins, SessionKeeps, SessionInvCaps, PTL DEF Spec

\* What an epoch records suffices to run it again, between calls: for every set
\* of trees, whatever is repeated, revisited or seeded, replay derives the
\* marking from the seed and the records while no domain step raised, and token
\* replay of the events of an epoch that started empty ends where the epoch is,
\* so that they conform exactly when the tree is complete.
THEOREM RecordsSuffice == Spec => []RecordsReplay
BY RecordsBegins, RecordsKeep, RecordsInvRecordsReplay, PTL DEF Spec

\* The same of every epoch in the stack, superseded ones too, and within calls.
THEOREM EveryEpochReplays == Spec => [](\A e \in Range(epochs) : EpochReplays(e, faults.raises))
BY RecordsBegins, RecordsKeep, RecordsInvReplay, PTL DEF Spec

\* A traversal never runs into a structural deadlock: in every tree whose
\* orders have a child that must run and whose choice graphs lead on, however
\* deep, and whatever is repeated, a marking that is not complete enables a leaf
\* if the visit cap is set aside; so classify_stall can only name a bound.  Also
\* from a seed, where each order runs at most one round that is required.
THEOREM TraversalsGoOn == Spec => []OnlyBoundsStopATraversal
BY GoingBegins, GoingKeeps, GoingInvOnlyBounds, PTL DEF Spec
=============================================================================
