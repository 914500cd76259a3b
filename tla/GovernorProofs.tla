--------------------------- MODULE GovernorProofs ---------------------------
(***************************************************************************)
(* Theorems of Governor, for every set of jobs (an infinite one too), every *)
(* assignment of keys to them and every length of a run.                   *)
(*                                                                         *)
(* The invariant adds to the properties what makes them inductive: a call  *)
(* under way has taken its job to Running; the table holds a result for a  *)
(* key exactly when one was answered; a result that is about to be recorded *)
(* is counted with those that were; and a key that was never raced has one *)
(* operation at most, and none once it has an answer.                      *)
(***************************************************************************)
EXTENDS Governor, FiniteSetTheorems, TLAPS

USE GovernorAssumption

Busy(j) == pc[j] \in {"running", "recording"}

\* The results that answer under key k, or are about to.
Produced(k) == answers[k] \cup {returned[j] : j \in {i \in Jobs : pc[i] = "recording" /\ KeyOf[i] = k}}

BusyJobsRun == \A j \in Jobs : Busy(j) => state[j] = "Running"

AnswersAreShared ==
  \A j \in Jobs : state[j] = "Succeeded" => KeyOf[j] \in Keys /\ result[j] \in answers[KeyOf[j]]

TableAnswers ==
  \A k \in Keys : /\ completed[k] # NoResult => completed[k] \in answers[k]
                  /\ answers[k] # {} => completed[k] # NoResult

ProductionCounted ==
  \A k \in Keys : IsFiniteSet(Produced(k)) /\ Cardinality(Produced(k)) <= succeeded[k]

OneOperation ==
  \A i, j \in Jobs : Busy(i) /\ Busy(j) /\ KeyOf[i] = KeyOf[j] /\ KeyOf[i] \notin raced => i = j

UnracedAnswersOnce ==
  \A k \in Keys \ raced : /\ answers[k] \subseteq {completed[k]}
                          /\ \A j \in Jobs : Busy(j) /\ KeyOf[j] = k => answers[k] = {}

IInv ==
  TypeOK /\ BusyJobsRun /\ AnswersAreShared /\ TableAnswers /\ ProductionCounted
         /\ OneOperation /\ UnracedAnswersOnce

-----------------------------------------------------------------------------
(* Types.                                                                  *)

\* Only execute's own steps change anything.
LEMMA TypeStep == TypeOK /\ [Next]_vars => TypeOK'
<1>. SUFFICES ASSUME TypeOK, [Next]_vars PROVE TypeOK'
  OBVIOUS
<1>. USE DEF TypeOK, JobStates
<1>1. ASSUME NEW j \in Jobs, RefuseKey(j) PROVE TypeOK'
  BY <1>1 DEF RefuseKey, Called, Becomes, callVars
<1>2. ASSUME NEW j \in Jobs, NEW granted \in Authorities, DenyAuthority(j, granted) PROVE TypeOK'
  BY <1>2 DEF DenyAuthority, Called, Becomes, callVars
<1>3. ASSUME NEW j \in Jobs, NEW granted \in Authorities, Admit(j, granted) PROVE TypeOK'
  BY <1>3 DEF Admit, Called, Goto, jobVars
<1>4. ASSUME NEW j \in Jobs, Replay(j) PROVE TypeOK'
  BY <1>4 DEF Replay, Goto, Answer, Becomes
<1>5. ASSUME NEW j \in Jobs, Start(j) PROVE TypeOK'
  BY <1>5 DEF Start, Goto, Becomes, NotesRace
<1>6. ASSUME NEW j \in Jobs, OperationSucceeds(j) PROVE TypeOK'
  BY <1>6 DEF OperationSucceeds, Goto, jobVars
<1>7. ASSUME NEW j \in Jobs, OperationFails(j) \/ TimesOut(j) PROVE TypeOK'
  BY <1>7 DEF OperationFails, TimesOut, Goto, Becomes, historyVars
<1>8. ASSUME NEW j \in Jobs, Record(j) PROVE TypeOK'
  BY <1>8 DEF Record, Goto, Answer, Becomes
<1>9. ASSUME NEW j \in Jobs, Cancel(j) PROVE TypeOK'
  BY <1>9 DEF Cancel, Goto, jobVars, historyVars
<1>10. CASE UNCHANGED vars
  BY <1>10 DEF vars, jobVars, callVars, historyVars
<1>11. QED
  BY <1>1, <1>2, <1>3, <1>4, <1>5, <1>6, <1>7, <1>8, <1>9, <1>10 DEF Next, Execute

-----------------------------------------------------------------------------
(* The invariant is inductive: one lemma for each of its parts.            *)

\* What the history of answers and the table have to do with jobs and calls
\* is the same for every step that neither starts an operation nor answers.
Quiet == UNCHANGED <<completed, answers, result, raced>>

\* Every step is quiet and makes no job busy, or it starts, records or replays.
LEMMA Steps ==
  ASSUME TypeOK, [Next]_vars
  PROVE  \/ /\ Quiet
            /\ \A i \in Jobs : Busy(i)' => Busy(i) /\ UNCHANGED state[i]
            /\ \A i \in Jobs : state'[i] = "Succeeded" => state[i] = "Succeeded"
         \/ \E j \in Jobs : Start(j) \/ Record(j) \/ Replay(j)
<1>. USE DEF TypeOK, Quiet, Busy, Becomes, Goto
<1>. DEFINE Harmless == /\ Quiet
                        /\ \A i \in Jobs : Busy(i)' => Busy(i) /\ UNCHANGED state[i]
                        /\ \A i \in Jobs : state'[i] = "Succeeded" => state[i] = "Succeeded"
<1>1. ASSUME NEW j \in Jobs, RefuseKey(j) PROVE Harmless
  BY <1>1 DEF RefuseKey, Called, callVars
<1>2. ASSUME NEW j \in Jobs, NEW granted \in Authorities, DenyAuthority(j, granted) \/ Admit(j, granted)
      PROVE  Harmless
  BY <1>2 DEF DenyAuthority, Admit, Called, jobVars, callVars
<1>3. ASSUME NEW j \in Jobs,
             OperationSucceeds(j) \/ OperationFails(j) \/ TimesOut(j) \/ Cancel(j)
      PROVE  Harmless
  BY <1>3 DEF OperationSucceeds, OperationFails, TimesOut, Cancel, jobVars, historyVars
<1>4. CASE UNCHANGED vars
  BY <1>4 DEF vars, jobVars, callVars, historyVars
<1>5. QED
  BY <1>1, <1>2, <1>3, <1>4 DEF Next, Execute

LEMMA BusyJobsRunStep == ASSUME IInv, [Next]_vars PROVE BusyJobsRun'
<1>. USE DEF IInv, TypeOK, BusyJobsRun, Busy, Goto
<1>1. ASSUME NEW j \in Jobs, Start(j) PROVE BusyJobsRun'
  BY <1>1 DEF Start, Becomes
<1>2. ASSUME NEW j \in Jobs, Record(j) \/ Replay(j) PROVE BusyJobsRun'
  BY <1>2 DEF Record, Replay, Answer, Becomes
<1>3. QED
  BY <1>1, <1>2, Steps

LEMMA AnswersAreSharedStep == ASSUME IInv, [Next]_vars PROVE AnswersAreShared'
<1>. USE DEF IInv, TypeOK, AnswersAreShared, Becomes
<1>1. ASSUME NEW j \in Jobs, Start(j) PROVE AnswersAreShared'
  BY <1>1 DEF Start
<1>2. ASSUME NEW j \in Jobs, Record(j) \/ Replay(j) PROVE AnswersAreShared'
  BY <1>2 DEF Record, Replay, Answer, Goto
<1>3. QED
  BY <1>1, <1>2, Steps DEF Quiet

LEMMA TableAnswersStep == ASSUME IInv, [Next]_vars PROVE TableAnswers'
<1>. USE DEF IInv, TypeOK, TableAnswers
<1>1. ASSUME NEW j \in Jobs, Start(j) PROVE TableAnswers'
  BY <1>1 DEF Start
<1>2. ASSUME NEW j \in Jobs, Record(j) PROVE TableAnswers'
  BY <1>2 DEF Record, Answer, Goto
<1>3. ASSUME NEW j \in Jobs, Replay(j) PROVE TableAnswers'
  BY <1>3 DEF Replay, Answer, Goto
<1>4. QED
  BY <1>1, <1>2, <1>3, Steps DEF Quiet

\* A start is noted as a race whenever another operation is under way.
LEMMA OneOperationStep == ASSUME IInv, [Next]_vars PROVE OneOperation'
<1>. USE DEF IInv, TypeOK, OneOperation, Busy, Goto
<1>1. ASSUME NEW j \in Jobs, Start(j) PROVE OneOperation'
  BY <1>1 DEF Start, NotesRace, InFlight
<1>2. ASSUME NEW j \in Jobs, Record(j) \/ Replay(j) PROVE OneOperation'
  BY <1>2 DEF Record, Replay
<1>3. QED
  BY <1>1, <1>2, Steps DEF Quiet

LEMMA UnracedAnswersOnceStep == ASSUME IInv, [Next]_vars PROVE UnracedAnswersOnce'
<1>. USE DEF IInv, TypeOK, UnracedAnswersOnce, Busy, Goto
<1>1. ASSUME NEW j \in Jobs, Start(j) PROVE UnracedAnswersOnce'
  BY <1>1 DEF Start, NotesRace, TableAnswers
<1>2. ASSUME NEW j \in Jobs, Record(j) PROVE UnracedAnswersOnce'
  BY <1>2 DEF Record, Answer, OneOperation
<1>3. ASSUME NEW j \in Jobs, Replay(j) PROVE UnracedAnswersOnce'
  <2>1. answers' = answers
    BY <1>3 DEF Replay, Answer, TableAnswers
  <2>2. QED
    BY <1>3, <2>1 DEF Replay
<1>4. QED
  BY <1>1, <1>2, <1>3, Steps DEF Quiet

\* What is left of a finite set that is small enough, and what one element
\* more makes of it.
LEMMA Fewer ==
  ASSUME NEW S, NEW T, NEW n \in Nat, IsFiniteSet(S), Cardinality(S) <= n, T \subseteq S
  PROVE  IsFiniteSet(T) /\ Cardinality(T) <= n
BY FS_Subset, FS_CardinalityType

LEMMA OneMore ==
  ASSUME NEW S, NEW T, NEW n \in Nat, NEW r, IsFiniteSet(S), Cardinality(S) <= n, T \subseteq S \cup {r}
  PROVE  IsFiniteSet(T) /\ Cardinality(T) <= n + 1
<1>1. IsFiniteSet(S \cup {r}) /\ Cardinality(S \cup {r}) <= n + 1
  <2>1. Cardinality(S) \in Nat
    BY FS_CardinalityType
  <2>2. /\ IsFiniteSet(S \cup {r})
        /\ Cardinality(S \cup {r}) = IF r \in S THEN Cardinality(S) ELSE Cardinality(S) + 1
    BY FS_AddElement, Zenon
  <2>3. QED
    BY <2>1, <2>2
<1>2. n + 1 \in Nat
  OBVIOUS
<1>3. QED
  BY <1>1, <1>2, Fewer

\* Only an operation that returns Ok adds to what is produced under a key, and
\* the history counts it.
LEMMA ProductionCountedStep == ASSUME IInv, [Next]_vars PROVE ProductionCounted'
<1>. USE DEF IInv, TypeOK, Goto
<1>. DEFINE Kept == \A k \in Keys : Produced(k)' \subseteq Produced(k) /\ UNCHANGED succeeded
<1>1. ASSUME NEW j \in Jobs, RefuseKey(j) PROVE Kept
  BY <1>1 DEF RefuseKey, Produced, callVars
<1>2. ASSUME NEW j \in Jobs, NEW granted \in Authorities, DenyAuthority(j, granted) \/ Admit(j, granted)
      PROVE  Kept
  BY <1>2 DEF DenyAuthority, Admit, Produced, callVars
<1>3. ASSUME NEW j \in Jobs, Replay(j) PROVE Kept
  BY <1>3 DEF Replay, Answer, TableAnswers, Produced
<1>4. ASSUME NEW j \in Jobs, Start(j) PROVE Kept
  BY <1>4 DEF Start, Produced
<1>5. ASSUME NEW j \in Jobs, OperationFails(j) \/ TimesOut(j) PROVE Kept
  BY <1>5 DEF OperationFails, TimesOut, Produced, historyVars
<1>6. ASSUME NEW j \in Jobs, Cancel(j) PROVE Kept
  BY <1>6 DEF Cancel, Produced, historyVars
<1>7. ASSUME NEW j \in Jobs, Record(j) PROVE Kept
  <2>1. \A k \in Keys : \A r \in answers'[k] : r \in answers[k] \/ (k = KeyOf[j] /\ r = returned[j])
    BY <1>7 DEF Record, Answer
  <2>2. \A i \in Jobs : pc'[i] = "recording" => pc[i] = "recording" /\ returned'[i] = returned[i]
    BY <1>7 DEF Record
  <2>3. returned[j] \in Produced(KeyOf[j])
    BY <1>7 DEF Record, Produced
  <2>4. ASSUME NEW k \in Keys, NEW x \in Produced(k)'
        PROVE  x \in Produced(k)
    <3>1. CASE x \in answers'[k]
      <4>1. answers[k] \subseteq Produced(k)
        BY DEF Produced
      <4>2. x \in answers[k] \/ (k = KeyOf[j] /\ x = returned[j])
        BY <2>1, <3>1, Zenon
      <4>3. QED
        BY <2>3, <4>1, <4>2, Zenon
    <3>2. CASE x \notin answers'[k]
      BY <2>2, <2>4, <3>2 DEF Produced
    <3>3. QED
      BY <3>1, <3>2
  <2>5. succeeded' = succeeded
    BY <1>7 DEF Record
  <2>6. QED
    BY <2>4, <2>5
<1>8. ASSUME UNCHANGED vars PROVE Kept
  BY <1>8 DEF Produced, vars, callVars, historyVars
<1>9. CASE Kept
  <2>1. TypeOK'
    BY TypeStep
  <2>2. ASSUME NEW k \in Keys
        PROVE  IsFiniteSet(Produced(k)') /\ Cardinality(Produced(k)') <= succeeded'[k]
    <3>1. /\ IsFiniteSet(Produced(k)) /\ Cardinality(Produced(k)) <= succeeded[k]
          /\ Produced(k)' \subseteq Produced(k) /\ succeeded'[k] = succeeded[k] /\ succeeded[k] \in Nat
      BY <1>9 DEF ProductionCounted
    <3>2. QED
      BY <3>1, Fewer, Zenon
  <2>3. QED
    BY <2>2 DEF ProductionCounted
<1>10. ASSUME NEW j \in Jobs, OperationSucceeds(j) PROVE ProductionCounted'
  <2>1. PICK r \in Results : returned' = [returned EXCEPT ![j] = r]
    BY <1>10 DEF OperationSucceeds
  <2>2. KeyOf[j] \in Keys
    BY <1>10 DEF OperationSucceeds
  <2>3. ASSUME NEW k \in Keys, k # KeyOf[j]
        PROVE  Produced(k)' = Produced(k) /\ succeeded'[k] = succeeded[k]
    BY <1>10, <2>1, <2>3 DEF OperationSucceeds, Produced
  <2>4. /\ Produced(KeyOf[j])' \subseteq Produced(KeyOf[j]) \cup {r}
        /\ succeeded'[KeyOf[j]] = succeeded[KeyOf[j]] + 1
    BY <1>10, <2>1, <2>2 DEF OperationSucceeds, Produced
  <2>5. /\ IsFiniteSet(Produced(KeyOf[j])) /\ Cardinality(Produced(KeyOf[j])) <= succeeded[KeyOf[j]]
        /\ succeeded[KeyOf[j]] \in Nat
    BY <2>2 DEF ProductionCounted
  <2>6. IsFiniteSet(Produced(KeyOf[j])') /\ Cardinality(Produced(KeyOf[j])') <= succeeded'[KeyOf[j]]
    <3>1. IsFiniteSet(Produced(KeyOf[j])') /\ Cardinality(Produced(KeyOf[j])') <= succeeded[KeyOf[j]] + 1
      BY <2>4, <2>5, OneMore, Zenon
    <3>2. QED
      BY <2>4, <3>1
  <2>7. QED
    BY <2>3, <2>6 DEF ProductionCounted
<1>11. QED
  BY <1>1, <1>2, <1>3, <1>4, <1>5, <1>6, <1>7, <1>8, <1>9, <1>10 DEF Next, Execute

-----------------------------------------------------------------------------
(* Theorems.                                                               *)

LEMMA Initially == Init => IInv
<1>. SUFFICES ASSUME Init PROVE IInv
  OBVIOUS
<1>1. \A k \in Keys : Produced(k) = {} /\ succeeded[k] = 0
  BY DEF Init, Produced
<1>2. ProductionCounted
  <2>1. IsFiniteSet({}) /\ Cardinality({}) = 0
    BY FS_EmptySet
  <2>2. \A k \in Keys : IsFiniteSet(Produced(k)) /\ Cardinality(Produced(k)) = 0
    BY <1>1, <2>1, Zenon
  <2>3. QED
    BY <1>1, <2>2 DEF ProductionCounted
<1>3. QED
  BY <1>2 DEF IInv, Init, TypeOK, JobStates, BusyJobsRun, AnswersAreShared, TableAnswers,
              OneOperation, UnracedAnswersOnce, Busy

LEMMA Inductive == IInv /\ [Next]_vars => IInv'
<1>. SUFFICES ASSUME IInv, [Next]_vars PROVE IInv'
  OBVIOUS
<1>1. TypeOK'
  BY TypeStep DEF IInv
<1>2. QED
  BY <1>1, BusyJobsRunStep, AnswersAreSharedStep, TableAnswersStep, ProductionCountedStep,
     OneOperationStep, UnracedAnswersOnceStep DEF IInv

LEMMA Invariance == Spec => []IInv
BY Initially, Inductive, PTL DEF Spec

\* Every variable of the runtime stays in its type, and exactly the calls that
\* wait to record hold a result.
THEOREM TypeCorrect == Spec => []TypeOK
<1>1. IInv => TypeOK
  BY DEF IInv
<1>2. QED
  BY <1>1, Invariance, PTL

\* A job that execute leaves Succeeded carries a result that was answered for
\* its key; the table holds one, and an operation returned Ok.
THEOREM SuccessesAreRecorded == Spec => []SuccessIsRecorded
<1>1. ASSUME IInv, NEW j \in Jobs, state[j] = "Succeeded"
      PROVE  /\ result[j] \in answers[KeyOf[j]]
             /\ completed[KeyOf[j]] \in answers[KeyOf[j]]
             /\ succeeded[KeyOf[j]] > 0
  <2>1. KeyOf[j] \in Keys /\ result[j] \in answers[KeyOf[j]]
    BY <1>1 DEF IInv, AnswersAreShared
  <2>2. completed[KeyOf[j]] \in answers[KeyOf[j]]
    BY <1>1, <2>1 DEF IInv, TableAnswers
  <2>3. Produced(KeyOf[j]) # {}
    BY <2>1 DEF Produced
  <2>4. succeeded[KeyOf[j]] > 0
    BY <1>1, <2>1, <2>3, FS_EmptySet, FS_CardinalityType DEF IInv, TypeOK, ProductionCounted
  <2>5. QED
    BY <2>1, <2>2, <2>4
<1>2. IInv => SuccessIsRecorded
  BY <1>1 DEF SuccessIsRecorded
<1>3. QED
  BY <1>2, Invariance, PTL

\* Racing, cancelled and timed-out calls under one key never answer in more
\* ways than operations under it returned Ok.
THEOREM NoAnswerIsMadeUp == Spec => []AnswersAreProduced
<1>1. ASSUME IInv, NEW k \in Keys
      PROVE  Cardinality(answers[k]) <= succeeded[k]
  <2>1. answers[k] \subseteq Produced(k)
    BY DEF Produced
  <2>2. QED
    <3>1. IsFiniteSet(Produced(k)) /\ Cardinality(Produced(k)) <= succeeded[k] /\ succeeded[k] \in Nat
      BY <1>1 DEF IInv, TypeOK, ProductionCounted
    <3>2. QED
      BY <2>1, <3>1, Fewer
<1>2. IInv => AnswersAreProduced
  BY <1>1 DEF AnswersAreProduced
<1>3. QED
  BY <1>2, Invariance, PTL

\* As long as no two operations under a key overlap, execute answers it in one
\* way, whatever fails, times out or is dropped.
THEOREM UnracedKeysAnswerOnce == Spec => []OneAnswerUnlessRaced
<1>1. ASSUME IInv, NEW k \in Keys \ raced
      PROVE  Cardinality(answers[k]) <= 1
  <2>1. answers[k] \subseteq {completed[k]}
    BY <1>1 DEF IInv, UnracedAnswersOnce
  <2>2. QED
    <3>1. IsFiniteSet({completed[k]}) /\ Cardinality({completed[k]}) = 1
      BY FS_Singleton
    <3>2. QED
      BY <2>1, <3>1, Fewer
<1>2. IInv => OneAnswerUnlessRaced
  BY <1>1 DEF OneAnswerUnlessRaced
<1>3. QED
  BY <1>2, Invariance, PTL

\* execute never runs a job again that has succeeded: the result it was left
\* with is in the table, under its key, for good.
THEOREM SuccessIsFinal == Spec => SucceededJobsNeverRerun
<1>1. ASSUME IInv, [Next]_vars, NEW j \in Jobs, state[j] = "Succeeded"
      PROVE  state'[j] \in {"Succeeded", "AwaitingAuthority"} /\ attempts'[j] = attempts[j]
  <2>. USE DEF IInv, TypeOK, Goto, Becomes
  <2>1. KeyOf[j] \in Keys /\ completed[KeyOf[j]] # NoResult /\ ~Busy(j)
    BY <1>1 DEF AnswersAreShared, TableAnswers, BusyJobsRun
  <2>2. ASSUME NEW i \in Jobs, RefuseKey(i)
        PROVE  state'[j] = state[j] /\ attempts' = attempts
    BY <1>1, <2>1, <2>2 DEF RefuseKey
  <2>3. ASSUME NEW i \in Jobs, NEW granted \in Authorities, DenyAuthority(i, granted) \/ Admit(i, granted)
        PROVE  state'[j] \in {state[j], "AwaitingAuthority"} /\ attempts' = attempts
    BY <1>1, <2>3 DEF DenyAuthority, Admit, jobVars
  <2>4. ASSUME NEW i \in Jobs, Replay(i) \/ Record(i)
        PROVE  state'[j] \in {state[j], "Succeeded"} /\ attempts' = attempts
    BY <1>1, <2>4 DEF Replay, Record, Answer
  <2>5. ASSUME NEW i \in Jobs, Start(i)
        PROVE  state'[j] = state[j] /\ attempts'[j] = attempts[j]
    BY <1>1, <2>1, <2>5 DEF Start
  <2>6. ASSUME NEW i \in Jobs, OperationSucceeds(i) \/ Cancel(i)
        PROVE  state' = state /\ attempts' = attempts
    BY <2>6 DEF OperationSucceeds, Cancel, jobVars
  <2>7. ASSUME NEW i \in Jobs, OperationFails(i) \/ TimesOut(i)
        PROVE  state'[j] = state[j] /\ attempts' = attempts
    BY <1>1, <2>1, <2>7 DEF OperationFails, TimesOut, Busy
  <2>8. CASE UNCHANGED vars
    BY <1>1, <2>8 DEF vars, jobVars
  <2>9. QED
    BY <1>1, <2>2, <2>3, <2>4, <2>5, <2>6, <2>7, <2>8 DEF Next, Execute
<1>2. IInv /\ [Next]_vars =>
        [\A j \in Jobs : state[j] = "Succeeded" =>
           state'[j] \in {"Succeeded", "AwaitingAuthority"} /\ attempts'[j] = attempts[j]]_vars
  BY <1>1
<1>3. QED
  BY <1>2, Invariance, PTL DEF Spec, SucceededJobsNeverRerun

\* Only a lookup that finds no result starts an operation, so a key that has a
\* result starts none.
THEOREM CompletionStopsStarts == Spec => CompletedKeysStartNothing
<1>1. ASSUME IInv, [Next]_vars, NEW k \in Keys, completed[k] # NoResult,
             NEW j \in Jobs, KeyOf[j] = k, pc'[j] = "running"
      PROVE  pc[j] = "running"
  <2>1. ~ \E i \in Jobs : Start(i) /\ i = j
    BY <1>1 DEF Start
  <2>2. QED
    BY <1>1, <2>1
       DEF Next, Execute, RefuseKey, DenyAuthority, Admit, Replay, Start, OperationSucceeds,
           OperationFails, TimesOut, Record, Cancel, Goto, IInv, TypeOK, vars, callVars
<1>2. IInv /\ [Next]_vars =>
        [\A k \in Keys : completed[k] # NoResult =>
           \A j \in Jobs : KeyOf[j] = k /\ pc'[j] = "running" => pc[j] = "running"]_vars
  BY <1>1
<1>3. QED
  BY <1>2, Invariance, PTL DEF Spec, CompletedKeysStartNothing
=============================================================================
