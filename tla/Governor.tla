------------------------------ MODULE Governor ------------------------------
(***************************************************************************)
(* GovernorRuntime::execute of crates/ecosystem-runtime: jobs that carry an *)
(* idempotency key and a required authority, executed concurrently over    *)
(* one table of completed results.                                         *)
(*                                                                         *)
(* execute borrows its job mutably, so a job is in at most one call at a   *)
(* time and names the call; several jobs may carry one key.                *)
(***************************************************************************)
EXTENDS Integers, FiniteSets

CONSTANTS
  Jobs, Keys, Authorities, Results,
  KeyOf,        \* job |-> its idempotency key, or NoKey
  Required,     \* job |-> its required authority
  NoKey, NoResult,
  MaxCalls      \* bound on the calls begun

ASSUME GovernorAssumption ==
  /\ KeyOf \in [Jobs -> Keys \cup {NoKey}]
  /\ Required \in [Jobs -> Authorities]
  /\ NoKey \notin Keys /\ NoResult \notin Results
  /\ MaxCalls \in Nat

JobStates ==
  {"Planned", "Admitted", "Running", "AwaitingInput", "AwaitingAuthority",
   "Succeeded", "Failed", "Ambiguous", "Refused", "Superseded"}

VARIABLES
  completed,   \* GovernorRuntime::completed: key |-> recorded result
  state, attempts, result,   \* the fields of each GovernorJob
  pc,          \* where the call on each job is
  returned,    \* what the call's operation returned, until it is recorded
  calls,       \* calls begun (bounds the model)
  succeeded,   \* history: key |-> number of operations that returned Ok
  answers,     \* history: key |-> results that execute answered
  raced        \* history: keys with an operation started while another was
               \* under way

jobVars     == <<state, attempts, result>>
callVars    == <<pc, returned>>
historyVars == <<calls, succeeded, answers, raced>>
vars == <<completed, jobVars, callVars, historyVars>>

Init ==
  /\ completed = [k \in Keys |-> NoResult]
  /\ state = [j \in Jobs |-> "Planned"]
  /\ attempts = [j \in Jobs |-> 0]
  /\ result = [j \in Jobs |-> NoResult]
  /\ pc = [j \in Jobs |-> "idle"]
  /\ returned = [j \in Jobs |-> NoResult]
  /\ calls = 0
  /\ succeeded = [k \in Keys |-> 0]
  /\ answers = [k \in Keys |-> {}]
  /\ raced = {}

InFlight == {j \in Jobs : pc[j] # "idle"}

Goto(j, from, to) == pc[j] = from /\ pc' = [pc EXCEPT ![j] = to]

Becomes(j, s) == state' = [state EXCEPT ![j] = s]

\* execute answers Ok(r): the job succeeds with that result.
Answer(j, r) ==
  /\ Becomes(j, "Succeeded")
  /\ result' = [result EXCEPT ![j] = r]
  /\ answers' = [answers EXCEPT ![KeyOf[j]] = @ \cup {r}]

\* An operation is started: does it race one under the same key?
NotesRace(j) ==
  LET others == {i \in InFlight \ {j} : KeyOf[i] = KeyOf[j] /\ pc[i] # "looking"}
  IN  raced' = IF others = {} THEN raced ELSE raced \cup {KeyOf[j]}

-----------------------------------------------------------------------------
(* One call of execute.                                                    *)

Called(j) ==
  /\ pc[j] = "idle" /\ calls < MaxCalls
  /\ calls' = calls + 1

\* The call is refused before its first await.
RefuseKey(j) ==
  /\ Called(j)
  /\ KeyOf[j] = NoKey
  /\ Becomes(j, "Refused")
  /\ UNCHANGED <<completed, attempts, result, callVars, succeeded, answers, raced>>

DenyAuthority(j, granted) ==
  /\ Called(j)
  /\ KeyOf[j] # NoKey /\ granted # Required[j]
  /\ Becomes(j, "AwaitingAuthority")
  /\ UNCHANGED <<completed, attempts, result, callVars, succeeded, answers, raced>>

\* Mutant: the table is not looked up.
AdmitWithoutLookup(j, granted) ==
  /\ Called(j)
  /\ KeyOf[j] # NoKey /\ granted = Required[j]
  /\ Goto(j, "idle", "running")
  /\ Becomes(j, "Running")
  /\ NotesRace(j)
  /\ UNCHANGED <<completed, attempts, result, returned, succeeded, answers>>

\* The call is admitted and waits for the lock of `completed`.
Admit(j, granted) ==
  /\ Called(j)
  /\ KeyOf[j] # NoKey /\ granted = Required[j]
  /\ Goto(j, "idle", "looking")
  /\ UNCHANGED <<completed, jobVars, returned, succeeded, answers, raced>>

\* Under the lock: the key has completed, and its result is the answer.
Replay(j) ==
  /\ Goto(j, "looking", "idle")
  /\ completed[KeyOf[j]] # NoResult
  /\ Answer(j, completed[KeyOf[j]])
  /\ UNCHANGED <<completed, attempts, returned, calls, succeeded, raced>>

\* Mutant: the operation is started whatever the table holds.
StartAnyway(j) ==
  /\ Goto(j, "looking", "running")
  /\ Becomes(j, "Running")
  /\ attempts' = [attempts EXCEPT ![j] = @ + 1]
  /\ NotesRace(j)
  /\ UNCHANGED <<completed, result, returned, calls, succeeded, answers>>

\* It has not. The lock is released, and the operation is started.
Start(j) ==
  /\ Goto(j, "looking", "running")
  /\ completed[KeyOf[j]] = NoResult
  /\ Becomes(j, "Running")
  /\ attempts' = [attempts EXCEPT ![j] = @ + 1]
  /\ NotesRace(j)
  /\ UNCHANGED <<completed, result, returned, calls, succeeded, answers>>

\* The operation returns Ok; the call waits for the lock again, no longer
\* under the timeout.
OperationSucceeds(j) ==
  /\ Goto(j, "running", "recording")
  /\ \E r \in Results : returned' = [returned EXCEPT ![j] = r]
  /\ succeeded' = [succeeded EXCEPT ![KeyOf[j]] = @ + 1]
  /\ UNCHANGED <<completed, jobVars, calls, answers, raced>>

OperationFails(j) ==
  /\ Goto(j, "running", "idle")
  /\ Becomes(j, "Failed")
  /\ UNCHANGED <<completed, attempts, result, returned, historyVars>>

\* Mutant: there is no timeout.
NeverTimesOut(j) == FALSE /\ UNCHANGED vars

\* Mutant: the timeout records what the operation may have had.
TimesOutRecording(j) ==
  /\ Goto(j, "running", "recording")
  /\ \E r \in Results : returned' = [returned EXCEPT ![j] = r]
  /\ UNCHANGED <<completed, jobVars, historyVars>>

\* Five seconds have passed: the operation is dropped, whatever it has done,
\* and nothing is recorded under the key.
TimesOut(j) ==
  /\ Goto(j, "running", "idle")
  /\ Becomes(j, "Ambiguous")
  /\ UNCHANGED <<completed, attempts, result, returned, historyVars>>

\* Mutant: the result is answered and not recorded.
RecordNothing(j) ==
  /\ Goto(j, "recording", "idle")
  /\ returned' = [returned EXCEPT ![j] = NoResult]
  /\ Answer(j, returned[j])
  /\ UNCHANGED <<completed, attempts, calls, succeeded, raced>>

\* Mutant: what the operation returned is kept for the next call.
RecordKeepsReturned(j) ==
  /\ Goto(j, "recording", "idle")
  /\ completed' = [completed EXCEPT ![KeyOf[j]] = returned[j]]
  /\ Answer(j, returned[j])
  /\ UNCHANGED <<returned, attempts, calls, succeeded, raced>>

\* Under the lock: the result replaces whatever the table holds for the key.
Record(j) ==
  /\ Goto(j, "recording", "idle")
  /\ completed' = [completed EXCEPT ![KeyOf[j]] = returned[j]]
  /\ returned' = [returned EXCEPT ![j] = NoResult]
  /\ Answer(j, returned[j])
  /\ UNCHANGED <<attempts, calls, succeeded, raced>>

\* The caller drops the future at an await: the job keeps the state it has.
Cancel(j) ==
  /\ pc[j] # "idle"
  /\ Goto(j, pc[j], "idle")
  /\ returned' = [returned EXCEPT ![j] = NoResult]
  /\ UNCHANGED <<completed, jobVars, historyVars>>

Execute(j) ==
  \/ RefuseKey(j)
  \/ \E granted \in Authorities : DenyAuthority(j, granted) \/ Admit(j, granted)
  \/ Replay(j) \/ Start(j)
  \/ OperationSucceeds(j) \/ OperationFails(j) \/ TimesOut(j)
  \/ Record(j)
  \/ Cancel(j)

Next == \E j \in Jobs : Execute(j)

Spec == Init /\ [][Next]_vars

\* tokio's mutex is fair and held across no await, and the timer fires whatever
\* the operation does; nothing else has to happen.
Fairness ==
  \A j \in Jobs : WF_vars(Replay(j) \/ Start(j)) /\ WF_vars(TimesOut(j)) /\ WF_vars(Record(j))

FairSpec == Spec /\ Fairness

-----------------------------------------------------------------------------
(* Properties.                                                             *)

\* The type of every variable; only a call that is recording holds a result.
TypeOK ==
  /\ completed \in [Keys -> Results \cup {NoResult}]
  /\ state \in [Jobs -> JobStates]
  /\ attempts \in [Jobs -> Nat]
  /\ result \in [Jobs -> Results \cup {NoResult}]
  /\ pc \in [Jobs -> {"idle", "looking", "running", "recording"}]
  /\ returned \in [Jobs -> Results \cup {NoResult}]
  /\ calls \in Nat
  /\ raced \subseteq Keys
  /\ succeeded \in [Keys -> Nat]
  /\ answers \in [Keys -> SUBSET Results]
  /\ \A j \in Jobs : /\ (pc[j] = "recording") <=> (returned[j] # NoResult)
                     /\ pc[j] # "idle" => KeyOf[j] \in Keys

\* A success is real and shared: a job is Succeeded only with a result that was
\* answered for its key, and only once the table holds one, whichever of the
\* jobs that carry the key did the work.
SuccessIsRecorded ==
  \A j \in Jobs :
    state[j] = "Succeeded" =>
      /\ result[j] \in answers[KeyOf[j]]
      /\ completed[KeyOf[j]] \in answers[KeyOf[j]]
      /\ succeeded[KeyOf[j]] > 0

\* However many calls race, cancel or time out, an answer other than the first
\* takes a second operation that returned Ok: no answer is made up.
AnswersAreProduced == \A k \in Keys : Cardinality(answers[k]) <= succeeded[k]

\* Timeouts, failures and dropped calls never make a key answer in two ways:
\* only operations that overlap do.
OneAnswerUnlessRaced == \A k \in Keys \ raced : Cardinality(answers[k]) <= 1

\* A job that has succeeded is never run again: once its key has a result, a
\* further call replays it, or is denied.
SucceededJobsNeverRerun ==
  [][\A j \in Jobs : state[j] = "Succeeded" =>
       state'[j] \in {"Succeeded", "AwaitingAuthority"} /\ attempts'[j] = attempts[j]]_vars

\* Once a key has a result, the calls that were past the lookup are the last
\* ones: no operation under the key is started anew.
CompletedKeysStartNothing ==
  [][\A k \in Keys : completed[k] # NoResult =>
       \A j \in Jobs : KeyOf[j] = k /\ pc'[j] = "running" => pc[j] = "running"]_vars

\* An admitted call ends, with an operation that never answers too: the timeout
\* of five seconds bounds it.
CallsEnd == \A j \in Jobs : pc[j] # "idle" ~> pc[j] = "idle"

\* "Duplicate idempotency keys replay the prior outcome rather than silently
\* repeating the effect" (docs/OPERATIONS.md): an operation succeeds at most
\* once for each key.
DuplicateKeysNeverRepeatTheEffect == \A k \in Keys : succeeded[k] <= 1

=============================================================================
