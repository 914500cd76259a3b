-------------------------------- MODULE Brce --------------------------------
(***************************************************************************)
(* BrceExecutor::execute of crates/hditc, run by any number of concurrent  *)
(* callers over one receipt journal and one actuator.                      *)
(*                                                                         *)
(* A PreparedDo carrier is data (Clone, Serialize): any caller may execute *)
(* any carrier, any number of times.  Each await of execute is a place     *)
(* where other callers, the world and a cancellation may step in, so each  *)
(* is a step of its own.                                                   *)
(***************************************************************************)
EXTENDS Dfcm

CONSTANTS
  Callers,                          \* tasks that call execute
  Candidates, Grants, Posts, Worlds,  \* what may be prepared, and seen
  Altered,                          \* carriers that callers may alter or make
  Tokens,                           \* acknowledgement tokens of the actuator
  Ids, IdOf,                        \* reservation ids; seed |-> the id prepare gives
  NoReservation, NoReceipt, NoCarrier, NoSignal, NoWorld,
  MaxAttempts,                      \* bound on the number of executions begun
  MaxCarriers                       \* bound on the carriers in circulation

\* What the id of a reservation is the truncated digest of.
Seed(w, c, g, post) == [cand |-> c, grant |-> g, before |-> w, post |-> post]

Seeds == [cand: Candidates, grant: Grants, before: Worlds, post: Posts]

Reservations == [id: Ids, cand: Candidates, grant: Grants, before: Worlds, post: Posts]

Subjects == {w.subject : w \in Worlds}

Signals ==
  [kind: {"Acknowledged"}, token: Tokens] \cup [kind: {"Refused", "Ambiguous"}]

Outcomes == {"Done", "Blocked", "Ambiguous", "Refused"}

Carriers ==
  [cand: Candidates, grant: Grants, post: Posts, res: Reservations,
   projected: {ProjectedDimensions(c, w) : c \in Candidates, w \in Worlds}
                \cup {p.projected : p \in Altered}]

ReceiptsOf(rs) ==
  [res: rs, expected: Posts, bound: {g.bound : g \in Grants},
   signal: Signals, observed: Worlds \cup {NoWorld}, outcome: Outcomes]

Receipts == ReceiptsOf(Reservations)

\* Nothing is assumed of IdOf but its type, ids may collide; nor of Altered,
\* the fields of such a carrier need not fit each other.
ASSUME BrceAssumption ==
  /\ IdOf \in [Seeds -> Ids]
  /\ Altered \subseteq Carriers
  /\ NoReservation \notin Reservations
  /\ NoReceipt \notin Receipts
  /\ NoWorld \notin Worlds

VARIABLES
  worlds,        \* the world of each subject (the actuator's side)
  prepared,      \* PreparedDo carriers in circulation
  reservations,  \* journal: id |-> durable reservation
  receipts,      \* journal: id |-> final receipt
  pc,            \* where each caller is inside execute
  job,           \* the carrier it executes
  signal,        \* what the actuator answered
  receipt,       \* the sealed receipt it is about to persist
  attempts,      \* executions begun (bounds the model)
  selfSealed,    \* history: reservations that a caller sealed, not prepare
  actuated,      \* history: what the actuator was handed, as a reservation
  acked,         \* history: receipts that execute returned as Ok
  handles        \* history: reservations named by FinalizeAfterActuation

journalVars == <<reservations, receipts>>
localVars   == <<pc, job, signal, receipt>>
historyVars == <<attempts, selfSealed, actuated, acked, handles>>
vars == <<worlds, prepared, journalVars, localVars, historyVars>>

Phases == {"idle", "reserving", "reserved", "actuated", "sealed", "storing"}

Init ==
  /\ worlds \in {f \in [Subjects -> Worlds] : \A s \in Subjects : f[s].subject = s}
  /\ prepared = {}
  /\ reservations = [i \in Ids |-> NoReservation]
  /\ receipts = [i \in Ids |-> NoReceipt]
  /\ pc = [c \in Callers |-> "idle"]
  /\ job = [c \in Callers |-> NoCarrier]
  /\ signal = [c \in Callers |-> NoSignal]
  /\ receipt = [c \in Callers |-> NoReceipt]
  /\ attempts = 0
  /\ selfSealed = {} /\ actuated = {} /\ acked = {} /\ handles = {}

-----------------------------------------------------------------------------
(* Reconciliation: from the answers of the actuator to the receipt.        *)

\* Mutant: the subject of the observation is not compared.
ReconciledElsewhere(p, obs) ==
  /\ obs # NoWorld
  /\ Validates(obs)
  /\ Knows(obs, ConstraintDimensions(p.post) \cup ConstraintDimensions(p.grant.bound))
  /\ ConstraintsHold(p.post, obs.dims)
  /\ ConstraintsHold(p.grant.bound, obs.dims)

Reconciled(p, obs) ==
  /\ obs # NoWorld
  /\ obs.subject = p.cand.subject
  /\ Validates(obs)
  /\ Knows(obs, ConstraintDimensions(p.post) \cup ConstraintDimensions(p.grant.bound))
  /\ ConstraintsHold(p.post, obs.dims)
  /\ ConstraintsHold(p.grant.bound, obs.dims)

Outcome(p, sig, obs) ==
  CASE sig.kind = "Refused" -> "Refused"
    [] sig.kind = "Ambiguous" \/ (sig.kind = "Acknowledged" /\ obs = NoWorld) -> "Ambiguous"
    [] sig.kind = "Acknowledged" /\ Reconciled(p, obs) -> "Done"
    [] OTHER -> "Blocked"

SealedReceipt(p, sig, obs) ==
  [res |-> p.res, expected |-> p.post, bound |-> p.grant.bound,
   signal |-> sig, observed |-> obs, outcome |-> Outcome(p, sig, obs)]

\* Mutant: the outcome of the receipt is not looked at.
ReplaysAnyOutcome(r, w) ==
  /\ Validates(w)
  /\ w.subject = r.res.cand.subject
  /\ r.observed = w
  /\ Knows(w, ConstraintDimensions(r.expected) \cup ConstraintDimensions(r.bound))
  /\ ConstraintsHold(r.expected, w.dims)
  /\ ConstraintsHold(r.bound, w.dims)

\* replay(receipt, observed): does the receipt keep ALIVE standing?
Replays(r, w) ==
  /\ Validates(w)
  /\ r.outcome = "Done"
  /\ w.subject = r.res.cand.subject
  /\ r.observed = w
  /\ Knows(w, ConstraintDimensions(r.expected) \cup ConstraintDimensions(r.bound))
  /\ ConstraintsHold(r.expected, w.dims)
  /\ ConstraintsHold(r.bound, w.dims)

-----------------------------------------------------------------------------
(* The environment: worlds move, carriers are prepared, copied and altered. *)

Drift ==
  /\ \E s \in Subjects, w \in Worlds :
       /\ w.subject = s /\ w # worlds[s]
       /\ worlds' = [worlds EXCEPT ![s] = w]
  /\ UNCHANGED <<prepared, journalVars, localVars, historyVars>>

Circulate(p) ==
  /\ Cardinality(prepared) < MaxCarriers
  /\ p \notin prepared
  /\ prepared' = prepared \cup {p}
  /\ UNCHANGED <<worlds, journalVars, localVars, attempts, actuated, acked, handles>>

\* PreparedDo::prepare over a snapshot of some subject's world.
Prepare(s, c, g, post) ==
  /\ Admits(worlds[s], c, g, post)
  /\ Circulate(Carrier(worlds[s], c, g, post, IdOf[Seed(worlds[s], c, g, post)]))
  /\ UNCHANGED selfSealed

\* The fields of a carrier are public: a caller may hand execute one whose
\* candidate, grant, postconditions or projection are not those that were
\* prepared with its reservation.
Alter(p) ==
  /\ \E q \in prepared : q.res = p.res
  /\ Circulate(p)
  /\ UNCHANGED selfSealed

\* So are those of a reservation, and its digest can be computed anew: a caller
\* may seal one itself, over another world or under another id.
Reseal(p) ==
  /\ \A q \in prepared : q.res # p.res
  /\ Circulate(p)
  /\ selfSealed' = selfSealed \cup {p.res}

-----------------------------------------------------------------------------
(* One execution.                                                          *)

Goto(c, from, to) == pc[c] = from /\ pc' = [pc EXCEPT ![c] = to]

\* The call ends, whatever it answers: the locals of the future are dropped.
Leave(c, from) ==
  /\ Goto(c, from, "idle")
  /\ job' = [job EXCEPT ![c] = NoCarrier]
  /\ signal' = [signal EXCEPT ![c] = NoSignal]
  /\ receipt' = [receipt EXCEPT ![c] = NoReceipt]

\* execute(prepared) up to its first await; a carrier that does not verify is
\* refused before anything changes.
Begin(c, p) ==
  /\ attempts < MaxAttempts
  /\ Verifies(p)
  /\ Goto(c, "idle", "reserving")
  /\ job' = [job EXCEPT ![c] = p]
  /\ attempts' = attempts + 1
  /\ UNCHANGED <<worlds, prepared, journalVars, signal, receipt>>
  /\ UNCHANGED <<selfSealed, actuated, acked, handles>>

\* Mutant: a colliding reservation replaces the one that is there.
ReserveOverwrites(r) == TRUE

\* MemoryReceiptJournal::reserve accepts: the id is free, or holds this very
\* reservation.
ReserveAccepts(r) == reservations[r.id] \in {NoReservation, r}

\* Mutant: the reservation is followed by the observation.
ReserveThenObserve(c) ==
  /\ Goto(c, "reserving", "actuated")
  /\ ReserveAccepts(job[c].res)
  /\ reservations' = [reservations EXCEPT ![job[c].res.id] = job[c].res]
  /\ UNCHANGED <<worlds, prepared, receipts, job, signal, receipt, historyVars>>

Reserve(c) ==
  /\ Goto(c, "reserving", "reserved")
  /\ ReserveAccepts(job[c].res)
  /\ reservations' = [reservations EXCEPT ![job[c].res.id] = job[c].res]
  /\ UNCHANGED <<worlds, prepared, receipts, job, signal, receipt, historyVars>>

\* "reservation id collision": execute returns Error::Journal.
ReserveCollides(c) ==
  /\ pc[c] = "reserving" /\ ~ReserveAccepts(job[c].res)
  /\ Leave(c, "reserving")
  /\ UNCHANGED <<worlds, prepared, journalVars, historyVars>>

\* Mutant: the error of the journal is ignored.
ReserveErrorIgnored(c) ==
  /\ Goto(c, "reserving", "reserved")
  /\ ReserveAccepts(job[c].res)
  /\ UNCHANGED <<worlds, prepared, journalVars, job, signal, receipt, historyVars>>

\* Mutant: the error is reported as one after actuation.
ReserveFailureMislabelled(c) ==
  /\ pc[c] = "reserving" /\ ReserveAccepts(job[c].res)
  /\ Leave(c, "reserving")
  /\ handles' = handles \cup {job[c].res}
  /\ UNCHANGED <<worlds, prepared, journalVars, attempts, selfSealed, actuated, acked>>

\* The journal's storage fails, before the reservation is stored or after it
\* was but before the answer: execute returns Error::Journal.
ReserveFails(c) ==
  /\ pc[c] = "reserving" /\ ReserveAccepts(job[c].res)
  /\ Leave(c, "reserving")
  /\ \/ UNCHANGED reservations
     \/ reservations' = [reservations EXCEPT ![job[c].res.id] = job[c].res]
  /\ UNCHANGED <<worlds, prepared, receipts, historyVars>>

\* What an actuator is handed: the carrier's own fields, not its reservation's.
Handed(p) == Reservation(p.res.before, p.cand, p.grant, p.post, p.res.id)

\* Mutant: actuation does not wait for the reservation.
ActuateUnreserved(c) ==
  /\ Goto(c, "reserving", "actuated")
  /\ actuated' = actuated \cup {Handed(job[c])}
  /\ \E sig \in Signals : signal' = [signal EXCEPT ![c] = sig]
  /\ UNCHANGED <<worlds, prepared, journalVars, job, receipt, attempts, selfSealed, acked, handles>>

\* The actuator is called. What it does to the world is its own affair, except
\* that a refusal leaves the world alone.
Actuate(c) ==
  /\ Goto(c, "reserved", "actuated")
  /\ actuated' = actuated \cup {Handed(job[c])}
  /\ \E sig \in Signals, w \in Worlds :
       LET s == job[c].cand.subject IN
       /\ signal' = [signal EXCEPT ![c] = sig]
       /\ w.subject = s
       /\ sig.kind = "Refused" => w = worlds[s]
       /\ worlds' = [worlds EXCEPT ![s] = w]
  /\ UNCHANGED <<prepared, journalVars, job, receipt, attempts, selfSealed, acked, handles>>

\* The actuator observes (an adapter may fail, or answer with the world of
\* another subject), and execute reconciles and seals without a further await.
Observe(c) ==
  /\ Goto(c, "actuated", "sealed")
  /\ \E obs \in {NoWorld} \cup {worlds[s] : s \in Subjects} :
       receipt' = [receipt EXCEPT ![c] = SealedReceipt(job[c], signal[c], obs)]
  /\ UNCHANGED <<worlds, prepared, journalVars, job, signal, historyVars>>

\* finalize, under the reservations lock, which it then drops: a receipt that
\* no durable reservation binds ends the call with FinalizeAfterActuation.
FinalizeLookup(c) ==
  /\ pc[c] = "sealed"
  /\ IF reservations[receipt[c].res.id] = receipt[c].res
     THEN Goto(c, "sealed", "storing") /\ UNCHANGED <<job, signal, receipt, handles>>
     ELSE Leave(c, "sealed") /\ handles' = handles \cup {receipt[c].res}
  /\ UNCHANGED <<worlds, prepared, journalVars, attempts, selfSealed, actuated, acked>>

\* Mutant: the last finalizer wins.
FinalizeOverwrites(r) == TRUE

\* finalize, under the receipts lock: the slot is free, or holds this receipt.
FinalizeAccepts(r) == receipts[r.res.id] \in {NoReceipt, r}

FinalizeStore(c) ==
  /\ pc[c] = "storing" /\ FinalizeAccepts(receipt[c])
  /\ receipts' = [receipts EXCEPT ![receipt[c].res.id] = receipt[c]]
  /\ acked' = acked \cup {receipt[c]}
  /\ Leave(c, "storing")
  /\ UNCHANGED <<worlds, prepared, reservations, attempts, selfSealed, actuated, handles>>

\* Mutant: a conflict starts finalize over.
FinalizeConflictRetries(c) ==
  /\ Goto(c, "storing", "sealed")
  /\ ~FinalizeAccepts(receipt[c])
  /\ UNCHANGED <<worlds, prepared, journalVars, job, signal, receipt, historyVars>>

\* "non-idempotent final receipt": execute returns FinalizeAfterActuation.
FinalizeConflicts(c) ==
  /\ pc[c] = "storing" /\ ~FinalizeAccepts(receipt[c])
  /\ handles' = handles \cup {receipt[c].res}
  /\ Leave(c, "storing")
  /\ UNCHANGED <<worlds, prepared, journalVars, attempts, selfSealed, actuated, acked>>

\* The storage fails, before the receipt is stored or after it was.
FinalizeFails(c) ==
  /\ pc[c] = "storing" /\ FinalizeAccepts(receipt[c])
  /\ handles' = handles \cup {receipt[c].res}
  /\ \/ UNCHANGED receipts
     \/ receipts' = [receipts EXCEPT ![receipt[c].res.id] = receipt[c]]
  /\ Leave(c, "storing")
  /\ UNCHANGED <<worlds, prepared, reservations, attempts, selfSealed, actuated, acked>>

\* The future is dropped at an await, or its process dies. The journal is
\* durable by the contract of ReceiptJournal, so only the locals are lost.
Cancel(c) ==
  /\ pc[c] # "idle"
  /\ Leave(c, pc[c])
  /\ UNCHANGED <<worlds, prepared, journalVars, historyVars>>

Execute(c) ==
  \/ \E p \in prepared : Begin(c, p)
  \/ Reserve(c) \/ ReserveCollides(c) \/ ReserveFails(c)
  \/ Actuate(c)
  \/ Observe(c)
  \/ FinalizeLookup(c)
  \/ FinalizeStore(c) \/ FinalizeConflicts(c) \/ FinalizeFails(c)
  \/ Cancel(c)

Environment ==
  \/ Drift
  \/ \E s \in Subjects, c \in Candidates, g \in Grants, post \in Posts : Prepare(s, c, g, post)
  \/ \E p \in Altered : Alter(p) \/ Reseal(p)

Next == Environment \/ \E c \in Callers : Execute(c)

Spec == Init /\ [][Next]_vars

\* Journal steps are in-memory critical sections that the executor's task polls
\* to completion; nothing bounds how long an actuator may take to answer.
Fairness ==
  \A c \in Callers : /\ WF_vars(FinalizeLookup(c))
                     /\ WF_vars(FinalizeStore(c) \/ FinalizeConflicts(c))

FairSpec == Spec /\ Fairness

-----------------------------------------------------------------------------
(* Properties.                                                             *)

\* The type of every variable; inside execute the locals are there.
TypeOK ==
  /\ worlds \in [Subjects -> Worlds]
  /\ prepared \subseteq Carriers
  /\ reservations \in [Ids -> Reservations \cup {NoReservation}]
  /\ receipts \in [Ids -> Receipts \cup {NoReceipt}]
  /\ pc \in [Callers -> Phases]
  /\ job \in [Callers -> Carriers \cup {NoCarrier}]
  /\ signal \in [Callers -> Signals \cup {NoSignal}]
  /\ receipt \in [Callers -> Receipts \cup {NoReceipt}]
  /\ attempts \in Nat
  /\ selfSealed \subseteq Reservations
  /\ actuated \subseteq Reservations
  /\ acked \subseteq Receipts
  /\ handles \subseteq Reservations
  /\ \A c \in Callers :
       /\ pc[c] # "idle" => job[c] \in Carriers
       /\ pc[c] \in {"actuated", "sealed", "storing"} => signal[c] \in Signals
       /\ pc[c] \in {"sealed", "storing"} => receipt[c] \in Receipts

\* "Zero unreceipted actuation": whatever any caller ever handed to the
\* actuator, the journal holds, still, a reservation that binds exactly that
\* candidate, grant, pre-state and postconditions.
ZeroUnreceiptedActuation == \A r \in actuated : reservations[r.id] = r

\* Under a reservation of prepare's nothing is actuated that prepare did not
\* admit on the world it binds (exact subject and authority, known dimensions,
\* a projected consequence within the grant's bound), whatever was altered in
\* its carrier.  One that a caller sealed may bind a world that never admitted
\* it, but is actuated for a valid subject and under a grant that covers it.
OnlyAdmittedActuation ==
  \A r \in actuated :
    /\ r \in selfSealed \/ Admits(r.before, r.cand, r.grant, r.post)
    /\ r.cand.subject \in ValidSubjects /\ r.cand.key # NoKey
    /\ GrantVerifies(r.grant, r.cand)

\* "ACTUATED != DONE": a durable receipt that says Done follows an actuation
\* under its reservation that was acknowledged, and an observation of the exact
\* subject that meets what was admitted - the reservation's own postconditions
\* and the bound of its grant, whatever the carrier said later.
Earned(r) ==
  /\ r.signal.kind = "Acknowledged"
  /\ r.observed \in Worlds
  /\ r.observed.subject = r.res.cand.subject
  /\ Knows(r.observed, ConstraintDimensions(r.res.post)
                         \cup ConstraintDimensions(r.res.grant.bound))
  /\ ConstraintsHold(r.res.post, r.observed.dims)
  /\ ConstraintsHold(r.res.grant.bound, r.observed.dims)

DoneIsEarned ==
  \A i \in Ids :
    LET r == receipts[i] IN
    (r # NoReceipt /\ r.outcome = "Done") => r.res \in actuated /\ Earned(r)

\* A receipt that execute returned to some caller is the journal's receipt of
\* that reservation, so two callers that raced over one carrier and were both
\* answered Ok were answered alike.
AcknowledgedReceiptsAreFinal == \A r \in acked : receipts[r.res.id] = r

\* FinalizeAfterActuation names a reservation that is durable and was actuated:
\* the recovery handle can be followed.
RecoveryHandlesAreDurable ==
  \A r \in handles : r \in actuated /\ reservations[r.id] = r

\* Replay confers ALIVE only on an acknowledged and receipted actuation, in the
\* presence of the world it observed.
ReplayIsExact ==
  \A i \in Ids, s \in Subjects :
    (receipts[i] # NoReceipt /\ Replays(receipts[i], worlds[s])) =>
      /\ receipts[i].res \in actuated
      /\ receipts[i].signal.kind = "Acknowledged"
      /\ receipts[i].observed = worlds[s]
      /\ receipts[i].res.cand.subject = s

\* The journal never replaces nor forgets a reservation or a final receipt.
JournalIsAppendOnly ==
  [][\A i \in Ids :
       /\ reservations[i] # NoReservation => reservations'[i] = reservations[i]
       /\ receipts[i] # NoReceipt => receipts'[i] = receipts[i]]_vars

\* A sealed receipt reaches the journal's answer: the call ends, whoever else
\* finalizes the same reservation meanwhile.
SealedCallsEnd == \A c \in Callers : pc[c] = "sealed" ~> pc[c] = "idle"

-----------------------------------------------------------------------------
(* Refinement: the executor implements BrceLaw.                            *)

\* The verdicts the law allows on a reservation: Done only with an
\* acknowledgement and an observed closure of what the reservation binds.
LawfulReceipts(r) == {v \in ReceiptsOf({r}) : v.outcome = "Done" => Earned(v)}

Reserved == {r \in Reservations : reservations[r.id] = r}

Verdict(r) ==
  LET v == receipts[r.id]
  IN  IF v # NoReceipt /\ v.res = r THEN v ELSE NoReceipt

Law == INSTANCE BrceLaw WITH
  Verdicts  <- [r \in Reservations |-> LawfulReceipts(r)],
  NoVerdict <- NoReceipt,
  reserved  <- Reserved,
  verdict   <- [r \in Reservations |-> Verdict(r)]

\* Every execution, with its races, failures and cancellations, is an
\* execution of the law.
ImplementsLaw == Law!LawSpec
=============================================================================
