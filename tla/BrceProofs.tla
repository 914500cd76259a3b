----------------------------- MODULE BrceProofs -----------------------------
(***************************************************************************)
(* Theorems of Brce, for every set of callers, carriers and worlds, every  *)
(* mapping to reservation ids (colliding ones included), whatever carriers  *)
(* callers alter or make, and any number of executions.                    *)
(***************************************************************************)
EXTENDS Brce, TLAPS

USE BrceAssumption

(* Types.                                                                  *)

\* What prepare returns is a carrier.
LEMMA CarrierType ==
  ASSUME NEW w \in Worlds, NEW c \in Candidates, NEW g \in Grants, NEW post \in Posts
  PROVE  Carrier(w, c, g, post, IdOf[Seed(w, c, g, post)]) \in Carriers
<1>1. IdOf[Seed(w, c, g, post)] \in Ids
  BY DEF Seed, Seeds
<1>2. QED
  BY <1>1 DEF Carrier, Carriers, Reservation, Reservations

\* What execute seals is a receipt of the carrier's reservation.
LEMMA SealedType ==
  ASSUME NEW p \in Carriers, Verifies(p), NEW sig \in Signals,
         NEW obs \in Worlds \cup {NoWorld}
  PROVE  /\ SealedReceipt(p, sig, obs) \in Receipts
         /\ SealedReceipt(p, sig, obs).res = p.res
         /\ SealedReceipt(p, sig, obs).outcome = "Done" => Earned(SealedReceipt(p, sig, obs))
<1>1. Outcome(p, sig, obs) \in Outcomes
  BY DEF Outcome, Outcomes
<1>2. /\ p.res \in Reservations /\ p.post \in Posts /\ p.grant \in Grants
      /\ p.res.cand = p.cand /\ p.res.grant = p.grant /\ p.res.post = p.post
  BY DEF Carriers, Verifies
<1>3. SealedReceipt(p, sig, obs) \in Receipts
  BY <1>1, <1>2 DEF SealedReceipt, Receipts, ReceiptsOf
<1>4. ASSUME Outcome(p, sig, obs) = "Done"
      PROVE  sig.kind = "Acknowledged" /\ Reconciled(p, obs)
  BY <1>4 DEF Outcome
<1>5. ASSUME Outcome(p, sig, obs) = "Done"
      PROVE  Earned(SealedReceipt(p, sig, obs))
  BY <1>2, <1>4, <1>5 DEF Earned, SealedReceipt, Reconciled
<1>6. QED
  BY <1>3, <1>5 DEF SealedReceipt

\* What the actuator is handed is what a verified carrier's reservation binds.
LEMMA HandedIsReserved ==
  ASSUME NEW p \in Carriers, Verifies(p)
  PROVE  Handed(p) = p.res
BY DEF Handed, Reservation, Verifies, Carriers, Reservations

-----------------------------------------------------------------------------
(* Type correctness.                                                       *)

\* Every step of an execution, and every step around it, keeps the types. The
\* sealing step also needs that the carrier under execution verified.
JobsVerify == \A c \in Callers : pc[c] # "idle" => Verifies(job[c])

LEMMA JobsVerifyStep ==
  ASSUME TypeOK, JobsVerify, [Next]_vars
  PROVE  JobsVerify'
<1>. USE DEF TypeOK, JobsVerify, localVars
<1>1. CASE Environment
  BY <1>1 DEF Environment, Drift, Prepare, Alter, Reseal, Circulate
<1>2. ASSUME NEW c \in Callers, Execute(c)
      PROVE  JobsVerify'
  <2>1. ASSUME NEW p \in prepared, Begin(c, p)
        PROVE  JobsVerify'
    BY <2>1 DEF Begin, Goto
  <2>2. CASE Reserve(c)
    BY <2>2 DEF Reserve, Goto, Phases
  <2>3. CASE ReserveCollides(c) \/ ReserveFails(c)
    BY <2>3 DEF ReserveCollides, ReserveFails, Leave, Goto, Phases
  <2>4. CASE Actuate(c) \/ Observe(c)
    BY <2>4 DEF Actuate, Observe, Goto, Phases
  <2>5. CASE FinalizeLookup(c)
    BY <2>5 DEF FinalizeLookup, Leave, Goto, Phases
  <2>6. CASE FinalizeStore(c) \/ FinalizeConflicts(c) \/ FinalizeFails(c) \/ Cancel(c)
    BY <2>6 DEF FinalizeStore, FinalizeConflicts, FinalizeFails, Cancel, Leave, Goto, Phases
  <2>7. QED
    BY <1>2, <2>1, <2>2, <2>3, <2>4, <2>5, <2>6 DEF Execute
<1>3. CASE UNCHANGED vars
  BY <1>3 DEF vars
<1>4. QED
  BY <1>1, <1>2, <1>3 DEF Next

LEMMA TypeStep ==
  ASSUME TypeOK, JobsVerify, [Next]_vars
  PROVE  TypeOK'
<1>. USE DEF TypeOK, localVars, journalVars, historyVars
<1>1. CASE Environment
  <2>1. CASE Drift
    BY <2>1 DEF Drift
  <2>2. ASSUME NEW s \in Subjects, NEW c \in Candidates, NEW g \in Grants,
               NEW post \in Posts, Prepare(s, c, g, post)
        PROVE  TypeOK'
    <3>1. Carrier(worlds[s], c, g, post, IdOf[Seed(worlds[s], c, g, post)]) \in Carriers
      BY CarrierType
    <3>2. QED
      BY <2>2, <3>1 DEF Prepare, Circulate
  <2>3. ASSUME NEW p \in Altered, Alter(p) \/ Reseal(p)
        PROVE  TypeOK'
    <3>1. p \in Carriers /\ p.res \in Reservations
      BY DEF Carriers
    <3>2. QED
      BY <2>3, <3>1 DEF Alter, Reseal, Circulate
  <2>4. QED
    BY <1>1, <2>1, <2>2, <2>3 DEF Environment
<1>2. ASSUME NEW c \in Callers, Execute(c)
      PROVE  TypeOK'
  <2>0. pc[c] # "idle" => /\ job[c].res \in Reservations
                          /\ job[c].res.id \in Ids
                          /\ Handed(job[c]) = job[c].res
    BY HandedIsReserved DEF JobsVerify, Carriers, Reservations
  <2>1. ASSUME NEW p \in prepared, Begin(c, p)
        PROVE  TypeOK'
    BY <2>1 DEF Begin, Goto, Phases
  <2>2. CASE Reserve(c)
    BY <2>0, <2>2 DEF Reserve, Goto, Phases
  <2>3. CASE ReserveCollides(c)
    BY <2>3 DEF ReserveCollides, Leave, Goto, Phases
  <2>4. CASE ReserveFails(c)
    BY <2>0, <2>4 DEF ReserveFails, Leave, Goto, Phases
  <2>5. CASE Actuate(c)
    <3>1. PICK sig \in Signals, w \in Worlds :
            /\ signal' = [signal EXCEPT ![c] = sig]
            /\ worlds' = [worlds EXCEPT ![job[c].cand.subject] = w]
      BY <2>5 DEF Actuate
    <3>2. actuated' \subseteq Reservations
      BY <2>0, <2>5 DEF Actuate, Goto
    <3>3. worlds' \in [Subjects -> Worlds]
      BY <3>1
    <3>4. QED
      BY <2>5, <3>1, <3>2, <3>3 DEF Actuate, Goto, Phases
  <2>6. CASE Observe(c)
    <3>1. PICK obs \in {NoWorld} \cup {worlds[s] : s \in Subjects} :
            receipt' = [receipt EXCEPT ![c] = SealedReceipt(job[c], signal[c], obs)]
      BY <2>6 DEF Observe
    <3>2. SealedReceipt(job[c], signal[c], obs) \in Receipts
      BY <2>6, SealedType DEF JobsVerify, Observe, Goto
    <3>3. QED
      BY <2>6, <3>1, <3>2 DEF Observe, Goto, Phases
  <2>7. CASE FinalizeLookup(c)
    BY <2>7 DEF FinalizeLookup, Leave, Goto, Phases, Receipts, ReceiptsOf
  <2>8. CASE FinalizeStore(c) \/ FinalizeConflicts(c) \/ FinalizeFails(c)
    <3>1. receipt[c] \in Receipts /\ receipt[c].res \in Reservations /\ receipt[c].res.id \in Ids
      BY <2>8 DEF FinalizeStore, FinalizeConflicts, FinalizeFails, Receipts, ReceiptsOf, Reservations
    <3>2. QED
      BY <2>8, <3>1 DEF FinalizeStore, FinalizeConflicts, FinalizeFails, Leave, Goto, Phases
  <2>9. CASE Cancel(c)
    BY <2>9 DEF Cancel, Leave, Goto, Phases
  <2>10. QED
    BY <1>2, <2>1, <2>2, <2>3, <2>4, <2>5, <2>6, <2>7, <2>8, <2>9 DEF Execute
<1>3. CASE UNCHANGED vars
  BY <1>3 DEF vars
<1>4. QED
  BY <1>1, <1>2, <1>3 DEF Next

LEMMA InitTypes == Init => TypeOK /\ JobsVerify
BY DEF Init, TypeOK, JobsVerify, Phases


-----------------------------------------------------------------------------
(* The inductive invariant.                                                *)

WorldsBySubject == \A s \in Subjects : worlds[s].subject = s

\* Whatever happens to a carrier, its reservation is an admitted one or one that
\* a caller sealed.
AdmittedReservation(r) == r \in selfSealed \/ Admits(r.before, r.cand, r.grant, r.post)

CarriersAdmitted == \A p \in prepared : AdmittedReservation(p.res)

\* What the steps a caller has taken have left behind for its next ones.
CallerInv(c) ==
  /\ pc[c] # "idle" => AdmittedReservation(job[c].res)
  /\ pc[c] \in {"reserved", "actuated", "sealed", "storing"} =>
       reservations[job[c].res.id] = job[c].res
  /\ pc[c] \in {"actuated", "sealed", "storing"} => job[c].res \in actuated
  /\ pc[c] \in {"sealed", "storing"} =>
       /\ receipt[c].res = job[c].res
       /\ receipt[c].outcome = "Done" => Earned(receipt[c])

CallersInv == \A c \in Callers : CallerInv(c)

\* A durable receipt sits under the id of a reservation that was actuated.
ReceiptsInv ==
  \A i \in Ids : receipts[i] # NoReceipt =>
    /\ receipts[i].res.id = i
    /\ receipts[i].res \in actuated
    /\ receipts[i].outcome = "Done" => Earned(receipts[i])

Answers == AcknowledgedReceiptsAreFinal /\ RecoveryHandlesAreDurable

IInv ==
  /\ TypeOK /\ JobsVerify
  /\ WorldsBySubject
  /\ CarriersAdmitted
  /\ CallersInv
  /\ ReceiptsInv
  /\ ZeroUnreceiptedActuation /\ OnlyAdmittedActuation
  /\ Answers

LEMMA InitIInv == Init => IInv
<1>1. Init => TypeOK /\ JobsVerify
  BY InitTypes
<1>2. QED
  BY <1>1 DEF Init, IInv, WorldsBySubject, CarriersAdmitted, CallersInv, CallerInv,
              ReceiptsInv, ZeroUnreceiptedActuation, OnlyAdmittedActuation, Answers,
              AcknowledgedReceiptsAreFinal, RecoveryHandlesAreDurable

\* The parts of IInv beyond the types, as one goal.
Rest ==
  /\ WorldsBySubject
  /\ CarriersAdmitted
  /\ CallersInv
  /\ ReceiptsInv
  /\ ZeroUnreceiptedActuation /\ OnlyAdmittedActuation
  /\ Answers

LEMMA EnvironmentStep ==
  ASSUME IInv, Environment
  PROVE  Rest'
<1>1. /\ UNCHANGED <<reservations, receipts, pc, job, signal, receipt, actuated, acked, handles>>
      /\ selfSealed \subseteq selfSealed'
  BY DEF Environment, Drift, Prepare, Alter, Reseal, Circulate,
         journalVars, localVars, historyVars
<1>2. (CallersInv /\ ReceiptsInv /\ ZeroUnreceiptedActuation /\ OnlyAdmittedActuation /\ Answers)'
  BY <1>1 DEF IInv, CallersInv, CallerInv, AdmittedReservation, ReceiptsInv,
              ZeroUnreceiptedActuation, OnlyAdmittedActuation, Answers, AcknowledgedReceiptsAreFinal,
              RecoveryHandlesAreDurable
<1>3. WorldsBySubject'
  BY DEF IInv, TypeOK, WorldsBySubject, Environment, Drift, Prepare, Alter, Reseal,
         Circulate
<1>4. CarriersAdmitted'
  <2>1. CASE Drift
    BY <1>1, <2>1 DEF IInv, CarriersAdmitted, AdmittedReservation, Drift
  <2>2. ASSUME NEW s \in Subjects, NEW c \in Candidates, NEW g \in Grants,
               NEW post \in Posts, Prepare(s, c, g, post)
        PROVE  CarriersAdmitted'
    <3>. DEFINE p == Carrier(worlds[s], c, g, post, IdOf[Seed(worlds[s], c, g, post)])
    <3>1. /\ Admits(worlds[s], c, g, post) /\ prepared' = prepared \cup {p}
          /\ selfSealed' = selfSealed
      BY <2>2 DEF Prepare, Circulate
    <3>2. AdmittedReservation(p.res)
      BY <3>1 DEF AdmittedReservation, Carrier, Reservation
    <3>. HIDE DEF p
    <3>3. QED
      BY <3>1, <3>2 DEF IInv, CarriersAdmitted, AdmittedReservation
  <2>3. ASSUME NEW p \in Altered, Alter(p)
        PROVE  CarriersAdmitted'
    BY <2>3 DEF IInv, CarriersAdmitted, AdmittedReservation, Alter, Circulate
  <2>4. ASSUME NEW p \in Altered, Reseal(p)
        PROVE  CarriersAdmitted'
    BY <2>4 DEF IInv, CarriersAdmitted, AdmittedReservation, Reseal, Circulate
  <2>5. QED
    BY <1>1, <2>1, <2>2, <2>3, <2>4 DEF Environment
<1>5. QED
  BY <1>2, <1>3, <1>4 DEF Rest

\* The reservations and actuations that callers rely on are never taken back.
Grows ==
  /\ \A r \in Reservations : reservations[r.id] = r => reservations'[r.id] = r
  /\ actuated \subseteq actuated' /\ selfSealed' = selfSealed

\* A step of caller c moves its own locals only.
Moves(c) ==
  \A d \in Callers \ {c} :
    pc'[d] = pc[d] /\ job'[d] = job[d] /\ receipt'[d] = receipt[d]

LEMMA OthersKeep ==
  ASSUME IInv, NEW c \in Callers, Grows, Moves(c), CallerInv(c)'
  PROVE  CallersInv'
<1>1. SUFFICES ASSUME NEW d \in Callers \ {c}
               PROVE  CallerInv(d)'
  BY DEF CallersInv
<1>2. pc[d] # "idle" => job[d].res \in Reservations
  BY DEF IInv, TypeOK, Carriers
<1>3. QED
  BY <1>2 DEF IInv, CallersInv, CallerInv, AdmittedReservation, Grows, Moves

LEMMA ActuatedKeep ==
  ASSUME IInv, Grows, UNCHANGED <<actuated, handles>>
  PROVE  ZeroUnreceiptedActuation' /\ OnlyAdmittedActuation' /\ RecoveryHandlesAreDurable'
BY DEF IInv, TypeOK, Grows, ZeroUnreceiptedActuation, OnlyAdmittedActuation, Answers,
       RecoveryHandlesAreDurable

LEMMA ReceiptsKeep ==
  ASSUME IInv, Grows, UNCHANGED <<receipts, acked>>
  PROVE  ReceiptsInv' /\ AcknowledgedReceiptsAreFinal'
BY DEF IInv, TypeOK, Grows, ReceiptsInv, Answers, AcknowledgedReceiptsAreFinal

LEMMA WorldsKeep ==
  ASSUME IInv, UNCHANGED <<worlds, prepared, selfSealed>>
  PROVE  WorldsBySubject' /\ CarriersAdmitted'
BY DEF IInv, WorldsBySubject, CarriersAdmitted, AdmittedReservation

\* Storing a reservation that reserve accepts.
LEMMA ReserveGrows ==
  ASSUME IInv, NEW c \in Callers, pc[c] = "reserving", ReserveAccepts(job[c].res),
         UNCHANGED <<actuated, selfSealed>>,
         \/ UNCHANGED reservations
         \/ reservations' = [reservations EXCEPT ![job[c].res.id] = job[c].res]
  PROVE  Grows
BY DEF IInv, TypeOK, Grows, ReserveAccepts, Carriers, Reservations

\* A call that ends leaves nothing to account for.
LEMMA LeaveMoves ==
  ASSUME IInv, NEW c \in Callers, Leave(c, pc[c])
  PROVE  Moves(c) /\ CallerInv(c)'
BY DEF IInv, TypeOK, Leave, Goto, Moves, CallerInv

\* A step of one caller, action by action.
LEMMA ExecuteStep ==
  ASSUME IInv, NEW c \in Callers, Execute(c)
  PROVE  Rest'
<1>. USE DEF Rest, Answers
<1>0. pc[c] # "idle" => /\ job[c] \in Carriers /\ job[c].res \in Reservations
                        /\ job[c].res.id \in Ids
                        /\ Handed(job[c]) = job[c].res
  BY HandedIsReserved DEF IInv, TypeOK, JobsVerify, Carriers, Reservations
<1>1. ASSUME NEW p \in prepared, Begin(c, p)
      PROVE  Rest'
  <2>1. Grows /\ Moves(c) /\ CallerInv(c)'
    BY <1>1 DEF Begin, Goto, IInv, TypeOK, Grows, Moves,
          CallerInv, AdmittedReservation, CarriersAdmitted, journalVars
  <2>2. QED
    BY <1>1, <2>1, OthersKeep, ActuatedKeep, ReceiptsKeep, WorldsKeep DEF Begin, journalVars
<1>2. CASE Reserve(c)
  <2>1. Grows
    BY <1>2, ReserveGrows DEF Reserve, Goto, historyVars
  <2>2. Moves(c) /\ CallerInv(c)'
    BY <1>0, <1>2 DEF Reserve, Goto, IInv, TypeOK, Moves, CallersInv, CallerInv,
                      AdmittedReservation, historyVars
  <2>3. QED
    BY <1>2, <2>1, <2>2, OthersKeep, ActuatedKeep, ReceiptsKeep, WorldsKeep
       DEF Reserve, historyVars
<1>3. CASE ReserveCollides(c)
  <2>1. Grows
    BY <1>3 DEF ReserveCollides, Grows, journalVars, historyVars
  <2>2. QED
    BY <1>3, <2>1, LeaveMoves, OthersKeep, ActuatedKeep, ReceiptsKeep, WorldsKeep
       DEF ReserveCollides, journalVars, historyVars
<1>4. CASE ReserveFails(c)
  <2>1. Grows
    BY <1>4, ReserveGrows DEF ReserveFails, historyVars
  <2>2. QED
    BY <1>4, <2>1, LeaveMoves, OthersKeep, ActuatedKeep, ReceiptsKeep, WorldsKeep
       DEF ReserveFails, historyVars
<1>5. CASE Actuate(c)
  <2>1. /\ pc[c] = "reserved" /\ reservations[job[c].res.id] = job[c].res
        /\ AdmittedReservation(job[c].res) /\ Verifies(job[c])
        /\ actuated' = actuated \cup {job[c].res}
        /\ UNCHANGED <<prepared, reservations, receipts, job, receipt, selfSealed, acked, handles>>
    BY <1>0, <1>5 DEF Actuate, Goto, IInv, JobsVerify, CallersInv, CallerInv, journalVars
  <2>2. Grows /\ Moves(c) /\ CallerInv(c)'
    BY <1>5, <2>1 DEF Actuate, Goto, IInv, TypeOK, Grows, Moves, CallerInv, AdmittedReservation
  <2>3. ZeroUnreceiptedActuation' /\ OnlyAdmittedActuation' /\ RecoveryHandlesAreDurable'
    BY <2>1 DEF IInv, ZeroUnreceiptedActuation, OnlyAdmittedActuation, Answers,
                RecoveryHandlesAreDurable, AdmittedReservation, Verifies
  <2>4. WorldsBySubject'
    BY <1>5 DEF Actuate, IInv, TypeOK, WorldsBySubject
  <2>5. CarriersAdmitted'
    BY <2>1 DEF IInv, CarriersAdmitted, AdmittedReservation
  <2>6. QED
    BY <2>1, <2>2, <2>3, <2>4, <2>5, OthersKeep, ReceiptsKeep
<1>6. CASE Observe(c)
  <2>1. PICK obs \in {NoWorld} \cup {worlds[s] : s \in Subjects} :
          receipt' = [receipt EXCEPT ![c] = SealedReceipt(job[c], signal[c], obs)]
    BY <1>6 DEF Observe
  <2>2. /\ pc[c] = "actuated" /\ signal[c] \in Signals /\ obs \in Worlds \cup {NoWorld}
        /\ Verifies(job[c])
    BY <1>6 DEF Observe, Goto, IInv, TypeOK, JobsVerify
  <2>3. /\ SealedReceipt(job[c], signal[c], obs).res = job[c].res
        /\ SealedReceipt(job[c], signal[c], obs).outcome = "Done"
             => Earned(SealedReceipt(job[c], signal[c], obs))
    BY <1>0, <2>2, SealedType
  <2>4. receipt'[c] = SealedReceipt(job[c], signal[c], obs)
    BY <2>1 DEF IInv, TypeOK
  <2>5. Grows /\ Moves(c)
    BY <1>6, <2>1 DEF Observe, Goto, IInv, TypeOK, Grows, Moves, journalVars, historyVars
  <2>6. CallerInv(c)'
    BY <1>6, <2>2, <2>3, <2>4 DEF Observe, Goto, IInv, TypeOK,
          CallersInv, CallerInv, AdmittedReservation,
                                  journalVars, historyVars, Earned
  <2>7. QED
    BY <1>6, <2>5, <2>6, OthersKeep, ActuatedKeep, ReceiptsKeep, WorldsKeep
       DEF Observe, journalVars, historyVars
<1>7. CASE FinalizeLookup(c)
  <2>1. /\ pc[c] = "sealed" /\ receipt[c].res = job[c].res
        /\ reservations[receipt[c].res.id] = receipt[c].res
    BY <1>7 DEF FinalizeLookup, IInv, CallersInv, CallerInv
  <2>2. Grows /\ Moves(c) /\ CallerInv(c)'
    BY <1>7, <2>1 DEF FinalizeLookup, Goto, IInv, TypeOK, Grows, Moves,
          CallersInv, CallerInv, AdmittedReservation,
                      journalVars
  <2>3. QED
    BY <1>7, <2>1, <2>2, OthersKeep, ActuatedKeep, ReceiptsKeep, WorldsKeep
       DEF FinalizeLookup, journalVars
<1>8. CASE FinalizeStore(c) \/ FinalizeConflicts(c) \/ FinalizeFails(c)
  <2>1. /\ pc[c] = "storing" /\ receipt[c] \in Receipts /\ receipt[c].res = job[c].res
        /\ reservations[job[c].res.id] = job[c].res /\ job[c].res \in actuated
        /\ receipt[c].outcome = "Done" => Earned(receipt[c])
    BY <1>8 DEF FinalizeStore, FinalizeConflicts, FinalizeFails, IInv, TypeOK, CallersInv,
                CallerInv
  <2>2. /\ Leave(c, pc[c])
        /\ UNCHANGED <<worlds, prepared, reservations, selfSealed, actuated>>
        /\ handles' \in {handles, handles \cup {receipt[c].res}}
    BY <1>8, <2>1 DEF FinalizeStore, FinalizeConflicts, FinalizeFails, journalVars
  <2>3. Grows
    BY <2>2 DEF Grows
  <2>4. ZeroUnreceiptedActuation' /\ OnlyAdmittedActuation' /\ RecoveryHandlesAreDurable'
    BY <2>1, <2>2 DEF IInv, ZeroUnreceiptedActuation, OnlyAdmittedActuation, Answers,
                      RecoveryHandlesAreDurable
  <2>5. \/ UNCHANGED <<receipts, acked>>
        \/ /\ FinalizeAccepts(receipt[c])
           /\ receipts' = [receipts EXCEPT ![receipt[c].res.id] = receipt[c]]
           /\ acked' \in {acked, acked \cup {receipt[c]}}
    BY <1>8 DEF FinalizeStore, FinalizeConflicts, FinalizeFails, journalVars
  <2>6. ReceiptsInv' /\ AcknowledgedReceiptsAreFinal'
    <3>1. CASE UNCHANGED <<receipts, acked>>
      BY <2>3, <3>1, ReceiptsKeep
    <3>2. CASE /\ FinalizeAccepts(receipt[c])
               /\ receipts' = [receipts EXCEPT ![receipt[c].res.id] = receipt[c]]
               /\ acked' \in {acked, acked \cup {receipt[c]}}
      <4>1. ReceiptsInv'
        BY <1>0, <2>1, <2>2, <3>2 DEF IInv, TypeOK, ReceiptsInv
      <4>2. \A r \in acked : r \in Receipts /\ receipts[r.res.id] = r /\ r # NoReceipt
        BY DEF IInv, TypeOK, Answers, AcknowledgedReceiptsAreFinal
      <4>3. receipts'[receipt[c].res.id] = receipt[c]
        BY <1>0, <2>1, <3>2 DEF IInv, TypeOK
      <4>4. \A r \in acked : receipts'[r.res.id] = r
        BY <1>0, <2>1, <3>2, <4>2, <4>3 DEF IInv, TypeOK, FinalizeAccepts
      <4>5. QED
        BY <3>2, <4>1, <4>3, <4>4 DEF AcknowledgedReceiptsAreFinal
    <3>3. QED
      BY <2>5, <3>1, <3>2
  <2>7. QED
    BY <2>2, <2>3, <2>4, <2>6, LeaveMoves, OthersKeep, WorldsKeep
<1>9. CASE Cancel(c)
  <2>1. Grows
    BY <1>9 DEF Cancel, Grows, journalVars, historyVars
  <2>2. QED
    BY <1>9, <2>1, LeaveMoves, OthersKeep, ActuatedKeep, ReceiptsKeep, WorldsKeep
       DEF Cancel, journalVars, historyVars
<1>10. QED
  BY <1>1, <1>2, <1>3, <1>4, <1>5, <1>6, <1>7, <1>8, <1>9 DEF Execute

LEMMA IInvStep == IInv /\ [Next]_vars => IInv'
<1>. SUFFICES ASSUME IInv, [Next]_vars
              PROVE  IInv'
  OBVIOUS
<1>2. TypeOK' /\ JobsVerify'
  BY TypeStep, JobsVerifyStep DEF IInv
<1>3. Rest'
  <2>1. CASE UNCHANGED vars
    BY <2>1 DEF vars, journalVars, localVars, historyVars, IInv, Rest, WorldsBySubject,
                CarriersAdmitted, CallersInv, CallerInv, AdmittedReservation, ReceiptsInv, Answers,
                ZeroUnreceiptedActuation, OnlyAdmittedActuation,
                AcknowledgedReceiptsAreFinal, RecoveryHandlesAreDurable
  <2>2. QED
    BY <2>1, EnvironmentStep, ExecuteStep DEF Next
<1>4. QED
  BY <1>2, <1>3 DEF IInv, Rest

\* The inductive invariant holds of every execution.
LEMMA Invariance == Spec => []IInv
BY InitIInv, IInvStep, PTL DEF Spec

-----------------------------------------------------------------------------
(* The theorems.                                                           *)

\* Types: the executor's locals and the journal hold what they should.
THEOREM TypeCorrect == Spec => []TypeOK
<1>1. IInv => TypeOK
  BY DEF IInv
<1>2. QED
  BY <1>1, Invariance, PTL

\* Zero unreceipted actuation: with any number of racing, failing and cancelled
\* executions, what the actuator was handed is durably reserved.
THEOREM ZeroUnreceipted == Spec => []ZeroUnreceiptedActuation
<1>1. IInv => ZeroUnreceiptedActuation
  BY DEF IInv
<1>2. QED
  BY <1>1, Invariance, PTL

\* Nothing is actuated under a reservation of prepare's that prepare would not
\* have admitted, whatever was altered around the reservation; and under one that
\* a caller sealed, nothing that its grant does not cover.
THEOREM OnlyAdmitted == Spec => []OnlyAdmittedActuation
<1>1. IInv => OnlyAdmittedActuation
  BY DEF IInv
<1>2. QED
  BY <1>1, Invariance, PTL

\* A durable Done was acknowledged and observed.
THEOREM DoneEarned == Spec => []DoneIsEarned
<1>1. IInv => DoneIsEarned
  BY DEF IInv, ReceiptsInv, DoneIsEarned
<1>2. QED
  BY <1>1, Invariance, PTL

\* What execute answered Ok, the journal bears out, however many raced for it.
THEOREM AnswersBorneOut == Spec => []AcknowledgedReceiptsAreFinal
<1>1. IInv => AcknowledgedReceiptsAreFinal
  BY DEF IInv, Answers
<1>2. QED
  BY <1>1, Invariance, PTL

\* The recovery handle of FinalizeAfterActuation names a durable reservation
\* that was actuated.
THEOREM HandlesBorneOut == Spec => []RecoveryHandlesAreDurable
<1>1. IInv => RecoveryHandlesAreDurable
  BY DEF IInv, Answers
<1>2. QED
  BY <1>1, Invariance, PTL

\* Replay confers ALIVE on nothing but the exact observed world of a Done.
THEOREM ReplayExact == Spec => []ReplayIsExact
<1>1. IInv => ReplayIsExact
  BY DEF IInv, WorldsBySubject, ReceiptsInv, ReplayIsExact, Replays, Earned
<1>2. QED
  BY <1>1, Invariance, PTL

-----------------------------------------------------------------------------
(* Steps of the journal.                                                   *)

\* How a step may change the journal: not at all, or by storing in a free slot
\* the reservation, or the receipt, of the caller that takes the step.
StoresReservation(r) ==
  /\ r \in Reservations /\ ReserveAccepts(r)
  /\ reservations' = [reservations EXCEPT ![r.id] = r]
  /\ UNCHANGED <<receipts, actuated>>

Attempts(r) ==
  /\ r \in Reservations /\ reservations[r.id] = r
  /\ actuated' = actuated \cup {r}
  /\ UNCHANGED journalVars

StoresReceipt(v) ==
  /\ v \in Receipts /\ FinalizeAccepts(v)
  /\ v.res \in actuated
  /\ v.outcome = "Done" => Earned(v)
  /\ receipts' = [receipts EXCEPT ![v.res.id] = v]
  /\ UNCHANGED <<reservations, actuated>>

LEMMA JournalSteps ==
  ASSUME IInv, [Next]_vars
  PROVE  \/ UNCHANGED <<reservations, receipts, actuated>>
         \/ \E r \in Reservations : StoresReservation(r) \/ Attempts(r)
         \/ \E v \in Receipts : StoresReceipt(v)
<1>. DEFINE Goal ==
             \/ UNCHANGED <<reservations, receipts, actuated>>
             \/ \E r \in Reservations : StoresReservation(r) \/ Attempts(r)
             \/ \E v \in Receipts : StoresReceipt(v)
<1>1. CASE UNCHANGED vars
  BY <1>1 DEF vars, journalVars, historyVars
<1>2. CASE Environment
  BY <1>2 DEF Environment, Drift, Prepare, Alter, Reseal, Circulate, journalVars,
              historyVars
<1>3. ASSUME NEW c \in Callers, Execute(c)
      PROVE  Goal
  <2>0. pc[c] # "idle" => /\ job[c].res \in Reservations
                          /\ Handed(job[c]) = job[c].res
    BY HandedIsReserved DEF IInv, TypeOK, JobsVerify, Carriers
  <2>1. CASE \/ \E p \in prepared : Begin(c, p)
             \/ ReserveCollides(c) \/ Observe(c) \/ FinalizeLookup(c)
             \/ FinalizeConflicts(c) \/ Cancel(c)
    BY <2>1 DEF Begin, ReserveCollides, Observe, FinalizeLookup, FinalizeConflicts, Cancel,
                journalVars, historyVars
  <2>2. CASE Reserve(c) \/ ReserveFails(c)
    BY <2>0, <2>2 DEF Reserve, ReserveFails, Goto, StoresReservation, historyVars
  <2>3. CASE Actuate(c)
    <3>1. pc[c] = "reserved" /\ reservations[job[c].res.id] = job[c].res
      BY <2>3 DEF Actuate, Goto, IInv, CallersInv, CallerInv
    <3>2. QED
      BY <2>0, <2>3, <3>1 DEF Actuate, Attempts
  <2>4. CASE FinalizeStore(c) \/ FinalizeFails(c)
    <3>1. /\ pc[c] = "storing" /\ receipt[c] \in Receipts /\ receipt[c].res \in actuated
          /\ receipt[c].outcome = "Done" => Earned(receipt[c])
      BY <2>4 DEF FinalizeStore, FinalizeFails, IInv, TypeOK, CallersInv, CallerInv
    <3>2. PICK v \in Receipts : v = receipt[c]
      BY <3>1
    <3>3. CASE UNCHANGED receipts
      BY <2>4, <3>3 DEF FinalizeStore, FinalizeFails
    <3>4. CASE receipts' = [receipts EXCEPT ![v.res.id] = v]
      <4>1. StoresReceipt(v)
        BY <2>4, <3>1, <3>2, <3>4 DEF FinalizeStore, FinalizeFails, StoresReceipt
      <4>2. QED
        BY <4>1
    <3>5. QED
      BY <2>4, <3>2, <3>3, <3>4 DEF FinalizeStore, FinalizeFails
  <2>5. QED
    BY <1>3, <2>1, <2>2, <2>3, <2>4 DEF Execute
<1>4. QED
  BY <1>1, <1>2, <1>3 DEF Next

\* The journal is append-only, whoever writes to it and whatever fails.
THEOREM AppendOnly == Spec => JournalIsAppendOnly
<1>1. ASSUME IInv, [Next]_vars, NEW i \in Ids
      PROVE  /\ reservations[i] # NoReservation => reservations'[i] = reservations[i]
             /\ receipts[i] # NoReceipt => receipts'[i] = receipts[i]
  <2>1. CASE UNCHANGED <<reservations, receipts, actuated>>
    BY <2>1
  <2>2. ASSUME NEW r \in Reservations, StoresReservation(r) \/ Attempts(r)
        PROVE  /\ reservations[i] # NoReservation => reservations'[i] = reservations[i]
               /\ receipts[i] # NoReceipt => receipts'[i] = receipts[i]
    BY <1>1, <2>2 DEF StoresReservation, Attempts, ReserveAccepts, IInv, TypeOK, journalVars
  <2>3. ASSUME NEW v \in Receipts, StoresReceipt(v)
        PROVE  /\ reservations[i] # NoReservation => reservations'[i] = reservations[i]
               /\ receipts[i] # NoReceipt => receipts'[i] = receipts[i]
    BY <1>1, <2>3 DEF StoresReceipt, FinalizeAccepts, IInv, TypeOK
  <2>4. QED
    BY <1>1, <2>1, <2>2, <2>3, JournalSteps
<1>2. IInv /\ [Next]_vars =>
        \A i \in Ids :
          /\ reservations[i] # NoReservation => reservations'[i] = reservations[i]
          /\ receipts[i] # NoReceipt => receipts'[i] = receipts[i]
  BY <1>1
<1>3. QED
  BY <1>2, Invariance, PTL DEF Spec, JournalIsAppendOnly

-----------------------------------------------------------------------------
(* Refinement.                                                             *)

LEMMA LawInitially == Init => Law!LawInit
BY DEF Init, Law!LawInit, Reserved, Verdict, Reservations

\* Each way to change the journal is a step of the law on one reservation.
LEMMA LawStep ==
  ASSUME IInv, [Next]_vars
  PROVE  [Law!LawNext]_(Law!lawVars)
<1>. USE DEF Law!LawNext, Law!lawVars
<1>1. CASE UNCHANGED <<reservations, receipts, actuated>>
  BY <1>1 DEF Reserved, Verdict
<1>2. ASSUME NEW r \in Reservations, StoresReservation(r)
      PROVE  Law!Reserve(r)
  <2>1. Reserved' = Reserved \cup {r}
    BY <1>2 DEF StoresReservation, ReserveAccepts, Reserved, IInv, TypeOK, Reservations
  <2>2. QED
    BY <1>2, <2>1 DEF Law!Reserve, StoresReservation, Verdict
<1>3. ASSUME NEW r \in Reservations, Attempts(r)
      PROVE  Law!Attempt(r)
  BY <1>3 DEF Law!Attempt, Attempts, Reserved, Verdict, journalVars
<1>4. ASSUME NEW v \in Receipts, StoresReceipt(v)
      PROVE  Law!LawNext \/ UNCHANGED Law!lawVars
  <2>1. CASE receipts[v.res.id] = v
    <3>1. receipts' = receipts
      BY <1>4, <2>1 DEF StoresReceipt, IInv, TypeOK
    <3>2. QED
      BY <1>4, <3>1 DEF StoresReceipt, Reserved, Verdict
  <2>2. CASE receipts[v.res.id] = NoReceipt
    <3>1. v.res \in Reservations /\ v.res.id \in Ids /\ v # NoReceipt
      BY DEF Receipts, ReceiptsOf, Reservations
    <3>2. Verdict(v.res) = NoReceipt /\ Verdict(v.res)' = v
      BY <1>4, <2>2, <3>1 DEF Verdict, StoresReceipt, IInv, TypeOK
    <3>3. \A q \in Reservations \ {v.res} : Verdict(q)' = Verdict(q)
      BY <1>4, <2>2, <3>1 DEF Verdict, StoresReceipt, IInv, TypeOK, Reservations
    <3>4. v \in LawfulReceipts(v.res)
      BY <1>4 DEF LawfulReceipts, StoresReceipt, Receipts, ReceiptsOf
    <3>5. Law!Conclude(v.res)
      BY <1>4, <3>1, <3>2, <3>3, <3>4 DEF Law!Conclude, StoresReceipt, Reserved
    <3>6. QED
      BY <3>1, <3>5
  <2>3. QED
    BY <1>4, <2>1, <2>2 DEF StoresReceipt, FinalizeAccepts
<1>5. QED
  BY <1>1, <1>2, <1>3, <1>4, JournalSteps

\* The executor implements BrceLaw: a durable reservation before the first
\* actuation, a verdict only on what was actuated, and never a second verdict.
THEOREM ExecutorImplementsLaw == Spec => ImplementsLaw
<1>1. IInv /\ [Next]_vars => [Law!LawNext]_(Law!lawVars)
  BY LawStep
<1>2. QED
  BY <1>1, LawInitially, Invariance, PTL DEF Spec, ImplementsLaw, Law!LawSpec
=============================================================================
