--------------------------- MODULE CommerceProofs ---------------------------
(***************************************************************************)
(* Theorems of Commerce, for every set of observations, keys, sources and  *)
(* amounts, every price and every length of the ledger.                    *)
(*                                                                         *)
(* The invariant orders the commercial states: what a stage has receipted  *)
(* says how far the state has come, and how far it has come says which of  *)
(* the totals can have been written.                                       *)
(***************************************************************************)
EXTENDS Commerce, FiniteSetTheorems, SequenceTheorems, NaturalSets

USE CommerceAssumption

Adjustments == {"CreditApplied", "RefundReconciled"}

StageKinds == DOMAIN Advances \ Adjustments

Kinds == StatusKinds \cup DOMAIN Advances

\* How far the agreement has come in a commercial state.
Rank ==
  [Discovered |-> 0, AgreementObserved |-> 1, Entitled |-> 2, Fulfilled |-> 3, Manufactured |-> 4,
   Delivered |-> 5, Verified |-> 6, UsageRecorded |-> 7, Metered |-> 8, Reconciled |-> 9]

States == DOMAIN Rank

\* What a notification of a status is keyed by.
Prefix ==
  [EntitlementChanged |-> "entitlement-change", EntitlementSuspended |-> "suspend",
   EntitlementReinstated |-> "reinstate", EntitlementRevoked |-> "revoke"]

\* The core, and the fields that the properties relate.
IsReceipt(r) ==
  /\ DOMAIN r = ReceiptFields
  /\ r.kind \in Kinds /\ r.units \in 0..MaxU64 /\ r.amount \in 0..MaxU64

LedgerTyped ==
  /\ state \in States
  /\ \E S : receipts \in Seq(S)
  /\ \A i \in DOMAIN receipts : IsReceipt(receipts[i])
  /\ IsFiniteSet(DOMAIN idempotency)

TotalsTyped ==
  /\ entitlement \in {"Unknown", "Active", "Suspended", "Revoked"}
  /\ {quantity, usage, metered, settlement, credits, refunds} \subseteq 0..MaxU64
  /\ Total("CreditApplied") \in Nat /\ Total("RefundReconciled") \in Nat

StagesPassed ==
  \A i \in DOMAIN receipts :
    /\ receipts[i].kind \in StageKinds => Rank[Advances[receipts[i].kind][2]] <= Rank[state]
    /\ receipts[i].kind \in Adjustments => state = "Reconciled"

StatusesKeyed ==
  \A i \in DOMAIN receipts :
    receipts[i].kind \in StatusKinds =>
      <<Prefix[receipts[i].kind], receipts[i].event>> \in DOMAIN idempotency

\* Before usage is receipted, only a caller can have taken the key of one.
UsageKeysFree ==
  Rank[state] < Rank["UsageRecorded"] =>
    \A source \in Sources, units \in Units :
      <<"usage", source, units>> \in DOMAIN idempotency => UsageKeyTaken

TotalsWritten ==
  /\ Rank[state] < Rank["UsageRecorded"] => metered = 0 /\ (usage = 0 \/ UsageKeyTaken)
  /\ Rank[state] < Rank["Metered"] => settlement = 0
  /\ Rank[state] < Rank["Reconciled"] =>
       /\ credits = 0 /\ refunds = 0
       /\ Total("CreditApplied") = 0 /\ Total("RefundReconciled") = 0

UsageReceipted ==
  Rank[state] >= Rank["UsageRecorded"] =>
    /\ usage # 0
    /\ \E i \in Receipted("UsageDerived") :
         receipts[i].units <= usage /\ (receipts[i].units = usage \/ UsageKeyTaken)

LedgerInv ==
  LedgerTyped /\ StandingIsReplayable /\ StagesPassed /\ StatusesKeyed /\ ReceiptedOnce
              /\ IdempotencyIsExact

MoneyInv ==
  TotalsTyped /\ UsageKeysFree /\ TotalsWritten /\ UsageReceipted /\ MoneyFollowsUsage
              /\ AdjustmentsWithinSettlement

IInv == LedgerInv /\ MoneyInv

-----------------------------------------------------------------------------
(* The ledger.                                                             *)

\* What an idempotency key derived from an input may be, and what apply is
\* passed: every handler's input is one.
IsInput(in) ==
  /\ in.kind \in Kinds /\ in.units \in 0..MaxU64 /\ in.amount \in 0..MaxU64
  /\ in.kind \in StatusKinds => in.key = <<Prefix[in.kind], in.event>>
  /\ \A source \in Sources, units \in Units :
       in.key = <<"usage", source, units>> => in.kind = "UsageDerived" \/ UsageKeyTaken

LEMMA KindsAre ==
  /\ DOMAIN Advances =
       {"AgreementObserved", "EntitlementAdmitted", "FulfillmentAuthorized", "ManufactureBound",
        "DeliveryBound", "DeliveryVerified", "UsageDerived", "MeterAccepted", "SettlementReconciled",
        "CreditApplied", "RefundReconciled"}
  /\ DOMAIN Prefix = StatusKinds
  /\ DOMAIN Rank =
       {"Discovered", "AgreementObserved", "Entitled", "Fulfilled", "Manufactured", "Delivered",
        "Verified", "UsageRecorded", "Metered", "Reconciled"}
BY DEF Advances, Prefix, StatusKinds, Rank

\* Every stage takes the state one rank further, an adjustment leaves it at the
\* last, and all of them lead to a commercial state.
LEMMA StagesAdvance ==
  /\ \A kind \in StageKinds : /\ Advances[kind][1] \in States /\ Advances[kind][2] \in States
                              /\ Rank[Advances[kind][2]] = Rank[Advances[kind][1]] + 1
  /\ \A kind \in Adjustments : Advances[kind][1] = "Reconciled" /\ Advances[kind][2] = "Reconciled"
  /\ \A s \in States : Rank[s] \in 0..9
  /\ StatusKinds \cap DOMAIN Advances = {}
BY DEF StageKinds, Adjustments, States, Advances, Rank, StatusKinds

LEMMA Appended ==
  ASSUME LedgerTyped, NEW r, receipts' = Append(receipts, r)
  PROVE  /\ Len(receipts) \in Nat /\ Len(receipts') = Len(receipts) + 1
         /\ DOMAIN receipts = 1..Len(receipts) /\ DOMAIN receipts' = 1..(Len(receipts) + 1)
         /\ \A i \in DOMAIN receipts : receipts'[i] = receipts[i]
         /\ receipts'[Len(receipts) + 1] = r
         /\ \E S : receipts' \in Seq(S)
<1>1. PICK S : receipts \in Seq(S)
  BY DEF LedgerTyped
<1>. DEFINE T == S \cup {r}
<1>2. receipts \in Seq(T) /\ r \in T
  BY <1>1, SeqMonotonic, Zenon
<1>. HIDE DEF T
<1>3. QED
  BY <1>2

LEMMA RecordTyped ==
  ASSUME LedgerTyped, NEW in, IsInput(in), Accepts(in), Record(in)
  PROVE  LedgerTyped'
<1>. DEFINE r == CommercialReceipt(in)
<1>1. receipts' = Append(receipts, r)
  BY DEF Record
<1>2. IsReceipt(r)
  BY DEF CommercialReceipt, IsReceipt, IsInput, ReceiptFields
<1>3. state' \in States
  <2>1. NextState(in.kind) \in States
    BY StagesAdvance, KindsAre DEF NextState, IsInput, Kinds, StageKinds, Adjustments, LedgerTyped, States
  <2>2. QED
    BY <2>1 DEF Record
<1>4. IsFiniteSet(DOMAIN idempotency')
  <2>1. DOMAIN idempotency' = DOMAIN idempotency \cup {in.key}
    BY DEF Record
  <2>2. QED
    BY <2>1, FS_AddElement, Zenon DEF LedgerTyped
<1>5. \A i \in DOMAIN receipts' : IsReceipt(receipts'[i])
  <2>. HIDE DEF r
  <2>1. QED
    BY <1>1, <1>2, Appended DEF LedgerTyped
<1>6. \E S : receipts' \in Seq(S)
  <2>. HIDE DEF r
  <2>1. QED
    BY <1>1, Appended
<1>7. QED
  BY <1>3, <1>4, <1>5, <1>6 DEF LedgerTyped

\* The receipt that a step adds to the ledger.
LEMMA RecordAppends ==
  ASSUME LedgerTyped, NEW in, Record(in)
  PROVE  /\ Len(receipts) \in Nat /\ Len(receipts') = Len(receipts) + 1
         /\ DOMAIN receipts = 1..Len(receipts) /\ DOMAIN receipts' = 1..(Len(receipts) + 1)
         /\ \A i \in DOMAIN receipts : receipts'[i] = receipts[i]
         /\ LET r == receipts'[Len(receipts) + 1]
            IN  /\ r.kind = in.kind /\ r.event = in.event /\ r.source = in.source
                /\ r.units = in.units /\ r.amount = in.amount
                /\ r.before = state /\ r.after = state' /\ r.previous = LastDigest
<1>. DEFINE r == CommercialReceipt(in)
<1>1. /\ r.kind = in.kind /\ r.event = in.event /\ r.source = in.source
      /\ r.units = in.units /\ r.amount = in.amount
      /\ r.before = state /\ r.after = state' /\ r.previous = LastDigest
  BY DEF CommercialReceipt, Record
<1>2. receipts' = Append(receipts, r)
  BY DEF Record
<1>. HIDE DEF r
<1>3. QED
  BY <1>1, <1>2, Appended

LEMMA RecordReplayable ==
  ASSUME LedgerTyped, StandingIsReplayable, NEW in, Record(in)
  PROVE  StandingIsReplayable'
<1>. DEFINE n == Len(receipts)
<1>0. /\ n \in Nat /\ Len(receipts') = n + 1
      /\ DOMAIN receipts = 1..n /\ DOMAIN receipts' = 1..(n + 1)
      /\ \A i \in DOMAIN receipts : receipts'[i] = receipts[i]
      /\ receipts'[n + 1].before = state /\ receipts'[n + 1].after = state'
      /\ receipts'[n + 1].previous = LastDigest
  BY RecordAppends
<1>1. LastDigest = IF n = 0 THEN NoDigest ELSE receipts[n].core
  BY <1>0 DEF LastDigest, LedgerTyped
<1>2. state = IF n = 0 THEN "Discovered" ELSE receipts[n].after
  BY DEF StandingIsReplayable
<1>3. ASSUME NEW i \in 1..(n + 1)
      PROVE  /\ receipts'[i].before = IF i - 1 = 0 THEN "Discovered" ELSE receipts'[i - 1].after
             /\ receipts'[i].previous = IF i = 1 THEN NoDigest ELSE receipts'[i - 1].core
  <2>. HIDE DEF n
  <2>1. CASE i = n + 1
    <3>1. i - 1 = n /\ (n # 0 => n \in DOMAIN receipts)
      BY <1>0, <2>1
    <3>2. QED
      BY <1>0, <1>1, <1>2, <2>1, <3>1
  <2>2. CASE i # n + 1
    <3>1. i \in DOMAIN receipts /\ (i # 1 => i - 1 \in DOMAIN receipts) /\ (i - 1 = 0 <=> i = 1)
      BY <1>0, <2>2
    <3>2. /\ receipts[i].before = IF i - 1 = 0 THEN "Discovered" ELSE receipts[i - 1].after
          /\ receipts[i].previous = IF i = 1 THEN NoDigest ELSE receipts[i - 1].core
      BY <3>1 DEF StandingIsReplayable
    <3>3. QED
      BY <1>0, <3>1, <3>2
  <2>3. QED
    BY <2>1, <2>2
<1>4. state' = IF Len(receipts') = 0 THEN "Discovered" ELSE receipts'[Len(receipts')].after
  BY <1>0
<1>5. QED
  BY <1>0, <1>3, <1>4 DEF StandingIsReplayable

\* A recorded stage was the next one, an adjustment keeps the state.
LEMMA RecordPasses ==
  ASSUME LedgerTyped, StagesPassed, NEW in, IsInput(in), Accepts(in), Record(in)
  PROVE  /\ StagesPassed' /\ Rank[state] <= Rank[state']
         /\ in.kind \in StageKinds => Rank[state'] = Rank[state] + 1 /\ Rank[state'] = Rank[Advances[in.kind][2]]
         /\ in.kind \notin StageKinds => state' = state
         /\ in.kind \in Adjustments => state = "Reconciled"
<1>. DEFINE n == Len(receipts)
<1>1. /\ n \in Nat
      /\ DOMAIN receipts = 1..n /\ DOMAIN receipts' = 1..(n + 1)
      /\ \A i \in DOMAIN receipts : receipts'[i] = receipts[i]
      /\ receipts'[n + 1].kind = in.kind
  BY RecordAppends
<1>2. /\ state \in States /\ state' \in States
      /\ Rank[state] \in 0..9 /\ Rank[state'] \in 0..9
  BY RecordTyped, StagesAdvance DEF LedgerTyped
<1>3. in.kind \in StageKinds =>
        Rank[state'] = Rank[state] + 1 /\ Rank[state'] = Rank[Advances[in.kind][2]]
  BY <1>2, StagesAdvance DEF Record, NextState, Accepts, Legal, StageKinds
<1>4. in.kind \notin StageKinds => state' = state
  BY StagesAdvance DEF Record, NextState, Accepts, Legal, StageKinds, Adjustments, IsInput, Kinds
<1>5. in.kind \in Adjustments => state = "Reconciled"
  BY StagesAdvance, KindsAre DEF Record, NextState, Accepts, Legal, Adjustments
<1>6. Rank[state] <= Rank[state']
  BY <1>2, <1>3, <1>4
<1>7. ASSUME NEW i \in 1..(n + 1)
      PROVE  /\ receipts'[i].kind \in StageKinds => Rank[Advances[receipts'[i].kind][2]] <= Rank[state']
             /\ receipts'[i].kind \in Adjustments => state' = "Reconciled"
  <2>. HIDE DEF n
  <2>1. CASE i = n + 1
    <3>1. Rank[state'] <= Rank[state'] /\ (in.kind \in Adjustments => in.kind \notin StageKinds)
      BY <1>2 DEF StageKinds
    <3>2. QED
      BY <1>1, <1>3, <1>4, <1>5, <2>1, <3>1
  <2>2. CASE i # n + 1
    <3>1. i \in DOMAIN receipts /\ receipts'[i] = receipts[i]
      BY <1>1, <2>2
    <3>2. CASE receipts[i].kind \in StageKinds
      <4>1. Rank[Advances[receipts[i].kind][2]] \in 0..9 /\ receipts[i].kind \notin Adjustments
        BY <3>2, StagesAdvance DEF StageKinds
      <4>2. QED
        BY <1>2, <1>6, <3>1, <3>2, <4>1 DEF StagesPassed
    <3>3. CASE receipts[i].kind \in Adjustments
      <4>1. state = "Reconciled" /\ receipts[i].kind \notin StageKinds
        BY <3>1, <3>3 DEF StagesPassed, StageKinds
      <4>2. state' = "Reconciled"
        BY <1>2, <1>6, <4>1, KindsAre DEF States, Rank
      <4>3. QED
        BY <3>1, <4>1, <4>2
    <3>4. QED
      BY <3>1, <3>2, <3>3
  <2>3. QED
    BY <2>1, <2>2
<1>8. StagesPassed'
  BY <1>1, <1>7 DEF StagesPassed
<1>9. QED
  BY <1>3, <1>4, <1>5, <1>6, <1>8

LEMMA RecordKeyed ==
  ASSUME LedgerTyped, StatusesKeyed, NEW in, IsInput(in), Record(in)
  PROVE  StatusesKeyed'
<1>. DEFINE n == Len(receipts)
<1>1. /\ n \in Nat /\ DOMAIN receipts = 1..n /\ DOMAIN receipts' = 1..(n + 1)
      /\ \A i \in DOMAIN receipts : receipts'[i] = receipts[i]
      /\ receipts'[n + 1].kind = in.kind /\ receipts'[n + 1].event = in.event
  BY RecordAppends
<1>2. DOMAIN idempotency' = DOMAIN idempotency \cup {in.key}
  BY DEF Record
<1>3. ASSUME NEW i \in 1..(n + 1), receipts'[i].kind \in StatusKinds
      PROVE  <<Prefix[receipts'[i].kind], receipts'[i].event>> \in DOMAIN idempotency'
  <2>. HIDE DEF n
  <2>1. CASE i = n + 1
    BY <1>1, <1>2, <1>3, <2>1 DEF IsInput
  <2>2. CASE i # n + 1
    <3>1. i \in DOMAIN receipts /\ receipts'[i] = receipts[i]
      BY <1>1, <2>2
    <3>2. QED
      BY <1>2, <1>3, <3>1 DEF StatusesKeyed
  <2>3. QED
    BY <2>1, <2>2
<1>4. QED
  BY <1>1, <1>3 DEF StatusesKeyed

\* A second receipt of a stage would need a state that the first one has left,
\* and one of a notification would need a key that the first one has taken.
LEMMA RecordOnce ==
  ASSUME LedgerTyped, StagesPassed, StatusesKeyed, ReceiptedOnce,
         NEW in, IsInput(in), Accepts(in), Record(in)
  PROVE  ReceiptedOnce'
<1>. DEFINE n == Len(receipts)
<1>1. /\ n \in Nat /\ DOMAIN receipts = 1..n /\ DOMAIN receipts' = 1..(n + 1)
      /\ \A i \in DOMAIN receipts : receipts'[i] = receipts[i]
      /\ receipts'[n + 1].kind = in.kind /\ receipts'[n + 1].event = in.event
  BY RecordAppends
<1>2. ASSUME NEW i \in DOMAIN receipts, receipts[i].kind = in.kind
      PROVE  \/ in.kind \in Adjustments
             \/ in.kind \in StatusKinds /\ receipts[i].event # in.event
  <2>1. CASE in.kind \in StageKinds
    <3>1. Rank[Advances[in.kind][2]] <= Rank[state]
      BY <1>2, <2>1 DEF StagesPassed
    <3>2. Rank[Advances[in.kind][2]] = Rank[state] + 1 /\ Rank[state] \in 0..9
      BY <2>1, RecordPasses, StagesAdvance DEF LedgerTyped
    <3>3. QED
      BY <3>1, <3>2
  <2>2. CASE in.kind \in StatusKinds
    <3>1. <<Prefix[in.kind], receipts[i].event>> \in DOMAIN idempotency
      BY <1>2, <2>2 DEF StatusesKeyed
    <3>2. <<Prefix[in.kind], in.event>> \notin DOMAIN idempotency
      BY <2>2 DEF IsInput, Accepts
    <3>3. QED
      BY <2>2, <3>1, <3>2
  <2>3. QED
    BY <2>1, <2>2 DEF IsInput, Kinds, StageKinds
<1>3. ASSUME NEW i \in 1..(n + 1), NEW j \in 1..(n + 1), i # j, receipts'[i].kind = receipts'[j].kind
      PROVE  \/ receipts'[i].kind \in Adjustments
             \/ receipts'[i].kind \in StatusKinds /\ receipts'[i].event # receipts'[j].event
  <2>. HIDE DEF n
  <2>1. CASE i = n + 1
    <3>1. j \in DOMAIN receipts /\ receipts'[j] = receipts[j]
      BY <1>1, <1>3, <2>1
    <3>2. QED
      BY <1>1, <1>2, <1>3, <2>1, <3>1
  <2>2. CASE j = n + 1
    <3>1. i \in DOMAIN receipts /\ receipts'[i] = receipts[i]
      BY <1>1, <1>3, <2>2
    <3>2. QED
      BY <1>1, <1>2, <1>3, <2>2, <3>1
  <2>3. CASE i # n + 1 /\ j # n + 1
    <3>1. /\ i \in DOMAIN receipts /\ receipts'[i] = receipts[i]
          /\ j \in DOMAIN receipts /\ receipts'[j] = receipts[j]
      BY <1>1, <2>3
    <3>2. QED
      BY <1>3, <3>1 DEF ReceiptedOnce, Adjustments
  <2>4. QED
    BY <2>1, <2>2, <2>3
<1>4. QED
  BY <1>1, <1>3 DEF ReceiptedOnce, Adjustments

LEMMA RecordExact ==
  ASSUME LedgerTyped, IdempotencyIsExact, NEW in, IsInput(in), Accepts(in), Record(in)
  PROVE  IdempotencyIsExact'
<1>. DEFINE n == Len(receipts)
<1>. DEFINE K == DOMAIN idempotency
<1>1. /\ n \in Nat /\ Len(receipts') = n + 1
      /\ DOMAIN receipts = 1..n /\ DOMAIN receipts' = 1..(n + 1)
      /\ \A i \in DOMAIN receipts : receipts'[i] = receipts[i]
      /\ Fingerprint(receipts'[n + 1]) = Fingerprint(in)
  BY RecordAppends DEF Fingerprint
<1>2. /\ DOMAIN idempotency' = K \cup {in.key} /\ in.key \notin K
      /\ \A k \in K : idempotency'[k] = idempotency[k]
      /\ idempotency'[in.key] = [print |-> Fingerprint(in), index |-> n + 1]
  BY DEF Record, Accepts
<1>3. /\ \A k \in K : Fingerprint(receipts[idempotency[k].index]) = idempotency[k].print
      /\ {idempotency[k].index : k \in K} = DOMAIN receipts
      /\ Cardinality(K) = n /\ IsFiniteSet(K)
  BY DEF IdempotencyIsExact, LedgerTyped
<1>. HIDE DEF n, K
<1>4. \A k \in K : idempotency[k].index \in DOMAIN receipts
  BY <1>3
<1>5. ASSUME NEW k \in DOMAIN idempotency'
      PROVE  Fingerprint(receipts'[idempotency'[k].index]) = idempotency'[k].print
  <2>1. CASE k = in.key
    BY <1>1, <1>2, <2>1
  <2>2. CASE k # in.key
    <3>1. k \in K /\ idempotency'[k] = idempotency[k]
      BY <1>2, <2>2
    <3>2. receipts'[idempotency[k].index] = receipts[idempotency[k].index]
      BY <1>1, <1>4, <3>1
    <3>3. QED
      BY <1>3, <3>1, <3>2
  <2>3. QED
    BY <2>1, <2>2
<1>6. {idempotency'[k].index : k \in DOMAIN idempotency'} = DOMAIN receipts'
  <2>1. {idempotency'[k].index : k \in K \cup {in.key}} = {idempotency[k].index : k \in K} \cup {n + 1}
    BY <1>2
  <2>2. DOMAIN receipts' = DOMAIN receipts \cup {n + 1}
    BY <1>1
  <2>3. QED
    BY <1>2, <1>3, <2>1, <2>2
<1>7. Cardinality(DOMAIN idempotency') = Len(receipts')
  <2>1. Cardinality(K \cup {in.key}) = Cardinality(K) + 1
    BY <1>2, <1>3, FS_AddElement, Zenon
  <2>2. QED
    BY <1>1, <1>2, <1>3, <2>1
<1>8. QED
  BY <1>5, <1>6, <1>7 DEF IdempotencyIsExact

LEMMA UsageKeysKept ==
  ASSUME LedgerTyped, LedgerTyped', UsageKeysFree, Rank[state] <= Rank[state'],
         NEW in, IsInput(in), Record(in), in.kind = "UsageDerived" => Rank[state'] = Rank["UsageRecorded"]
  PROVE  UsageKeysFree'
<1>1. DOMAIN idempotency' = DOMAIN idempotency \cup {in.key}
  BY DEF Record
<1>2. Rank[state] \in 0..9 /\ Rank[state'] \in 0..9 /\ Rank["UsageRecorded"] = 7
  BY StagesAdvance DEF LedgerTyped, Rank
<1>3. CASE in.kind = "UsageDerived"
  BY <1>2, <1>3 DEF UsageKeysFree
<1>4. CASE in.kind # "UsageDerived"
  BY <1>1, <1>2, <1>4 DEF UsageKeysFree, IsInput
<1>5. QED
  BY <1>3, <1>4

-----------------------------------------------------------------------------
(* Sums of receipts.                                                       *)

LEMMA SumSteps ==
  ASSUME NEW w
  PROVE  SumTo(w, 0) = 0 /\ \A n \in Nat : SumTo(w, n + 1) = SumTo(w, n) + w[n + 1]
<1>. DEFINE sum == CHOOSE f : f = [i \in Nat |-> IF i = 0 THEN 0 ELSE f[i - 1] + w[i]]
<1>1. \A n : SumTo(w, n) = sum[n]
  BY DEF SumTo
<1>2. sum = [i \in Nat |-> IF i = 0 THEN 0 ELSE sum[i - 1] + w[i]]
  BY AddsAll
<1>. HIDE DEF sum
<1>3. \A i \in Nat : i + 1 \in Nat /\ i + 1 # 0 /\ (i + 1) - 1 = i
  OBVIOUS
<1>4. sum[0] = 0 /\ \A i \in Nat : sum[i + 1] = sum[i] + w[i + 1]
  BY <1>2, <1>3
<1>5. QED
  BY <1>1, <1>4

\* A sum reads no further than it goes.
LEMMA SumReads ==
  ASSUME NEW w, NEW v, NEW n \in Nat, \A i \in 1..n : w[i] = v[i]
  PROVE  SumTo(w, n) = SumTo(v, n)
<1>. DEFINE f == [i \in Nat |-> SumTo(w, i)]
<1>. DEFINE g == [i \in Nat |-> SumTo(v, i)]
<1>1. ASSUME NEW u PROVE Adds([i \in Nat |-> SumTo(u, i)], u, n)
  <2>. DEFINE h == [i \in Nat |-> SumTo(u, i)]
  <2>1. h[0] = 0
    BY SumSteps
  <2>2. ASSUME NEW i \in 1..n PROVE h[i] = h[i - 1] + u[i]
    <3>1. i - 1 \in Nat /\ i \in Nat /\ (i - 1) + 1 = i
      OBVIOUS
    <3>2. SumTo(u, (i - 1) + 1) = SumTo(u, i - 1) + u[(i - 1) + 1]
      BY <3>1, SumSteps, Zenon
    <3>3. QED
      BY <3>1, <3>2
  <2>3. QED
    BY <2>1, <2>2 DEF Adds
<1>2. Adds(f, w, n) /\ Adds(g, v, n)
  BY <1>1
<1>3. \A i \in 0..n : f[i] = g[i]
  <2>. HIDE DEF f, g
  <2>1. QED
    BY <1>2, AddsOnce
<1>4. QED
  BY <1>3

\* A recorded receipt adds its amount to the total of its kind.
LEMMA RecordTotals ==
  ASSUME LedgerTyped, NEW in, Record(in), NEW kind
  PROVE  Total(kind)' = Total(kind) + (IF in.kind = kind THEN in.amount ELSE 0)
<1>. DEFINE n == Len(receipts)
<1>. DEFINE w == AmountsOf(kind)
<1>. DEFINE v == AmountsOf(kind)'
<1>1. /\ n \in Nat /\ Len(receipts') = n + 1
      /\ DOMAIN receipts = 1..n /\ DOMAIN receipts' = 1..(n + 1)
      /\ \A i \in DOMAIN receipts : receipts'[i] = receipts[i]
      /\ receipts'[n + 1].kind = in.kind /\ receipts'[n + 1].amount = in.amount
  BY RecordAppends
<1>2. \A i \in 1..n : w[i] = v[i]
  BY <1>1 DEF AmountsOf
<1>3. v[n + 1] = IF in.kind = kind THEN in.amount ELSE 0
  BY <1>1 DEF AmountsOf
<1>4. Total(kind) = SumTo(w, n) /\ Total(kind)' = SumTo(v, n + 1)
  BY <1>1 DEF Total
<1>. HIDE DEF n, w, v
<1>5. SumTo(v, n) = SumTo(w, n)
  BY <1>1, <1>2, SumReads
<1>6. SumTo(v, n + 1) = SumTo(v, n) + v[n + 1]
  BY <1>1, SumSteps
<1>7. QED
  BY <1>3, <1>4, <1>5, <1>6

-----------------------------------------------------------------------------
(* The steps.                                                              *)

\* The kinds that money is not about.
PlainKinds == Kinds \ ({"UsageDerived", "MeterAccepted", "SettlementReconciled"} \cup Adjustments)

\* A step that moves no money, with the receipt of a plain kind at most.
Plain ==
  /\ UNCHANGED totals
  /\ \/ UNCHANGED ledgerVars
     \/ \E in : IsInput(in) /\ in.kind \in PlainKinds /\ Accepts(in) /\ Record(in)

LEMMA ApplyPlain ==
  ASSUME NEW in, IsInput(in), in.kind \in PlainKinds, Apply(in), UNCHANGED totals
  PROVE  Plain
BY DEF Apply, Plain

\* The inputs of the handlers.
LEMMA NotifiedInput ==
  ASSUME NEW o, NEW kind \in Kinds, NEW prefix, prefix # "usage",
         kind \in StatusKinds => prefix = Prefix[kind]
  PROVE  IsInput(Input(kind, <<prefix, o.event>>, o.event, NoSource, 0, 0))
BY DEF IsInput, Input

LEMMA NotifiedPlain ==
  ASSUME NEW o, NEW kind \in PlainKinds, NEW prefix, prefix # "usage",
         kind \in StatusKinds => prefix = Prefix[kind], Notified(o, kind, prefix), UNCHANGED totals
  PROVE  Plain
<1>. DEFINE in == Input(kind, <<prefix, o.event>>, o.event, NoSource, 0, 0)
<1>1. IsInput(in)
  BY NotifiedInput DEF PlainKinds
<1>2. in.kind = kind
  BY DEF Input
<1>3. Apply(in)
  BY DEF Notified
<1>. HIDE DEF in
<1>4. QED
  BY <1>1, <1>2, <1>3, ApplyPlain

LEMMA LocalInput ==
  ASSUME NEW kind \in Kinds \ StatusKinds, NEW key, NEW event, NEW source,
         NEW units \in 0..MaxU64, NEW amount \in 0..MaxU64,
         \A s \in Sources, u \in Units :
           key = <<"usage", s, u>> => kind = "UsageDerived" \/ key \in CallerKeys
  PROVE  /\ IsInput(Input(kind, key, event, source, units, amount))
         /\ Input(kind, key, event, source, units, amount).kind = kind
BY DEF IsInput, Input, UsageKeyTaken

\* Standing changes only by the statuses that a provider reports.
LEMMA StandingTyped ==
  ASSUME TotalsTyped, [Next]_vars
  PROVE  entitlement' \in {"Unknown", "Active", "Suspended", "Revoked"} /\ quantity' \in 0..MaxU64
<1>. USE DEF TotalsTyped, standing
<1>1. ASSUME NEW o \in Observations, Observe(o)
      PROVE  entitlement' \in {"Unknown", "Active", "Suspended", "Revoked"} /\ quantity' \in 0..MaxU64
  <2>1. o.quantity \in 0..MaxU64
    OBVIOUS
  <2>2. QED
    BY <1>1, <2>1 DEF Observe, ObserveAgreement, ObserveEntitlement, ObserveChange, ObserveStatus,
       BecomesStatus, AcceptMeter, Reconcile
<1>2. CASE UNCHANGED standing
  BY <1>2
<1>3. QED
  BY <1>1, <1>2 DEF Next, vars, AuthorizeFulfillment, BindManufacture, BindDelivery, VerifyDelivery,
     DeriveUsage, ApplyCredit, ReconcileRefund

\* Every step is plain, or one of the five that money is about.
LEMMA Steps ==
  ASSUME [Next]_vars
  PROVE  \/ Plain
         \/ \E o \in Observations : AcceptMeter(o) \/ Reconcile(o)
         \/ \E source \in Sources, units \in Units : DeriveUsage(source, units)
         \/ \E key \in CallerKeys, amount \in Amounts : ApplyCredit(key, amount) \/ ReconcileRefund(key, amount)
<1>. USE DEF PlainKinds, Kinds, Adjustments
<1>0. 0 \in 0..MaxU64
  OBVIOUS
<1>1. ASSUME NEW o \in Observations, ObserveAgreement(o) PROVE Plain
  <2>1. "AgreementObserved" \in PlainKinds \ StatusKinds
    BY KindsAre DEF StatusKinds
  <2>2. QED
    BY <1>1, <2>1, NotifiedPlain DEF ObserveAgreement
<1>2. ASSUME NEW o \in Observations, ObserveEntitlement(o) PROVE Plain
  <2>1. "EntitlementAdmitted" \in PlainKinds \ StatusKinds
    BY KindsAre DEF StatusKinds
  <2>2. QED
    BY <1>2, <2>1, NotifiedPlain DEF ObserveEntitlement
<1>3. ASSUME NEW o \in Observations, ObserveChange(o) PROVE Plain
  <2>1. "EntitlementChanged" \in PlainKinds /\ Prefix["EntitlementChanged"] = "entitlement-change"
    BY DEF StatusKinds, Prefix
  <2>2. QED
    BY <1>3, <2>1, NotifiedPlain DEF ObserveChange
<1>4. ASSUME NEW o \in Observations, ObserveStatus(o) PROVE Plain
  <2>1. /\ "EntitlementSuspended" \in PlainKinds /\ Prefix["EntitlementSuspended"] = "suspend"
        /\ "EntitlementReinstated" \in PlainKinds /\ Prefix["EntitlementReinstated"] = "reinstate"
        /\ "EntitlementRevoked" \in PlainKinds /\ Prefix["EntitlementRevoked"] = "revoke"
    BY DEF StatusKinds, Prefix
  <2>2. QED
    BY <1>4, <2>1, NotifiedPlain DEF ObserveStatus, BecomesStatus
<1>5. ASSUME NEW key \in CallerKeys, AuthorizeFulfillment(key) PROVE Plain
  BY <1>0, <1>5, KindsAre, LocalInput, ApplyPlain DEF AuthorizeFulfillment, StatusKinds
<1>6. ASSUME NEW source \in Sources, BindManufacture(source) PROVE Plain
  BY <1>0, <1>6, KindsAre, LocalInput, ApplyPlain DEF BindManufacture, StatusKinds
<1>7. ASSUME NEW digest \in Digests, BindDelivery(digest) PROVE Plain
  BY <1>0, <1>7, KindsAre, LocalInput, ApplyPlain DEF BindDelivery, StatusKinds
<1>8. ASSUME NEW digest \in Digests, VerifyDelivery(digest) PROVE Plain
  BY <1>0, <1>8, KindsAre, LocalInput, ApplyPlain DEF VerifyDelivery, StatusKinds
<1>9. CASE UNCHANGED vars
  BY <1>9 DEF Plain, vars, totals
<1>10. QED
  BY <1>1, <1>2, <1>3, <1>4, <1>5, <1>6, <1>7, <1>8, <1>9 DEF Next, Observe

-----------------------------------------------------------------------------
(* The ledger's invariant.                                                 *)

LEMMA RecordKeeps ==
  ASSUME LedgerInv, NEW in, IsInput(in), Accepts(in), Record(in)
  PROVE  LedgerInv'
BY RecordTyped, RecordReplayable, RecordPasses, RecordKeyed, RecordOnce, RecordExact DEF LedgerInv

LEMMA LedgerStutters == ASSUME LedgerInv, UNCHANGED ledgerVars PROVE LedgerInv'
<1>. USE DEF LedgerInv, ledgerVars
<1>1. LedgerTyped' /\ StandingIsReplayable'
  BY DEF LedgerTyped, StandingIsReplayable
<1>2. StagesPassed' /\ StatusesKeyed' /\ ReceiptedOnce'
  BY DEF StagesPassed, StatusesKeyed, ReceiptedOnce
<1>3. IdempotencyIsExact'
  BY DEF IdempotencyIsExact
<1>4. QED
  BY <1>1, <1>2, <1>3

LEMMA ApplyKeeps ==
  ASSUME LedgerInv, NEW in, IsInput(in), Apply(in)
  PROVE  LedgerInv'
BY RecordKeeps, LedgerStutters DEF Apply

-----------------------------------------------------------------------------
(* Steps that move no money.                                               *)

\* Receipts stay where they are, and a new one is the last.
LEMMA ReceiptsStay ==
  ASSUME LedgerTyped, NEW in, Record(in)
  PROVE  /\ \A kind : \A i \in Receipted(kind) :
              i \in Receipted(kind)' /\ receipts'[i] = receipts[i] /\ i < Len(receipts) + 1
         /\ Len(receipts) + 1 \in Receipted(in.kind)'
         /\ receipts'[Len(receipts) + 1].units = in.units
         /\ receipts'[Len(receipts) + 1].amount = in.amount
BY RecordAppends DEF Receipted

\* The ranks that the totals are compared with.
LEMMA MoneyRanks ==
  /\ Rank["Verified"] = 6 /\ Rank["UsageRecorded"] = 7 /\ Rank["Metered"] = 8 /\ Rank["Reconciled"] = 9
  /\ \A s \in States : /\ Rank[s] \in 0..9
                       /\ s = "Verified" <=> Rank[s] = 6
                       /\ s = "UsageRecorded" <=> Rank[s] = 7
                       /\ s = "Metered" <=> Rank[s] = 8
                       /\ s = "Reconciled" <=> Rank[s] = 9
BY DEF Rank, States

LEMMA MoneyStutters ==
  ASSUME MoneyInv, UNCHANGED ledgerVars, UNCHANGED totals,
         entitlement' \in {"Unknown", "Active", "Suspended", "Revoked"}, quantity' \in 0..MaxU64
  PROVE  MoneyInv'
<1>. USE DEF ledgerVars, totals
<1>1. \A kind : Total(kind)' = Total(kind) /\ Receipted(kind)' = Receipted(kind)
  BY DEF Total, AmountsOf, Receipted
<1>. USE DEF MoneyInv
<1>2. TotalsTyped' /\ TotalsWritten' /\ AdjustmentsWithinSettlement'
  BY <1>1 DEF TotalsTyped, TotalsWritten, AdjustmentsWithinSettlement
<1>3. UsageKeysFree' /\ UsageReceipted'
  BY <1>1 DEF UsageKeysFree, UsageReceipted, UsageKeyTaken
<1>4. MoneyFollowsUsage'
  BY <1>1 DEF MoneyFollowsUsage, UsageKeyTaken, Saturated
<1>5. QED
  BY <1>2, <1>3, <1>4

\* A plain receipt leaves the state alone, or comes before all usage.
LEMMA PlainRanks ==
  ASSUME LedgerInv, NEW in, IsInput(in), in.kind \in PlainKinds, Accepts(in), Record(in)
  PROVE  state' = state \/ (Rank[state] < Rank["UsageRecorded"] /\ Rank[state'] < Rank["UsageRecorded"])
<1>1. CASE in.kind \in StageKinds
  <2>1. Rank[Advances[in.kind][2]] < 7
    BY <1>1, KindsAre DEF PlainKinds, StageKinds, Adjustments, Advances, Rank
  <2>2. Rank[state'] = Rank[state] + 1 /\ Rank[state'] = Rank[Advances[in.kind][2]] /\ Rank[state] \in 0..9
    BY <1>1, RecordPasses, StagesAdvance DEF LedgerInv, LedgerTyped
  <2>3. QED
    BY <2>1, <2>2, MoneyRanks
<1>2. CASE in.kind \notin StageKinds
  BY <1>2, RecordPasses DEF LedgerInv
<1>3. QED
  BY <1>1, <1>2

LEMMA PlainMoney ==
  ASSUME LedgerInv, MoneyInv, Plain,
         entitlement' \in {"Unknown", "Active", "Suspended", "Revoked"}, quantity' \in 0..MaxU64
  PROVE  MoneyInv'
<1>1. CASE UNCHANGED ledgerVars
  BY <1>1, MoneyStutters DEF Plain
<1>2. ASSUME NEW in, IsInput(in), in.kind \in PlainKinds, Accepts(in), Record(in)
      PROVE  MoneyInv'
  <2>. USE DEF totals
  <2>0. UNCHANGED <<usage, metered, settlement, credits, refunds>>
    BY DEF Plain
  <2>1. Total("CreditApplied")' = Total("CreditApplied") /\ Total("RefundReconciled")' = Total("RefundReconciled")
    <3>1. in.kind # "CreditApplied" /\ in.kind # "RefundReconciled"
      BY <1>2 DEF PlainKinds, Adjustments
    <3>2. Total("CreditApplied") \in Nat /\ Total("RefundReconciled") \in Nat
      BY DEF MoneyInv, TotalsTyped
    <3>3. QED
      BY <1>2, <3>1, <3>2, RecordTotals DEF LedgerInv
  <2>2. state \in States /\ state' \in States
    BY <1>2, RecordTyped DEF LedgerInv, LedgerTyped
  <2>3. state' = state \/ (Rank[state] < 7 /\ Rank[state'] < 7)
    BY <1>2, PlainRanks, MoneyRanks
  <2>4. \A kind : \A i \in Receipted(kind) :
          i \in Receipted(kind)' /\ receipts'[i] = receipts[i]
    BY <1>2, ReceiptsStay DEF LedgerInv
  <2>. HIDE DEF totals
  <2>. USE DEF MoneyInv
  <2>5. TotalsTyped'
    BY <2>0, <2>1 DEF TotalsTyped
  <2>6. UsageKeysFree'
    <3>1. in.kind # "UsageDerived"
      BY <1>2 DEF PlainKinds
    <3>2. QED
      BY <1>2, <3>1, UsageKeysKept, RecordTyped, RecordPasses DEF LedgerInv
  <2>7. TotalsWritten'
    BY <2>0, <2>1, <2>2, <2>3, MoneyRanks DEF TotalsWritten
  <2>8. UsageReceipted'
    <3>1. CASE state' = state
      BY <2>0, <2>4, <3>1 DEF UsageReceipted, UsageKeyTaken
    <3>2. CASE Rank[state'] < 7
      BY <2>2, <3>2, MoneyRanks DEF UsageReceipted
    <3>3. QED
      BY <2>3, <3>1, <3>2
  <2>9. MoneyFollowsUsage'
    <3>1. (metered' # 0 => metered' = usage') /\ (settlement' # 0 => settlement' = Saturated(UnitPrice * metered'))
      BY <2>0 DEF MoneyFollowsUsage
    <3>2. CASE state' = state
      BY <2>0, <2>4, <3>1, <3>2 DEF MoneyFollowsUsage, UsageKeyTaken
    <3>3. CASE Rank[state'] < 7
      BY <2>2, <3>1, <3>3, MoneyRanks DEF MoneyFollowsUsage
    <3>4. QED
      BY <2>3, <3>2, <3>3
  <2>10. AdjustmentsWithinSettlement'
    BY <2>0, <2>1 DEF AdjustmentsWithinSettlement
  <2>11. QED
    BY <2>5, <2>6, <2>7, <2>8, <2>9, <2>10
<1>3. QED
  BY <1>1, <1>2 DEF Plain

-----------------------------------------------------------------------------
(* Steps that money is about.                                              *)

\* Receipts of a kind that is no adjustment add nothing to the adjustments.
LEMMA NoAdjustment ==
  ASSUME LedgerTyped, MoneyInv, NEW in, Record(in), in.kind \notin Adjustments
  PROVE  Total("CreditApplied")' = Total("CreditApplied") /\ Total("RefundReconciled")' = Total("RefundReconciled")
<1>1. Total("CreditApplied") \in Nat /\ Total("RefundReconciled") \in Nat
  BY DEF MoneyInv, TotalsTyped
<1>2. QED
  BY <1>1, RecordTotals DEF Adjustments

\* The usage is written before its receipt: when a caller has taken the key, it
\* is written again.
LEMMA DeriveUsageStep ==
  ASSUME LedgerInv, MoneyInv, NEW source \in Sources, NEW units \in Units, DeriveUsage(source, units)
  PROVE  LedgerInv' /\ MoneyInv'
<1>. DEFINE in == Input("UsageDerived", <<"usage", source, units>>, "usage", source, units, 0)
<1>1. /\ IsInput(in) /\ in.kind = "UsageDerived" /\ in.units = units
      /\ in.key = <<"usage", source, units>> /\ in.event = "usage"
  BY KindsAre DEF IsInput, Input, Kinds, StatusKinds
<1>2. Apply(in) /\ state = "Verified" /\ units # 0 /\ usage' = Saturated(usage + units)
  BY DEF DeriveUsage
<1>3. UNCHANGED <<entitlement, quantity, metered, settlement, credits, refunds>>
  BY DEF DeriveUsage, standing
<1>. HIDE DEF in
<1>4. LedgerInv'
  BY <1>1, <1>2, ApplyKeeps
<1>5. /\ units \in 1..MaxU64 /\ usage \in 0..MaxU64
      /\ usage' \in 0..MaxU64 /\ usage' # 0 /\ units <= usage' /\ (usage = 0 => usage' = units)
  <2>1. units \in 1..MaxU64 /\ usage \in 0..MaxU64
    BY <1>2 DEF MoneyInv, TotalsTyped
  <2>2. QED
    BY <1>2, <2>1 DEF Saturated
<1>6. /\ state \in States /\ Rank[state] = 6 /\ metered = 0 /\ (usage = 0 \/ UsageKeyTaken)
      /\ settlement = 0 /\ credits = 0 /\ refunds = 0
      /\ Total("CreditApplied") = 0 /\ Total("RefundReconciled") = 0
  <2>1. state \in States /\ Rank[state] = 6
    BY <1>2, MoneyRanks DEF LedgerInv, LedgerTyped
  <2>2. QED
    BY <2>1, MoneyRanks DEF MoneyInv, TotalsWritten
<1>7. CASE Record(in) /\ Accepts(in)
  <2>1. Rank[state'] = 7 /\ state' \in States
    <3>1. "UsageDerived" \in StageKinds
      BY KindsAre DEF StageKinds, Adjustments
    <3>2. QED
      BY <1>1, <1>6, <1>7, <3>1, RecordPasses, RecordTyped DEF LedgerInv, LedgerTyped
  <2>2. Total("CreditApplied")' = 0 /\ Total("RefundReconciled")' = 0
    BY <1>1, <1>6, <1>7, NoAdjustment DEF LedgerInv, Adjustments
  <2>3. TotalsTyped'
    BY <1>3, <1>5, <2>2 DEF MoneyInv, TotalsTyped
  <2>4. UsageKeysFree' /\ TotalsWritten'
    BY <1>3, <1>6, <2>1, <2>2, MoneyRanks DEF UsageKeysFree, TotalsWritten
  <2>5. UsageReceipted'
    <3>1. /\ Len(receipts) + 1 \in Receipted("UsageDerived")'
          /\ receipts'[Len(receipts) + 1].units = units
      BY <1>1, <1>7, ReceiptsStay DEF LedgerInv
    <3>2. usage' = units \/ UsageKeyTaken'
      BY <1>5, <1>6 DEF UsageKeyTaken
    <3>3. QED
      BY <1>5, <3>1, <3>2 DEF UsageReceipted
  <2>6. MoneyFollowsUsage' /\ AdjustmentsWithinSettlement'
    BY <1>3, <1>6, <2>1, <2>2, MoneyRanks DEF MoneyFollowsUsage, AdjustmentsWithinSettlement
  <2>7. QED
    BY <1>4, <2>3, <2>4, <2>5, <2>6 DEF MoneyInv
<1>8. CASE UNCHANGED ledgerVars /\ ~Accepts(in)
  <2>1. /\ UNCHANGED <<state, receipts, idempotency>>
        /\ Total("CreditApplied")' = 0 /\ Total("RefundReconciled")' = 0
    BY <1>6, <1>8 DEF ledgerVars, Total, AmountsOf
  <2>2. UsageKeyTaken
    <3>1. <<"usage", source, units>> \in DOMAIN idempotency
      BY <1>1, <1>2, <1>8, KindsAre DEF Accepts, Legal, Advances
    <3>2. QED
      BY <1>6, <3>1, MoneyRanks DEF MoneyInv, UsageKeysFree
  <2>3. TotalsTyped'
    BY <1>3, <1>5, <2>1 DEF MoneyInv, TotalsTyped
  <2>4. UsageKeysFree' /\ TotalsWritten' /\ UsageReceipted'
    <3>1. Rank[state'] = 6
      BY <1>6, <2>1
    <3>2. UsageKeyTaken'
      BY <2>2 DEF UsageKeyTaken
    <3>3. TotalsWritten'
      BY <1>3, <1>6, <2>1, <3>2, MoneyRanks DEF TotalsWritten
    <3>4. UsageKeysFree' /\ UsageReceipted'
      BY <3>1, <3>2, MoneyRanks DEF UsageKeysFree, UsageReceipted
    <3>5. QED
      BY <3>3, <3>4
  <2>5. MoneyFollowsUsage' /\ AdjustmentsWithinSettlement'
    BY <1>2, <1>3, <1>6, <2>1 DEF MoneyFollowsUsage, AdjustmentsWithinSettlement
  <2>6. QED
    BY <1>4, <2>3, <2>4, <2>5 DEF MoneyInv
<1>9. QED
  BY <1>2, <1>7, <1>8 DEF Apply

\* The meter is written before its receipt; a refused one leaves it as the
\* usage that it had to match.
LEMMA AcceptMeterStep ==
  ASSUME LedgerInv, MoneyInv, NEW o \in Observations, AcceptMeter(o)
  PROVE  LedgerInv' /\ MoneyInv'
<1>. DEFINE in == Input("MeterAccepted", <<"meter", o.event>>, o.event, NoSource, o.units, 0)
<1>1. IsInput(in) /\ in.kind = "MeterAccepted" /\ in.units = o.units
  BY KindsAre DEF IsInput, Input, Kinds, StatusKinds
<1>2. Apply(in) /\ state = "UsageRecorded" /\ o.units = usage /\ o.units # 0 /\ metered' = usage
  BY DEF AcceptMeter
<1>3. UNCHANGED <<entitlement, quantity, usage, settlement, credits, refunds>>
  BY DEF AcceptMeter, standing
<1>. HIDE DEF in
<1>4. LedgerInv'
  BY <1>1, <1>2, ApplyKeeps
<1>5. /\ state \in States /\ Rank[state] = 7
      /\ settlement = 0 /\ credits = 0 /\ refunds = 0
      /\ Total("CreditApplied") = 0 /\ Total("RefundReconciled") = 0
  <2>1. state \in States /\ Rank[state] = 7
    BY <1>2, MoneyRanks DEF LedgerInv, LedgerTyped
  <2>2. QED
    BY <2>1, MoneyRanks DEF MoneyInv, TotalsWritten
<1>6. PICK i \in Receipted("UsageDerived") :
        receipts[i].units <= usage /\ (receipts[i].units = usage \/ UsageKeyTaken)
  BY <1>5, MoneyRanks DEF MoneyInv, UsageReceipted
<1>7. CASE Record(in) /\ Accepts(in)
  <2>1. Rank[state'] = 8 /\ state' \in States
    <3>1. "MeterAccepted" \in StageKinds
      BY KindsAre DEF StageKinds, Adjustments
    <3>2. QED
      BY <1>1, <1>5, <1>7, <3>1, RecordPasses, RecordTyped DEF LedgerInv, LedgerTyped
  <2>2. Total("CreditApplied")' = 0 /\ Total("RefundReconciled")' = 0
    BY <1>1, <1>5, <1>7, NoAdjustment DEF LedgerInv, Adjustments
  <2>3. TotalsTyped'
    BY <1>2, <1>3, <2>2 DEF MoneyInv, TotalsTyped
  <2>4. UsageKeysFree' /\ TotalsWritten'
    BY <1>3, <1>5, <2>1, <2>2, MoneyRanks DEF UsageKeysFree, TotalsWritten
  <2>5. /\ i \in Receipted("UsageDerived")' /\ receipts'[i] = receipts[i] /\ i < Len(receipts) + 1
        /\ Len(receipts) + 1 \in Receipted("MeterAccepted")'
        /\ receipts'[Len(receipts) + 1].units = usage
    BY <1>1, <1>2, <1>7, ReceiptsStay DEF LedgerInv
  <2>6. UsageReceipted'
    BY <1>2, <1>3, <1>6, <2>5 DEF UsageReceipted, UsageKeyTaken
  <2>7. MoneyFollowsUsage'
    <3>1. state' # "Reconciled"
      BY <2>1, MoneyRanks
    <3>2. QED
      BY <1>2, <1>3, <1>5, <1>6, <2>5, <3>1 DEF MoneyFollowsUsage, UsageKeyTaken
  <2>8. AdjustmentsWithinSettlement'
    BY <1>3, <1>5, <2>2 DEF AdjustmentsWithinSettlement
  <2>9. QED
    BY <1>4, <2>3, <2>4, <2>6, <2>7, <2>8 DEF MoneyInv
<1>8. CASE UNCHANGED ledgerVars
  <2>1. /\ UNCHANGED <<state, receipts, idempotency>>
        /\ Total("CreditApplied")' = 0 /\ Total("RefundReconciled")' = 0
    BY <1>5, <1>8 DEF ledgerVars, Total, AmountsOf
  <2>2. TotalsTyped'
    BY <1>2, <1>3, <2>1 DEF MoneyInv, TotalsTyped
  <2>3. UsageKeysFree' /\ TotalsWritten'
    BY <1>3, <1>5, <2>1, MoneyRanks DEF UsageKeysFree, TotalsWritten
  <2>4. UsageReceipted'
    BY <1>3, <2>1 DEF MoneyInv, UsageReceipted, UsageKeyTaken, Receipted
  <2>5. MoneyFollowsUsage' /\ AdjustmentsWithinSettlement'
    BY <1>2, <1>3, <1>5, <2>1 DEF MoneyFollowsUsage, AdjustmentsWithinSettlement
  <2>6. QED
    BY <1>4, <2>2, <2>3, <2>4, <2>5 DEF MoneyInv
<1>9. QED
  BY <1>2, <1>7, <1>8 DEF Apply

\* So is the settlement, at the price of the meter.
LEMMA ReconcileStep ==
  ASSUME LedgerInv, MoneyInv, NEW o \in Observations, Reconcile(o)
  PROVE  LedgerInv' /\ MoneyInv'
<1>. DEFINE in == Input("SettlementReconciled", <<"settlement", o.event>>, o.event, NoSource, metered, o.amount)
<1>1. /\ IsInput(in) /\ in.kind = "SettlementReconciled"
      /\ in.units = metered /\ in.amount = o.amount
  <2>1. metered \in 0..MaxU64 /\ o.amount \in 0..MaxU64
    BY DEF MoneyInv, TotalsTyped
  <2>2. QED
    BY <2>1, KindsAre DEF IsInput, Input, Kinds, StatusKinds
<1>2. Apply(in) /\ state = "Metered" /\ o.amount = Saturated(UnitPrice * metered) /\ settlement' = o.amount
  BY DEF Reconcile
<1>3. UNCHANGED <<entitlement, quantity, usage, metered, credits, refunds>>
  BY DEF Reconcile, standing
<1>. HIDE DEF in
<1>4. LedgerInv'
  BY <1>1, <1>2, ApplyKeeps
<1>5. /\ state \in States /\ Rank[state] = 8 /\ credits = 0 /\ refunds = 0
      /\ Total("CreditApplied") = 0 /\ Total("RefundReconciled") = 0
      /\ settlement' \in 0..MaxU64 /\ settlement' = Saturated(UnitPrice * metered)
  <2>1. state \in States /\ Rank[state] = 8
    BY <1>2, MoneyRanks DEF LedgerInv, LedgerTyped
  <2>2. QED
    BY <1>2, <2>1, MoneyRanks DEF MoneyInv, TotalsWritten
<1>6. metered = usage
  BY <1>2 DEF MoneyInv, MoneyFollowsUsage
<1>7. PICK i \in Receipted("UsageDerived"), j \in Receipted("MeterAccepted") :
        /\ i < j /\ receipts[j].units = metered /\ metered # 0
        /\ receipts[i].units <= metered
        /\ receipts[i].units = metered \/ UsageKeyTaken
  BY <1>2 DEF MoneyInv, MoneyFollowsUsage
<1>8. CASE Record(in) /\ Accepts(in)
  <2>1. Rank[state'] = 9 /\ state' \in States
    <3>1. "SettlementReconciled" \in StageKinds
      BY KindsAre DEF StageKinds, Adjustments
    <3>2. QED
      BY <1>1, <1>5, <1>8, <3>1, RecordPasses, RecordTyped DEF LedgerInv, LedgerTyped
  <2>2. Total("CreditApplied")' = 0 /\ Total("RefundReconciled")' = 0
    BY <1>1, <1>5, <1>8, NoAdjustment DEF LedgerInv, Adjustments
  <2>3. TotalsTyped'
    BY <1>3, <1>5, <2>2 DEF MoneyInv, TotalsTyped
  <2>4. UsageKeysFree' /\ TotalsWritten'
    BY <2>1, MoneyRanks DEF UsageKeysFree, TotalsWritten
  <2>5. /\ i \in Receipted("UsageDerived")' /\ receipts'[i] = receipts[i]
        /\ j \in Receipted("MeterAccepted")' /\ receipts'[j] = receipts[j]
        /\ Len(receipts) + 1 \in Receipted("SettlementReconciled")'
        /\ receipts'[Len(receipts) + 1].units = metered
        /\ receipts'[Len(receipts) + 1].amount = settlement'
    BY <1>1, <1>2, <1>8, ReceiptsStay DEF LedgerInv
  <2>6. UsageReceipted'
    BY <1>3, <1>6, <1>7, <2>5 DEF UsageReceipted, UsageKeyTaken
  <2>7. MoneyFollowsUsage'
    BY <1>3, <1>5, <1>6, <1>7, <2>5 DEF MoneyFollowsUsage, UsageKeyTaken, Saturated
  <2>8. AdjustmentsWithinSettlement'
    BY <1>3, <1>5, <2>2 DEF AdjustmentsWithinSettlement
  <2>9. QED
    BY <1>4, <2>3, <2>4, <2>6, <2>7, <2>8 DEF MoneyInv
<1>9. CASE UNCHANGED ledgerVars
  <2>1. /\ UNCHANGED <<state, receipts, idempotency>>
        /\ Total("CreditApplied")' = 0 /\ Total("RefundReconciled")' = 0
    BY <1>5, <1>9 DEF ledgerVars, Total, AmountsOf
  <2>2. TotalsTyped'
    BY <1>3, <1>5, <2>1 DEF MoneyInv, TotalsTyped
  <2>3. UsageKeysFree' /\ TotalsWritten'
    BY <1>3, <1>5, <2>1, MoneyRanks DEF UsageKeysFree, TotalsWritten
  <2>4. UsageReceipted'
    BY <1>3, <2>1 DEF MoneyInv, UsageReceipted, UsageKeyTaken, Receipted
  <2>5. MoneyFollowsUsage'
    <3>1. i \in Receipted("UsageDerived")' /\ j \in Receipted("MeterAccepted")'
      BY <1>7, <2>1 DEF Receipted
    <3>2. QED
      BY <1>2, <1>3, <1>5, <1>6, <1>7, <2>1, <3>1 DEF MoneyFollowsUsage, UsageKeyTaken, Saturated
  <2>6. AdjustmentsWithinSettlement'
    BY <1>3, <1>5, <2>1 DEF AdjustmentsWithinSettlement
  <2>7. QED
    BY <1>4, <2>2, <2>3, <2>4, <2>5, <2>6 DEF MoneyInv
<1>10. QED
  BY <1>2, <1>8, <1>9 DEF Apply

\* What an adjustment may bring the totals to: in a settlement that u64 can
\* exceed, no sum saturates.
LEMMA AdjustmentFits ==
  ASSUME NEW c \in 0..MaxU64, NEW r \in 0..MaxU64, NEW s \in 0..MaxU64, NEW a \in 0..MaxU64,
         Saturated(Saturated(c + r) + a) <= s, s < MaxU64
  PROVE  c + r + a <= s /\ Saturated(c + a) = c + a /\ Saturated(r + a) = r + a
BY DEF Saturated

\* An adjustment is written before its receipt: what is receipted is at most
\* what is written.
LEMMA AdjustStep ==
  ASSUME LedgerInv, MoneyInv, NEW key \in CallerKeys, NEW amount \in Amounts,
         ApplyCredit(key, amount) \/ ReconcileRefund(key, amount)
  PROVE  LedgerInv' /\ MoneyInv'
<1>1. PICK kind \in Adjustments, event \in {"credit", "refund"} :
        /\ Apply(Input(kind, key, event, NoSource, 0, amount))
        /\ kind = "CreditApplied" => credits' = Saturated(credits + amount) /\ refunds' = refunds
        /\ kind = "RefundReconciled" => refunds' = Saturated(refunds + amount) /\ credits' = credits
  BY DEF ApplyCredit, ReconcileRefund, Adjustments
<1>. DEFINE in == Input(kind, key, event, NoSource, 0, amount)
<1>2. state = "Reconciled" /\ Saturated(Saturated(credits + refunds) + amount) <= settlement
  BY DEF ApplyCredit, ReconcileRefund, MayAdjust
<1>3. UNCHANGED <<entitlement, quantity, usage, metered, settlement>>
  BY DEF ApplyCredit, ReconcileRefund, standing
<1>4. /\ credits \in 0..MaxU64 /\ refunds \in 0..MaxU64 /\ settlement \in 0..MaxU64
      /\ amount \in 0..MaxU64
      /\ Total("CreditApplied") \in Nat /\ Total("RefundReconciled") \in Nat
  BY DEF MoneyInv, TotalsTyped
<1>5. IsInput(in) /\ in.kind = kind /\ in.amount = amount
  <2>1. kind \in Kinds \ StatusKinds /\ 0 \in 0..MaxU64
    BY KindsAre DEF Kinds, Adjustments, StatusKinds
  <2>2. IsInput(in) /\ in.kind = kind
    BY <1>4, <2>1, LocalInput
  <2>3. QED
    BY <2>2 DEF Input
<1>6. Apply(in)
  BY <1>1
<1>. HIDE DEF in
<1>7. LedgerInv'
  BY <1>5, <1>6, ApplyKeeps
<1>8. state \in States /\ Rank[state] = 9
  BY <1>2, MoneyRanks DEF LedgerInv, LedgerTyped
<1>9. /\ state' = "Reconciled" /\ Rank[state'] = 9
      /\ \A k : \A i \in Receipted(k) : i \in Receipted(k)' /\ receipts'[i] = receipts[i]
      /\ \A k \in Adjustments : \/ Total(k)' = Total(k)
                                \/ k = kind /\ Total(k)' = Total(k) + amount
  <2>1. CASE UNCHANGED ledgerVars
    BY <1>2, <1>8, <2>1 DEF ledgerVars, Receipted, Total, AmountsOf
  <2>2. CASE Record(in) /\ Accepts(in)
    <3>1. state' = state
      BY <1>5, <2>2, RecordPasses DEF LedgerInv, StageKinds
    <3>2. \A k : \A i \in Receipted(k) : i \in Receipted(k)' /\ receipts'[i] = receipts[i]
      BY <2>2, ReceiptsStay DEF LedgerInv
    <3>3. \A k : Total(k)' = Total(k) + (IF kind = k THEN amount ELSE 0)
      BY <1>5, <2>2, RecordTotals DEF LedgerInv
    <3>4. QED
      BY <1>2, <1>4, <1>8, <3>1, <3>2, <3>3 DEF Adjustments
  <2>3. QED
    BY <1>6, <2>1, <2>2 DEF Apply
<1>10. credits' \in 0..MaxU64 /\ refunds' \in 0..MaxU64
  BY <1>1, <1>4 DEF Saturated, Adjustments
<1>11. Total("CreditApplied")' \in Nat /\ Total("RefundReconciled")' \in Nat
  BY <1>4, <1>9 DEF Adjustments
<1>12. TotalsTyped'
  BY <1>3, <1>10, <1>11 DEF MoneyInv, TotalsTyped
<1>13. UsageKeysFree' /\ TotalsWritten'
  BY <1>9, MoneyRanks DEF UsageKeysFree, TotalsWritten
<1>14. UsageReceipted'
  <2>1. PICK i \in Receipted("UsageDerived") :
          receipts[i].units <= usage /\ (receipts[i].units = usage \/ UsageKeyTaken)
    BY <1>8, MoneyRanks DEF MoneyInv, UsageReceipted
  <2>2. usage' # 0
    BY <1>3, <1>8, MoneyRanks DEF MoneyInv, UsageReceipted
  <2>3. QED
    BY <1>3, <1>9, <2>1, <2>2 DEF UsageReceipted, UsageKeyTaken
<1>15. MoneyFollowsUsage'
  BY <1>2, <1>3, <1>9 DEF MoneyInv, MoneyFollowsUsage, UsageKeyTaken, Saturated
<1>16. AdjustmentsWithinSettlement'
  <2>1. SUFFICES ASSUME settlement < MaxU64
                 PROVE  /\ Total("CreditApplied")' <= credits' /\ Total("RefundReconciled")' <= refunds'
                        /\ credits' + refunds' <= settlement
    BY <1>3 DEF AdjustmentsWithinSettlement
  <2>2. Total("CreditApplied") <= credits /\ Total("RefundReconciled") <= refunds
    BY <2>1 DEF MoneyInv, AdjustmentsWithinSettlement
  <2>3. /\ credits + refunds + amount <= settlement
        /\ Saturated(credits + amount) = credits + amount /\ Saturated(refunds + amount) = refunds + amount
    BY <1>2, <1>4, <2>1, AdjustmentFits
  <2>4. QED
    BY <1>1, <1>4, <1>9, <2>2, <2>3 DEF Adjustments
<1>17. QED
  BY <1>7, <1>12, <1>13, <1>14, <1>15, <1>16 DEF MoneyInv

-----------------------------------------------------------------------------
(* The theorems.                                                           *)

LEMMA Initial == Init => IInv
<1>. SUFFICES ASSUME Init PROVE IInv
  OBVIOUS
<1>. USE DEF Init
<1>1. /\ receipts = <<>> /\ DOMAIN receipts = {} /\ Len(receipts) = 0 /\ receipts \in Seq({})
      /\ DOMAIN idempotency = {}
  OBVIOUS
<1>2. Cardinality(DOMAIN idempotency) = 0 /\ IsFiniteSet(DOMAIN idempotency)
  BY <1>1, FS_EmptySet
<1>3. Rank[state] = 0 /\ state \in States
  BY DEF Rank, States
<1>4. \A kind : Total(kind) = 0
  BY <1>1, SumSteps DEF Total
<1>5. LedgerTyped /\ IdempotencyIsExact
  BY <1>1, <1>2, <1>3 DEF LedgerTyped, IdempotencyIsExact
<1>6. StandingIsReplayable /\ StagesPassed /\ StatusesKeyed /\ ReceiptedOnce
  BY <1>1 DEF StandingIsReplayable, StagesPassed, StatusesKeyed, ReceiptedOnce
<1>7. TotalsTyped /\ UsageKeysFree /\ TotalsWritten
  BY <1>1, <1>4 DEF TotalsTyped, UsageKeysFree, TotalsWritten
<1>8. UsageReceipted /\ MoneyFollowsUsage /\ AdjustmentsWithinSettlement
  BY <1>3, <1>4, MoneyRanks DEF UsageReceipted, MoneyFollowsUsage, AdjustmentsWithinSettlement
<1>9. QED
  BY <1>5, <1>6, <1>7, <1>8 DEF IInv, LedgerInv, MoneyInv

LEMMA Inductive == IInv /\ [Next]_vars => IInv'
<1>. SUFFICES ASSUME IInv, [Next]_vars PROVE IInv'
  OBVIOUS
<1>. USE DEF IInv
<1>1. CASE Plain
  <2>1. LedgerInv'
    BY <1>1, RecordKeeps, LedgerStutters DEF Plain
  <2>2. entitlement' \in {"Unknown", "Active", "Suspended", "Revoked"} /\ quantity' \in 0..MaxU64
    BY StandingTyped DEF MoneyInv
  <2>3. QED
    BY <1>1, <2>1, <2>2, PlainMoney
<1>2. ASSUME NEW o \in Observations, AcceptMeter(o) \/ Reconcile(o) PROVE IInv'
  BY <1>2, AcceptMeterStep, ReconcileStep
<1>3. ASSUME NEW source \in Sources, NEW units \in Units, DeriveUsage(source, units) PROVE IInv'
  BY <1>3, DeriveUsageStep
<1>4. ASSUME NEW key \in CallerKeys, NEW amount \in Amounts,
             ApplyCredit(key, amount) \/ ReconcileRefund(key, amount)
      PROVE  IInv'
  BY <1>4, AdjustStep
<1>5. QED
  BY <1>1, <1>2, <1>3, <1>4, Steps

LEMMA Invariance == Spec => []IInv
BY Initial, Inductive, PTL DEF Spec

\* Whatever is observed, called or refused, every total stays within u64, the
\* commercial state is one of the ten, and an idempotency entry points at a
\* receipt that exists (CommerceLedger and apply).
THEOREM TypeCorrect == Spec => []TypeOK
<1>1. IInv => TypeOK
  <2>1. SUFFICES ASSUME IInv PROVE TypeOK
    OBVIOUS
  <2>2. state \in {"Discovered"} \cup {Advances[kind][2] : kind \in DOMAIN Advances}
    <3>1. state \in States
      BY <2>1 DEF IInv, LedgerInv, LedgerTyped
    <3>2. QED
      BY <3>1 DEF States, Rank, Advances
  <2>3. \A k \in DOMAIN idempotency : idempotency[k].index \in DOMAIN receipts
    BY <2>1 DEF IInv, LedgerInv, IdempotencyIsExact
  <2>4. QED
    BY <2>1, <2>2, <2>3 DEF TypeOK, IInv, LedgerInv, LedgerTyped, IsReceipt, MoneyInv, TotalsTyped
<1>2. QED
  BY <1>1, Invariance, PTL

\* In any order and repetition of notifications and calls, replay_verify would
\* accept the ledger, and the receipts replay to its commercial state.
THEOREM LedgerReplays == Spec => []StandingIsReplayable
<1>1. IInv => StandingIsReplayable
  BY DEF IInv, LedgerInv
<1>2. QED
  BY <1>1, Invariance, PTL

\* No provider notification is receipted twice and no stage is entered twice:
\* apply refuses the one by its key and the other by the state it has left.
THEOREM NothingIsReceiptedTwice == Spec => []ReceiptedOnce
<1>1. IInv => ReceiptedOnce
  BY DEF IInv, LedgerInv
<1>2. QED
  BY <1>1, Invariance, PTL

\* The idempotency table and the ledger are in bijection, and a repeated key
\* finds the receipt of the input whose fingerprint it stored.
THEOREM KeysFindTheirReceipts == Spec => []IdempotencyIsExact
<1>1. IInv => IdempotencyIsExact
  BY DEF IInv, LedgerInv
<1>2. QED
  BY <1>1, Invariance, PTL

\* Usage, meter and settlement agree with each other and with their receipts,
\* although each is written before apply may refuse it.
THEOREM MoneyIsReceiptedUsage == Spec => []MoneyFollowsUsage
<1>1. IInv => MoneyFollowsUsage
  BY DEF IInv, MoneyInv
<1>2. QED
  BY <1>1, Invariance, PTL

\* Credits and refunds, in any interleaving and with any of them refused a
\* receipt, stay within the settlement while it is below the top of u64.
THEOREM AdjustmentsStayWithin == Spec => []AdjustmentsWithinSettlement
<1>1. IInv => AdjustmentsWithinSettlement
  BY DEF IInv, MoneyInv
<1>2. QED
  BY <1>1, Invariance, PTL

=============================================================================
