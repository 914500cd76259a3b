------------------------------ MODULE Commerce ------------------------------
(***************************************************************************)
(* CommerceLedger of crates/ecosystem-runtime/src/commerce.rs: one buyer's *)
(* agreement from discovery to settlement, driven by provider observations *)
(* that may be early, late, repeated or out of order, and by local calls.  *)
(*                                                                         *)
(* A call that is refused before it changes anything is a stutter. A       *)
(* handler writes some fields of the ledger before `apply` decides whether *)
(* the transition is admitted: those writes stay, whatever `apply` says.   *)
(***************************************************************************)
EXTENDS Integers, Sequences, FiniteSetsExt

CONSTANTS
  Observations,   \* what a provider may report, at any time, any number of times
  Identity,       \* provider, buyer, product and references of the context
  UnitPrice, Currency,
  Sources,        \* source receipts that are not blank
  Digests,        \* those that are BLAKE3 digests
  CallerKeys,     \* idempotency keys that callers choose
  Amounts, Units, \* what callers pass
  NoKey, NoEvent, NoSource, NoDigest,   \* blanks
  MaxU64,         \* where u64 arithmetic saturates
  MaxReceipts     \* bound on the length of the ledger

ASSUME CommerceAssumption ==
  /\ UnitPrice \in Nat \ {0} /\ MaxU64 \in Nat /\ MaxReceipts \in Nat
  /\ Amounts \cup Units \subseteq 0..MaxU64
  /\ Digests \subseteq Sources
  /\ \A o \in Observations : {o.quantity, o.units, o.amount} \subseteq 0..MaxU64
  /\ NoEvent # "usage"
  /\ \A source \in Sources, units \in Units : <<"usage", source, units>> # NoKey

VARIABLES
  state, entitlement, quantity,
  usage, metered, settlement, credits, refunds,
  receipts,      \* Vec<CommercialReceipt>
  idempotency    \* key |-> [print, index]

standing   == <<entitlement, quantity>>
totals     == <<usage, metered, settlement, credits, refunds>>
ledgerVars == <<state, receipts, idempotency>>
vars == <<standing, totals, ledgerVars>>

Init ==
  /\ state = "Discovered" /\ entitlement = "Unknown" /\ quantity = 0
  /\ usage = 0 /\ metered = 0 /\ settlement = 0 /\ credits = 0 /\ refunds = 0
  /\ receipts = <<>>
  /\ idempotency = [k \in {} |-> 0]

\* The ledger may grow: the bound of the model.
Room == Len(receipts) < MaxReceipts

Saturated(n) == IF n > MaxU64 THEN MaxU64 ELSE n

-----------------------------------------------------------------------------
(* apply: the one way to a receipt.                                        *)

\* next_state: these kinds leave the commercial state alone, in any state...
StatusKinds ==
  {"EntitlementChanged", "EntitlementSuspended", "EntitlementReinstated", "EntitlementRevoked"}

\* ...and these take it from one given state to another.
Advances ==
  [AgreementObserved     |-> <<"Discovered", "AgreementObserved">>,
   EntitlementAdmitted   |-> <<"AgreementObserved", "Entitled">>,
   FulfillmentAuthorized |-> <<"Entitled", "Fulfilled">>,
   ManufactureBound      |-> <<"Fulfilled", "Manufactured">>,
   DeliveryBound         |-> <<"Manufactured", "Delivered">>,
   DeliveryVerified      |-> <<"Delivered", "Verified">>,
   UsageDerived          |-> <<"Verified", "UsageRecorded">>,
   MeterAccepted         |-> <<"UsageRecorded", "Metered">>,
   SettlementReconciled  |-> <<"Metered", "Reconciled">>,
   CreditApplied         |-> <<"Reconciled", "Reconciled">>,
   RefundReconciled      |-> <<"Reconciled", "Reconciled">>]

Legal(kind) == kind \in StatusKinds \/ state = Advances[kind][1]

NextState(kind) == IF kind \in StatusKinds THEN state ELSE Advances[kind][2]

\* TransitionInput. Every handler passes the authority its kind requires.
Input(kind, key, event, source, units, amount) ==
  [kind |-> kind, key |-> key, event |-> event, source |-> source,
   units |-> units, amount |-> amount]

Fingerprint(x) ==
  [kind |-> x.kind, event |-> x.event, source |-> x.source,
   units |-> x.units, amount |-> x.amount]

\* Mutant: the chain names its first receipt.
FirstDigest == IF receipts = <<>> THEN NoDigest ELSE receipts[1].core

\* The digest of a core receipt is modelled by what it digests.
LastDigest == IF receipts = <<>> THEN NoDigest ELSE receipts[Len(receipts)].core

CommercialReceipt(in) ==
  [kind |-> in.kind, event |-> in.event, source |-> in.source,
   units |-> in.units, amount |-> in.amount,
   before |-> state, after |-> NextState(in.kind), previous |-> LastDigest,
   core |-> [id |-> Len(receipts) + 1, kind |-> in.kind, event |-> in.event,
             before |-> state, after |-> NextState(in.kind)]]

\* Mutant: the idempotency table is not consulted.
AcceptsKnownKeys(in) == in.key # NoKey /\ Legal(in.kind) /\ in.event # NoEvent

\* A key that is known answers with its receipt, or conflicts: either way the
\* ledger stays as it is.
Accepts(in) ==
  /\ in.key # NoKey
  /\ in.key \notin DOMAIN idempotency
  /\ Legal(in.kind)
  /\ in.event # NoEvent

\* Mutant: the index is read after the push.
RecordOffByOne(in) ==
  /\ state' = NextState(in.kind)
  /\ receipts' = Append(receipts, CommercialReceipt(in))
  /\ idempotency' =
       [k \in DOMAIN idempotency \cup {in.key} |->
          IF k = in.key THEN [print |-> Fingerprint(in), index |-> Len(receipts) + 2]
                        ELSE idempotency[k]]

Record(in) ==
  /\ state' = NextState(in.kind)
  /\ receipts' = Append(receipts, CommercialReceipt(in))
  /\ idempotency' =
       [k \in DOMAIN idempotency \cup {in.key} |->
          IF k = in.key THEN [print |-> Fingerprint(in), index |-> Len(receipts) + 1]
                        ELSE idempotency[k]]

Apply(in) == IF Accepts(in) THEN Record(in) ELSE UNCHANGED ledgerVars

-----------------------------------------------------------------------------
(* observe: what the provider reports.                                     *)

\* Mutant: the key is made anew for each delivery.
NotifiedAnew(o, kind, prefix) ==
  Apply(Input(kind, <<prefix, o.event, Len(receipts)>>, o.event, NoSource, 0, 0))

Notified(o, kind, prefix) ==
  Apply(Input(kind, <<prefix, o.event>>, o.event, NoSource, 0, 0))

ObserveAgreement(o) ==
  /\ o.kind = "Agreement"
  /\ Notified(o, "AgreementObserved", "agreement")
  /\ UNCHANGED <<standing, totals>>

ObserveEntitlement(o) ==
  /\ o.kind = "Entitlement" /\ o.quantity # 0
  /\ quantity' = o.quantity
  /\ entitlement' = "Active"
  /\ Notified(o, "EntitlementAdmitted", "entitlement")
  /\ UNCHANGED totals

ObserveChange(o) ==
  /\ o.kind = "EntitlementChanged" /\ o.quantity # 0 /\ o.named
  /\ quantity' = o.quantity
  /\ Notified(o, "EntitlementChanged", "entitlement-change")
  /\ UNCHANGED <<entitlement, totals>>

\* Suspended, Reinstated and Revoked: the status, then its receipt.
BecomesStatus(o, observed, status, kind, prefix) ==
  /\ o.kind = observed
  /\ entitlement' = status
  /\ Notified(o, kind, prefix)
  /\ UNCHANGED <<quantity, totals>>

ObserveStatus(o) ==
  \/ BecomesStatus(o, "Suspended", "Suspended", "EntitlementSuspended", "suspend")
  \/ BecomesStatus(o, "Reinstated", "Active", "EntitlementReinstated", "reinstate")
  \/ BecomesStatus(o, "Revoked", "Revoked", "EntitlementRevoked", "revoke")

\* Mutant: the meter is not compared with the usage.
AcceptAnyMeter(o) ==
  /\ o.kind = "MeterAccepted"
  /\ state = "UsageRecorded" /\ o.units # 0
  /\ metered' = o.units
  /\ Apply(Input("MeterAccepted", <<"meter", o.event>>, o.event, NoSource, o.units, 0))
  /\ UNCHANGED <<standing, usage, settlement, credits, refunds>>

\* accept_meter: the provider's meter must say what was derived.
AcceptMeter(o) ==
  /\ o.kind = "MeterAccepted"
  /\ state = "UsageRecorded" /\ o.units = usage /\ o.units # 0
  /\ metered' = o.units
  /\ Apply(Input("MeterAccepted", <<"meter", o.event>>, o.event, NoSource, o.units, 0))
  /\ UNCHANGED <<standing, usage, settlement, credits, refunds>>

\* reconcile: the settlement must be the price of what was metered.
Reconcile(o) ==
  /\ o.kind = "Settlement"
  /\ state = "Metered"
  /\ o.amount = Saturated(UnitPrice * metered) /\ o.currency = Currency
  /\ settlement' = o.amount
  /\ Apply(Input("SettlementReconciled", <<"settlement", o.event>>, o.event, NoSource,
                 metered, o.amount))
  /\ UNCHANGED <<standing, usage, metered, credits, refunds>>

\* An observation of another identity than the context's is refused.
Observe(o) ==
  /\ Room /\ o.identity = Identity
  /\ \/ ObserveAgreement(o) \/ ObserveEntitlement(o) \/ ObserveChange(o)
     \/ ObserveStatus(o) \/ AcceptMeter(o) \/ Reconcile(o)

-----------------------------------------------------------------------------
(* The local calls.                                                        *)

AuthorizeFulfillment(key) ==
  /\ Room /\ entitlement = "Active" /\ quantity # 0
  /\ Apply(Input("FulfillmentAuthorized", key, "fulfillment", NoSource, 0, 0))
  /\ UNCHANGED <<standing, totals>>

BindManufacture(source) ==
  /\ Room /\ state = "Fulfilled"
  /\ Apply(Input("ManufactureBound", <<"manufacture", source>>, "manufacture", source, 0, 0))
  /\ UNCHANGED <<standing, totals>>

BindDelivery(digest) ==
  /\ Room /\ state = "Manufactured"
  /\ Apply(Input("DeliveryBound", <<"delivery", digest>>, "delivery", digest, 0, 0))
  /\ UNCHANGED <<standing, totals>>

VerifyDelivery(digest) ==
  /\ Room /\ state = "Delivered"
  /\ Apply(Input("DeliveryVerified", <<"verify", digest>>, "verified", digest, 0, 0))
  /\ UNCHANGED <<standing, totals>>

DeriveUsage(source, units) ==
  /\ Room /\ state = "Verified" /\ units # 0
  /\ usage' = Saturated(usage + units)
  /\ Apply(Input("UsageDerived", <<"usage", source, units>>, "usage", source, units, 0))
  /\ UNCHANGED <<standing, metered, settlement, credits, refunds>>

\* Mutant: each adjustment is compared alone.
MayAdjustAlone(amount) ==
  /\ Room /\ state = "Reconciled" /\ amount # 0
  /\ amount <= settlement

\* Credits and refunds together stay within the settlement.
MayAdjust(amount) ==
  /\ Room /\ state = "Reconciled" /\ amount # 0
  /\ Saturated(Saturated(credits + refunds) + amount) <= settlement

ApplyCredit(key, amount) ==
  /\ MayAdjust(amount)
  /\ credits' = Saturated(credits + amount)
  /\ Apply(Input("CreditApplied", key, "credit", NoSource, 0, amount))
  /\ UNCHANGED <<standing, usage, metered, settlement, refunds>>

ReconcileRefund(key, amount) ==
  /\ MayAdjust(amount)
  /\ refunds' = Saturated(refunds + amount)
  /\ Apply(Input("RefundReconciled", key, "refund", NoSource, 0, amount))
  /\ UNCHANGED <<standing, usage, metered, settlement, credits>>

Next ==
  \/ \E o \in Observations : Observe(o)
  \/ \E key \in CallerKeys : AuthorizeFulfillment(key)
  \/ \E source \in Sources : BindManufacture(source)
  \/ \E digest \in Digests : BindDelivery(digest) \/ VerifyDelivery(digest)
  \/ \E source \in Sources, units \in Units : DeriveUsage(source, units)
  \/ \E key \in CallerKeys, amount \in Amounts :
       ApplyCredit(key, amount) \/ ReconcileRefund(key, amount)

Spec == Init /\ [][Next]_vars

-----------------------------------------------------------------------------
(* Properties.                                                             *)

Receipted(kind) == {i \in DOMAIN receipts : receipts[i].kind = kind}

\* w[1] + ... + w[n]
SumTo(w, n) == LET sum[i \in Nat] == IF i = 0 THEN 0 ELSE sum[i - 1] + w[i] IN sum[n]

\* What the receipts of one kind come to.
AmountsOf(kind) ==
  [i \in DOMAIN receipts |-> IF receipts[i].kind = kind THEN receipts[i].amount ELSE 0]

Total(kind) == SumTo(AmountsOf(kind), Len(receipts))

ReceiptFields ==
  {"kind", "event", "source", "units", "amount", "before", "after", "previous", "core"}

\* The type of every variable; an idempotency index points into the ledger.
TypeOK ==
  /\ state \in {"Discovered"} \cup {Advances[kind][2] : kind \in DOMAIN Advances}
  /\ entitlement \in {"Unknown", "Active", "Suspended", "Revoked"}
  /\ {quantity, usage, metered, settlement, credits, refunds} \subseteq 0..MaxU64
  /\ \A i \in DOMAIN receipts : DOMAIN receipts[i] = ReceiptFields
  /\ \A k \in DOMAIN idempotency : idempotency[k].index \in DOMAIN receipts

\* replay_verify would accept the ledger, and replaying it gives the commercial
\* state: every receipt starts where the one before it ended, and names it.
StandingIsReplayable ==
  LET After(i) == IF i = 0 THEN "Discovered" ELSE receipts[i].after IN
  /\ state = After(Len(receipts))
  /\ \A i \in DOMAIN receipts :
       /\ receipts[i].before = After(i - 1)
       /\ receipts[i].previous = IF i = 1 THEN NoDigest ELSE receipts[i - 1].core

\* However often a provider repeats a notification, it is receipted once, and
\* no stage from the agreement to the settlement is ever entered twice.
ReceiptedOnce ==
  \A i, j \in DOMAIN receipts :
    (i # j /\ receipts[i].kind = receipts[j].kind) =>
      \/ receipts[i].kind \in {"CreditApplied", "RefundReconciled"}
      \/ receipts[i].kind \in StatusKinds /\ receipts[i].event # receipts[j].event

\* A repeated key is answered with the receipt of the very transition it was
\* used for, and every receipt is reached by one key.
IdempotencyIsExact ==
  /\ \A k \in DOMAIN idempotency :
       Fingerprint(receipts[idempotency[k].index]) = idempotency[k].print
  /\ {idempotency[k].index : k \in DOMAIN idempotency} = DOMAIN receipts
  /\ Cardinality(DOMAIN idempotency) = Len(receipts)

\* A caller's key is one that the ledger derives for a usage: they share one
\* table, and either then bars the other.
UsageKeyTaken ==
  \E source \in Sources, units \in Units : <<"usage", source, units>> \in CallerKeys

\* "Zero settlement that diverges from admitted price, units" (docs/
\* MARKETPLACE-COMMERCE.md): once the ledger stands as metered, the usage and
\* the meter are receipted, in that order and for the same units, and once it
\* stands as reconciled the settlement is receipted too, at their price.
\* Fields that a refused notification wrote never say otherwise.
MoneyFollowsUsage ==
  /\ metered # 0 => metered = usage
  /\ settlement # 0 => settlement = Saturated(UnitPrice * metered)
  /\ state \in {"Metered", "Reconciled"} =>
       \E i \in Receipted("UsageDerived"), j \in Receipted("MeterAccepted") :
         /\ i < j /\ receipts[j].units = metered /\ metered # 0
         /\ receipts[i].units <= metered
         /\ receipts[i].units = metered \/ UsageKeyTaken
  /\ state = "Reconciled" =>
       \E i \in Receipted("SettlementReconciled") :
         receipts[i].units = metered /\ receipts[i].amount = settlement

\* Credits and refunds, applied and receipted, never give back more than was
\* settled, as long as the settlement is a number that u64 can exceed. (When it
\* is not, the check passes for any amount, and the totals saturate below what
\* the receipts add up to.)
AdjustmentsWithinSettlement ==
  settlement < MaxU64 =>
    /\ Total("CreditApplied") <= credits /\ Total("RefundReconciled") <= refunds
    /\ credits + refunds <= settlement

\* "Zero unreceipted commercial transitions", of money: what the ledger has
\* credited is what its receipts say it has.
CreditsAreReceipted == credits = Total("CreditApplied")

\* The entitlement that the first n receipts tell of.
EntitlementTold(n) ==
  LET Status == [EntitlementAdmitted |-> "Active", EntitlementSuspended |-> "Suspended",
                 EntitlementReinstated |-> "Active", EntitlementRevoked |-> "Revoked"]
      told   == {i \in 1..n : receipts[i].kind \in DOMAIN Status}
  IN  IF told = {} THEN "Unknown" ELSE Status[receipts[Max(told)].kind]

\* "Zero unentitled fulfillment": by the receipts that precede it, a fulfillment
\* was authorized under an active entitlement.
FulfillmentIsEntitled ==
  \A i \in Receipted("FulfillmentAuthorized") : EntitlementTold(i - 1) = "Active"
=============================================================================
