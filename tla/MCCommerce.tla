----------------------------- MODULE MCCommerce -----------------------------
(***************************************************************************)
(* A small instance of Commerce: one agreement, a provider that reports    *)
(* each kind of event, rightly, wrongly and for another buyer, and callers *)
(* with three keys, one of them a key that the ledger derives for a meter. *)
(***************************************************************************)
EXTENDS Commerce

CONSTANTS own, foreign

Event(kind) ==
  [kind |-> kind, identity |-> own, event |-> "e1", quantity |-> 1, named |-> TRUE,
   units |-> 2, amount |-> 3, currency |-> "USD"]

\* The stages. Two units saturate the price, one does not; a reading or a
\* settlement of the other amount does not match.
Stages ==
  {Event("Agreement"), Event("Entitlement"), Event("MeterAccepted"), Event("Settlement"),
   [Event("Agreement") EXCEPT !.identity = foreign],
   [Event("Entitlement") EXCEPT !.quantity = 0],
   [Event("MeterAccepted") EXCEPT !.units = 1, !.event = "e2"],
   [Event("Settlement") EXCEPT !.amount = 2, !.event = "e2"],
   [Event("Settlement") EXCEPT !.currency = "EUR"]}

\* Well-formed but for a blank event: the meter and the settlement are written
\* before they are refused.
Blank ==
  {[Event("MeterAccepted") EXCEPT !.event = NoEvent],
   [Event("Settlement") EXCEPT !.event = NoEvent]}

Revoked == Event("Revoked")

\* Changes of the entitlement; one change and one suspension are malformed.
Changes ==
  {Event("EntitlementChanged"), Event("Suspended"), Event("Reinstated"), Revoked,
   [Event("EntitlementChanged") EXCEPT !.named = FALSE],
   [Event("Suspended") EXCEPT !.event = NoEvent]}

MCObservations == Stages \cup Blank \cup Changes

MCFewObservations == Stages \cup {Revoked}

MCSources    == {"digest"}
MCDigests    == {"digest"}
MCAmounts    == {1, 2}
MCUnits      == {1, 2}
MCCallerKeys == {<<"key 1">>, <<"key 2">>, <<"meter", "e1">>}
=============================================================================
