------------------------------ MODULE BrceLaw -------------------------------
(***************************************************************************)
(* What the BRCE executor promises of every receipt reservation, without   *)
(* saying how: the reservation is durable before the first actuation, a    *)
(* verdict is reached only about something that was actuated, and a        *)
(* verdict, once reached, is never replaced ("Zero unreceipted actuation", *)
(* docs/HDITC-DFCM-RUNTIME.md).                                            *)
(***************************************************************************)
CONSTANTS
  Reservations,       \* every receipt reservation
  Verdicts,           \* reservation |-> the verdicts that may be recorded for it
  NoVerdict

VARIABLES
  reserved,   \* reservations that are durable
  actuated,   \* reservations whose actuation was attempted at least once
  verdict     \* the verdict on each reservation, if there is one

lawVars == <<reserved, actuated, verdict>>

LawInit ==
  /\ reserved = {}
  /\ actuated = {}
  /\ verdict = [r \in Reservations |-> NoVerdict]

Reserve(r) ==
  /\ reserved' = reserved \cup {r}
  /\ UNCHANGED <<actuated, verdict>>

Attempt(r) ==
  /\ r \in reserved
  /\ actuated' = actuated \cup {r}
  /\ UNCHANGED <<reserved, verdict>>

Conclude(r) ==
  /\ r \in actuated
  /\ verdict[r] = NoVerdict
  /\ verdict'[r] \in Verdicts[r]
  /\ verdict' = [verdict EXCEPT ![r] = verdict'[r]]
  /\ UNCHANGED <<reserved, actuated>>

LawNext == \E r \in Reservations : Reserve(r) \/ Attempt(r) \/ Conclude(r)

LawSpec == LawInit /\ [][LawNext]_lawVars
=============================================================================
