-------------------------- MODULE AdmissionControl --------------------------
(***************************************************************************)
(* What a limiter around a service promises, however it queues or refuses: *)
(* a request enters the service at most once, and never while limit others *)
(* are inside.  ConcurrencyLimit and LoadShedding implement it.            *)
(***************************************************************************)
EXTENDS Naturals, FiniteSets

CONSTANT Requests

VARIABLES
    limit,      \* fixed when the limiter is built
    phase       \* per request: "outside", "inside" or "left"

vars == <<limit, phase>>

Inside == {r \in Requests : phase[r] = "inside"}

Init ==
    /\ limit \in Nat \ {0}
    /\ phase = [r \in Requests |-> "outside"]

Enter(r) ==
    /\ phase[r] = "outside" /\ Cardinality(Inside) < limit
    /\ phase' = [phase EXCEPT ![r] = "inside"]

(* Refused, timed out or abandoned before it entered.                      *)
TurnAway(r) ==
    /\ phase[r] = "outside"
    /\ phase' = [phase EXCEPT ![r] = "left"]

Leave(r) ==
    /\ phase[r] = "inside"
    /\ phase' = [phase EXCEPT ![r] = "left"]

Next ==
    /\ \E r \in Requests : Enter(r) \/ TurnAway(r) \/ Leave(r)
    /\ UNCHANGED limit

Spec == Init /\ [][Next]_vars

=============================================================================
