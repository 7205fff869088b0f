---------------------------- MODULE LoadShedding ----------------------------
(***************************************************************************)
(* LoadSheddingService (src/middleware.rs): a permit is tried for in       *)
(* call() itself, before the future it returns is polled, and a request    *)
(* that finds none is answered with `unavailable` and never waits.         *)
(*                                                                         *)
(* Clones of the service, one per connection, share the semaphore; their   *)
(* requests run concurrently and any future may be dropped.                *)
(***************************************************************************)
EXTENDS Naturals, FiniteSets

CONSTANTS
    Requests,
    MaxConcurrent,   \* max_concurrent as configured, possibly 0
    Streaming        \* the requests whose response body is a stream

ASSUME SheddingAssumption ==
    MaxConcurrent \in Nat /\ Streaming \subseteq Requests /\ IsFiniteSet(Requests)

VARIABLES
    enabled,    \* fixed when the service is built
    state,      \* per request, where it is
    permits     \* the semaphore's free permits

vars == <<enabled, state, permits>>

Limit == IF MaxConcurrent = 0 THEN 1 ELSE MaxConcurrent

In(s) == {r \in Requests : state[r] = s}

(* "held": the future owns its permit and has not been polled yet.         *)
Holders == In("held") \cup In("busy") \cup In("ready")

Init ==
    /\ enabled \in BOOLEAN
    /\ state = [r \in Requests |-> "new"]
    /\ permits = Limit

-----------------------------------------------------------------------------
Move(r, s) == state' = [state EXCEPT ![r] = s]

(* call() with load shedding off: no permit is looked at.                  *)
Pass(r) ==
    /\ ~enabled /\ state[r] = "new"
    /\ Move(r, "held")
    /\ UNCHANGED <<enabled, permits>>

(* try_acquire_owned() finds a permit, and the future owns it from now on. *)
AdmitUnlocked(r) ==
    /\ enabled /\ state[r] = "new" /\ permits > 0
    /\ permits' \in {permits - 1, permits}
    /\ Move(r, "held")
    /\ UNCHANGED enabled
Admit(r) ==
    /\ enabled /\ state[r] = "new" /\ permits > 0
    /\ permits' = permits - 1
    /\ Move(r, "held")
    /\ UNCHANGED enabled

(* It finds none, and the future only carries the refusal.                 *)
Shed(r) ==
    /\ enabled /\ state[r] = "new" /\ permits = 0
    /\ Move(r, "shed")
    /\ UNCHANGED <<enabled, permits>>

(* The first poll of the future calls the handler.                         *)
Start(r) ==
    /\ state[r] = "held"
    /\ Move(r, "busy")
    /\ UNCHANGED <<enabled, permits>>

HandlerFinishes(r) ==
    /\ state[r] = "busy"
    /\ Move(r, "ready")
    /\ UNCHANGED <<enabled, permits>>

(* The permit, when there is one, goes back with the future that owned it. *)
Free == permits' = IF enabled THEN permits + 1 ELSE permits

(* drop(permit) once the response head is there; the body is still to come.*)
Respond(r) ==
    /\ state[r] = "ready"
    /\ Move(r, IF r \in Streaming THEN "body" ELSE "done")
    /\ Free
    /\ UNCHANGED enabled

(* A refusal is answered, or a streamed body ends.                         *)
Close(r) ==
    /\ state[r] \in {"shed", "body"}
    /\ Move(r, "done")
    /\ UNCHANGED <<enabled, permits>>

(* The future, polled or not, or the body is dropped with its connection.  *)
DropLosingPermit(r) ==
    /\ \/ r \in Holders \ In("held") /\ Free
       \/ state[r] \in {"held", "shed", "body"} /\ UNCHANGED permits
    /\ Move(r, "dropped")
    /\ UNCHANGED enabled
Drop(r) ==
    /\ \/ r \in Holders /\ Free
       \/ state[r] \in {"shed", "body"} /\ UNCHANGED permits
    /\ Move(r, "dropped")
    /\ UNCHANGED enabled

-----------------------------------------------------------------------------
Call(r) == Pass(r) \/ Admit(r) \/ Shed(r)
Task(r) == Start(r) \/ HandlerFinishes(r) \/ Respond(r)

Next == \E r \in Requests : Call(r) \/ Task(r) \/ Close(r) \/ Drop(r)

Spec == Init /\ [][Next]_vars

-----------------------------------------------------------------------------
(* A request is refused only at the moment Limit others own a permit, and  *)
(* never when load shedding is off: no permit is lost with a future that   *)
(* is dropped, polled or not.                                              *)
ShedOnlyWhenFull ==
    [][\A r \in Requests :
          state[r] # "shed" /\ state'[r] = "shed" =>
              enabled /\ Cardinality(Holders) = Limit]_vars

Phase ==
    [r \in Requests |->
        CASE state[r] \in {"new", "held"} -> "outside"
          [] state[r] \in {"busy", "ready"} -> "inside"
          [] OTHER -> "left"]
Abstract == INSTANCE AdmissionControl WITH limit <- Limit, phase <- Phase

(* While shedding is on, at most Limit handlers run at once.               *)
ImplementsAdmissionControl ==
    Abstract!Init /\ [][enabled => Abstract!Next]_Phase

=============================================================================
