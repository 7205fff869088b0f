-------------------------- MODULE ConcurrencyLimit --------------------------
(***************************************************************************)
(* ConcurrencyLimitService (src/middleware.rs) around an asynchronous      *)
(* handler, alone or with TimeoutService inside or outside of it.          *)
(*                                                                         *)
(* Requests are tasks that run concurrently.  tokio's semaphore hands a    *)
(* released permit to the first waiter, which holds it from then on, even  *)
(* before its task runs.  A future may be dropped at any await: the        *)
(* client gave up.                                                         *)
(***************************************************************************)
EXTENDS Naturals, Sequences, FiniteSets

CONSTANTS
    Requests,
    Configured,      \* the values of max_concurrent tried, possibly 0
    Streaming,       \* the requests whose response body is a stream
    HangSets         \* the sets of requests whose handlers may hang together

ASSUME ConcurrencyAssumption ==
    /\ Configured \subseteq Nat /\ IsFiniteSet(Requests)
    /\ Streaming \subseteq Requests /\ HangSets \subseteq SUBSET Requests

VARIABLES
    max_concurrent,
    place,      \* where TimeoutService stands: "none", "inside", "outside"
    hangs,      \* the requests whose handler never finishes
    state,      \* per request, where its future is
    handler,    \* per request, its handler: "none", "busy", "ready"
    expired,    \* per request, whether its deadline has passed
    permits,    \* the semaphore's free permits
    queue       \* its waiters, first come first served

setting == <<max_concurrent, place, hangs>>
vars == <<setting, state, handler, expired, permits, queue>>

LimitUnclamped == max_concurrent
Limit == IF max_concurrent = 0 THEN 1 ELSE max_concurrent

In(s) == {r \in Requests : state[r] = s}
Holders == In("granted") \cup In("running")
Over == {"body", "done", "dropped"}

Init ==
    /\ max_concurrent \in Configured
    /\ place \in {"none", "inside", "outside"}
    /\ hangs \in HangSets /\ (place = "none" => hangs = {})
    /\ state = [r \in Requests |-> "new"]
    /\ handler = [r \in Requests |-> "none"]
    /\ expired = [r \in Requests |-> FALSE]
    /\ permits = Limit
    /\ queue = << >>

-----------------------------------------------------------------------------
(* A released permit goes to the first waiter; r moves on to state s.      *)
ReleaseTwice(r, s) ==
    /\ permits' = permits + 1
    /\ IF queue = << >>
         THEN UNCHANGED queue /\ state' = [state EXCEPT ![r] = s]
         ELSE /\ queue' = Tail(queue)
              /\ state' = [state EXCEPT ![r] = s, ![Head(queue)] = "granted"]
ReleaseWithoutWakeup(r, s) ==
    /\ permits' = permits + 1
    /\ state' = [state EXCEPT ![r] = s]
    /\ UNCHANGED queue
ReleaseToLast(r, s) ==
    \/ /\ queue = << >> /\ permits' = permits + 1 /\ UNCHANGED queue
       /\ state' = [state EXCEPT ![r] = s]
    \/ /\ queue # << >> /\ UNCHANGED permits
       /\ queue' = SubSeq(queue, 1, Len(queue) - 1)
       /\ state' = [state EXCEPT ![r] = s, ![queue[Len(queue)]] = "granted"]
Release(r, s) ==
    \/ /\ queue = << >> /\ permits' = permits + 1 /\ UNCHANGED queue
       /\ state' = [state EXCEPT ![r] = s]
    \/ /\ queue # << >> /\ UNCHANGED permits
       /\ queue' = Tail(queue)
       /\ state' = [state EXCEPT ![r] = s, ![Head(queue)] = "granted"]

(* A waiter that is dropped leaves the queue; the others stay in order.    *)
LeaveQueue(r, s) ==
    /\ \E i \in 1..Len(queue) :
          /\ queue[i] = r
          /\ queue' = SubSeq(queue, 1, i - 1) \o SubSeq(queue, i + 1, Len(queue))
    /\ state' = [state EXCEPT ![r] = s]
    /\ UNCHANGED permits

-----------------------------------------------------------------------------
(* call() only builds the future; nothing happens until it is polled.      *)
Call(r) ==
    /\ state[r] = "new"
    /\ state' = [state EXCEPT ![r] = "called"]
    /\ UNCHANGED <<setting, handler, expired, permits, queue>>

(* The first poll of acquire_owned().                                      *)
Acquire(r) ==
    /\ state[r] = "called"
    /\ \/ /\ permits > 0
          /\ permits' = permits - 1
          /\ state' = [state EXCEPT ![r] = "granted"]
          /\ UNCHANGED queue
       \/ /\ permits = 0
          /\ queue' = Append(queue, r)
          /\ state' = [state EXCEPT ![r] = "waiting"]
          /\ UNCHANGED permits
    /\ UNCHANGED <<setting, handler, expired>>

(* The task of a granted request runs on into inner.call(req).             *)
Start(r) ==
    /\ state[r] = "granted"
    /\ state' = [state EXCEPT ![r] = "running"]
    /\ handler' = [handler EXCEPT ![r] = "busy"]
    /\ UNCHANGED <<setting, expired, permits, queue>>

HandlerFinishes(r) ==
    /\ handler[r] = "busy" /\ r \notin hangs
    /\ handler' = [handler EXCEPT ![r] = "ready"]
    /\ UNCHANGED <<setting, state, expired, permits, queue>>

(* inner.call(req).await is ready: _permit is dropped with the future,     *)
(* whatever is left of the response body.                                  *)
Respond(r) ==
    /\ state[r] = "running" /\ handler[r] = "ready"
    /\ Release(r, IF r \in Streaming THEN "body" ELSE "done")
    /\ handler' = [handler EXCEPT ![r] = "none"]
    /\ UNCHANGED <<setting, expired>>

BodyEnds(r) ==
    /\ state[r] = "body"
    /\ state' = [state EXCEPT ![r] = "done"]
    /\ UNCHANGED <<setting, handler, expired, permits, queue>>

-----------------------------------------------------------------------------
(* tokio::time::timeout: outside the limit the clock also runs while the   *)
(* request waits for its permit.                                           *)
TimerRuns(r) ==
    \/ place = "outside" /\ state[r] \in {"waiting", "granted", "running"}
    \/ place = "inside" /\ state[r] = "running"

DeadlinePasses(r) ==
    /\ TimerRuns(r) /\ ~expired[r]
    /\ expired' = [expired EXCEPT ![r] = TRUE]
    /\ UNCHANGED <<setting, state, handler, permits, queue>>

(* The wrapped future is polled before the deadline is looked at, so it is *)
(* given up only while it is still pending.                                *)
TimeOut(r) ==
    /\ expired[r] /\ TimerRuns(r)
    /\ \/ state[r] = "waiting" /\ LeaveQueue(r, "done")
       \/ state[r] = "running" /\ handler[r] = "busy" /\ Release(r, "done")
    /\ handler' = [handler EXCEPT ![r] = "none"]
    /\ UNCHANGED <<setting, expired>>

(* The client gives up and the future is dropped.                          *)
Cancel(r) ==
    /\ \/ state[r] \in {"granted", "running"} /\ Release(r, "dropped")
       \/ state[r] = "waiting" /\ LeaveQueue(r, "dropped")
       \/ /\ state[r] \in {"called", "body"}
          /\ state' = [state EXCEPT ![r] = "dropped"]
          /\ UNCHANGED <<permits, queue>>
    /\ handler' = [handler EXCEPT ![r] = "none"]
    /\ UNCHANGED <<setting, expired>>

-----------------------------------------------------------------------------
Task(r) == Acquire(r) \/ Start(r) \/ Respond(r) \/ TimeOut(r)

Next ==
    \E r \in Requests :
        \/ Call(r) \/ Task(r) \/ HandlerFinishes(r) \/ BodyEnds(r)
        \/ DeadlinePasses(r) \/ Cancel(r)

(* Woken tasks are polled, handlers that do not hang finish, clocks run.   *)
Fairness ==
    \A r \in Requests :
        /\ WF_vars(Task(r)) /\ WF_vars(HandlerFinishes(r))
        /\ WF_vars(DeadlinePasses(r))

Spec == Init /\ [][Next]_vars
FairSpec == Spec /\ Fairness

-----------------------------------------------------------------------------
(* Type invariant.                                                         *)
TypeOK ==
    /\ max_concurrent \in Configured
    /\ place \in {"none", "inside", "outside"}
    /\ hangs \subseteq Requests
    /\ state \in [Requests -> {"new", "called", "waiting", "granted", "running"}
                                \cup Over]
    /\ handler \in [Requests -> {"none", "busy", "ready"}]
    /\ expired \in [Requests -> BOOLEAN]
    /\ permits \in 0..Limit
    /\ queue \in Seq(Requests)

(* No permit is lost or duplicated, whichever await a future is dropped at *)
(* and however the deadline races the handler.                             *)
PermitsConserved == permits + Cardinality(Holders) = Limit

(* The queue holds exactly the waiting requests, each once, and nobody     *)
(* waits while a permit is free.                                           *)
NoLostWakeup ==
    /\ permits > 0 => queue = << >>
    /\ Len(queue) = Cardinality(In("waiting"))
    /\ \A r \in In("waiting") : \E i \in 1..Len(queue) : queue[i] = r

(* Requests are let in in the order in which they began to wait.           *)
NoOvertaking ==
    [][\A i, j \in 1..Len(queue) :
          i < j /\ state'[queue[j]] = "granted" => state'[queue[i]] # "waiting"]_vars

(* Every call is answered or dropped by its client, even behind requests   *)
(* that time out, are cancelled, or would hang for ever under a timeout.   *)
EveryCallEnds ==
    \A r \in Requests : state[r] = "called" ~> state[r] \in Over

(* What the doc comment of ConcurrencyLimitMiddleware says: the number of  *)
(* in-flight requests, streaming responses included, is capped.            *)
InFlightCapped == Cardinality(In("running") \cup In("body")) <= Limit

(* The abstract limiter, with "inside" a request whose handler runs.       *)
Phase ==
    [r \in Requests |->
        CASE state[r] \in {"new", "called", "waiting", "granted"} -> "outside"
          [] state[r] = "running" -> "inside"
          [] OTHER -> "left"]
Abstract == INSTANCE AdmissionControl WITH limit <- Limit, phase <- Phase

(* At most Limit handlers run at once, each request's handler at most once.*)
ImplementsAdmissionControl == Abstract!Spec

=============================================================================
