----------------------------- MODULE RateLimit -----------------------------
(***************************************************************************)
(* RateLimitService (src/middleware.rs): a window that starts with the     *)
(* first request to find the last one expired, and a count of the requests *)
(* seen in it, under an asynchronous mutex.                                *)
(*                                                                         *)
(* The clock is discrete and keeps running between any two steps, also     *)
(* between the two times the code reads it while it holds the lock.        *)
(***************************************************************************)
EXTENDS Integers, Sequences, FiniteSets

CONSTANTS
    Requests,
    Rates,      \* the requests_per_second that may be configured, 0 too
    Window,     \* one second, in ticks of the clock
    MaxTime     \* bound: the clock stops here

ASSUME RateAssumption ==
    Rates \subseteq Nat /\ Window \in Nat \ {0} /\ MaxTime \in Nat /\ IsFiniteSet(Requests)

VARIABLES
    rps,        \* requests_per_second
    now,        \* the clock
    start,      \* RateWindow.start
    count,      \* RateWindow.count
    lock,       \* the holder of the mutex, then its waiters in order
    state,      \* per request, where its future is
    served      \* history: the requests let through, when, in which window

vars == <<rps, now, start, count, lock, state, served>>

Quota == IF rps = 0 THEN 1 ELSE rps

Init ==
    /\ rps \in Rates
    /\ now = 0 /\ start = 0 /\ count = 0
    /\ lock = << >>
    /\ state = [r \in Requests |-> "new"]
    /\ served = {}

-----------------------------------------------------------------------------
Holds(r) == lock # << >> /\ Head(lock) = r
Move(r, s) == state' = [state EXCEPT ![r] = s]

(* The first poll of window.lock(): the mutex is fair.                     *)
Wait(r) ==
    /\ state[r] = "new"
    /\ lock' = Append(lock, r)
    /\ Move(r, "waiting")
    /\ UNCHANGED <<rps, now, start, count, served>>

(* guard.start.elapsed() >= 1 s                                            *)
ElapsedOneShort == now - start >= Window - 1
Elapsed == now - start >= Window

Check(r) ==
    /\ state[r] = "waiting" /\ Holds(r)
    /\ Move(r, IF Elapsed THEN "expired" ELSE "current")
    /\ UNCHANGED <<rps, now, start, count, lock, served>>

(* guard.start = Instant::now() reads the clock again.                     *)
ResetKeepingCount(r) ==
    /\ state[r] = "expired"
    /\ start' = now
    /\ Move(r, "current")
    /\ UNCHANGED <<rps, now, count, lock, served>>
Reset(r) ==
    /\ state[r] = "expired"
    /\ start' = now /\ count' = 0
    /\ Move(r, "current")
    /\ UNCHANGED <<rps, now, lock, served>>

(* guard.count += 1, refused requests included; the guard is dropped.      *)
CountAllowingOneMore(r) ==
    /\ state[r] = "current"
    /\ count' = count + 1
    /\ lock' = Tail(lock)
    /\ IF count <= Quota
         THEN /\ Move(r, "admitted")
              /\ served' = served \cup {[who |-> r, at |-> now, from |-> start]}
         ELSE Move(r, "refused") /\ UNCHANGED served
    /\ UNCHANGED <<rps, now, start>>
CountHoldingLock(r) ==
    /\ state[r] = "current"
    /\ count' = count + 1
    /\ IF count' <= Quota
         THEN /\ Move(r, "admitted") /\ lock' = Tail(lock)
              /\ served' = served \cup {[who |-> r, at |-> now, from |-> start]}
         ELSE Move(r, "refused") /\ UNCHANGED <<lock, served>>
    /\ UNCHANGED <<rps, now, start>>
Count(r) ==
    /\ state[r] = "current"
    /\ count' = count + 1
    /\ lock' = Tail(lock)
    /\ IF count' <= Quota
         THEN /\ Move(r, "admitted")
              /\ served' = served \cup {[who |-> r, at |-> now, from |-> start]}
         ELSE Move(r, "refused") /\ UNCHANGED served
    /\ UNCHANGED <<rps, now, start>>

(* A future is dropped while it waits for the mutex, its only await.       *)
Cancel(r) ==
    /\ state[r] = "waiting"
    /\ \E i \in 1..Len(lock) :
          lock[i] = r /\ lock' = SubSeq(lock, 1, i - 1) \o SubSeq(lock, i + 1, Len(lock))
    /\ Move(r, "dropped")
    /\ UNCHANGED <<rps, now, start, count, served>>

Tick ==
    /\ now < MaxTime
    /\ now' = now + 1
    /\ UNCHANGED <<rps, start, count, lock, state, served>>

-----------------------------------------------------------------------------
Task(r) == Check(r) \/ Reset(r) \/ Count(r)

Next == Tick \/ \E r \in Requests : Wait(r) \/ Task(r) \/ Cancel(r)

(* A future that was woken is polled.                                      *)
Fairness == \A r \in Requests : WF_vars(Task(r))

Spec == Init /\ [][Next]_vars
FairSpec == Spec /\ Fairness

-----------------------------------------------------------------------------
Settled == {"admitted", "refused", "dropped"}

(* Type invariant.                                                         *)
TypeOK ==
    /\ rps \in Rates
    /\ now \in 0..MaxTime /\ start \in 0..now /\ count \in Nat
    /\ lock \in Seq(Requests)
    /\ state \in [Requests -> {"new", "waiting", "expired", "current"} \cup Settled]
    /\ served \subseteq [who : Requests, at : 0..now, from : 0..now]

ServedIn(first, last) == {s \in served : s.at \in first..last}

(* However the requests are spread, and however late the clock is read, no *)
(* span of one second lets in more than twice the rate.                    *)
TwiceTheRateAtMost ==
    \A t \in 0..now : Cardinality(ServedIn(t, t + Window - 1)) <= 2 * Quota

(* In the long run the rate is kept, but for one window.                   *)
LongRunRate == Cardinality(served) <= Quota * (now \div Window + 1)

(* A request is refused only when its window let in as many as it may, and *)
(* at least one, even if the configured rate is 0.                         *)
RefusedOnlyWhenFull ==
    [][\A r \in Requests :
          state[r] # "refused" /\ state'[r] = "refused" =>
              LET admitted == {s \in served : s.from = start}
              IN  admitted # {} /\ Cardinality(admitted) = Quota]_vars

(* Nobody waits for the mutex for ever, whoever is dropped while waiting.  *)
EveryRequestSettled ==
    \A r \in Requests : state[r] = "waiting" ~> state[r] \in Settled

=============================================================================
