----------------------- MODULE ConcurrencyLimitProofs -----------------------
(***************************************************************************)
(* Proofs about ConcurrencyLimit, for every finite set of requests, every  *)
(* limit, every place of the timeout and every set of hanging handlers.    *)
(***************************************************************************)
EXTENDS ConcurrencyLimit, SequenceTheorems, FiniteSetTheorems, TLAPS

-----------------------------------------------------------------------------
States == {"new", "called", "waiting", "granted", "running"} \cup Over

(* The queue holds the waiting requests, each once, and only while no      *)
(* permit is free.                                                         *)
QueueOfWaiters ==
    /\ permits > 0 => queue = << >>
    /\ \A i \in 1..Len(queue) : state[queue[i]] = "waiting"
    /\ \A i, j \in 1..Len(queue) : queue[i] = queue[j] => i = j
    /\ \A r \in In("waiting") : \E i \in 1..Len(queue) : queue[i] = r

(* The part of the invariant that is about the semaphore.                  *)
SemaphoreInv ==
    /\ max_concurrent \in Configured /\ permits \in Nat
    /\ state \in [Requests -> States]
    /\ queue \in Seq(Requests)
    /\ PermitsConserved
    /\ QueueOfWaiters

(* Exactly the running requests have a handler.                            *)
HandlersRun == \A r \in Requests : handler[r] # "none" <=> state[r] = "running"

IInv == TypeOK /\ PermitsConserved /\ QueueOfWaiters /\ HandlersRun

-----------------------------------------------------------------------------
(* The limit is positive, whatever is configured.                          *)
LEMMA LimitIsPositive ==
    ASSUME max_concurrent \in Configured
    PROVE  Limit \in Nat \ {0}
BY ConcurrencyAssumption DEF Limit

(* The permits held can be counted.                                        *)
LEMMA HoldersAreFinite ==
    IsFiniteSet(Holders) /\ Cardinality(Holders) \in Nat
<1>1. Holders \in SUBSET Requests
  BY DEF Holders, In
<1> QED
  BY <1>1, FS_Subset, FS_CardinalityType, ConcurrencyAssumption

(* What is left of a sequence without its k-th element.                     *)
LEMMA RemovedFromSequence ==
    ASSUME NEW S, NEW q \in Seq(S), NEW k \in 1..Len(q),
           NEW p, p = SubSeq(q, 1, k - 1) \o SubSeq(q, k + 1, Len(q))
    PROVE  /\ p \in Seq(S) /\ Len(p) = Len(q) - 1
           /\ \A i \in 1..Len(p) : p[i] = IF i < k THEN q[i] ELSE q[i + 1]
<1>1. \A i \in 1..Len(q) : q[i] \in S
  OBVIOUS
<1>2. PICK a : a = SubSeq(q, 1, k - 1)
  OBVIOUS
<1>3. PICK b : b = SubSeq(q, k + 1, Len(q))
  OBVIOUS
<1>4. a \in Seq(S) /\ Len(a) = k - 1 /\ \A i \in 1..(k - 1) : a[i] = q[i]
  BY <1>1, <1>2, SubSeqProperties
<1>5. b \in Seq(S) /\ Len(b) = Len(q) - k /\ \A i \in 1..(Len(q) - k) : b[i] = q[k + i]
  BY <1>1, <1>3, SubSeqProperties
<1>6. Len(q) \in Nat /\ Len(a) \in Nat /\ Len(b) \in Nat /\ k \in Nat
  BY <1>4, <1>5, LenProperties
<1>7. a \o b \in Seq(S) /\ Len(a \o b) = Len(q) - 1
  <2>1. a \o b \in Seq(S) /\ Len(a \o b) = Len(a) + Len(b)
    BY <1>4, <1>5, ConcatProperties
  <2> QED
    BY <2>1, <1>4, <1>5, <1>6
<1>8. ASSUME NEW i \in 1..(Len(q) - 1)
      PROVE  (a \o b)[i] = IF i < k THEN q[i] ELSE q[i + 1]
  <2>1. (a \o b)[i] = IF i <= Len(a) THEN a[i] ELSE b[i - Len(a)]
    <3>1. i \in 1..(Len(a) + Len(b))
      BY <1>4, <1>5, <1>6
    <3> QED
      BY <3>1, <1>4, <1>5, ConcatProperties
  <2>2. CASE i < k
    <3>1. i \in 1..(k - 1) /\ (a \o b)[i] = a[i]
      BY <1>4, <1>6, <2>1, <2>2
    <3> QED
      BY <3>1, <1>4, <2>2
  <2>3. CASE i >= k
    <3>1. /\ (a \o b)[i] = b[i - Len(a)] /\ i - Len(a) \in 1..(Len(q) - k)
          /\ k + (i - Len(a)) = i + 1
      BY <1>4, <1>6, <2>1, <2>3
    <3>2. ~ (i < k)
      BY <1>6, <2>3
    <3> QED
      BY <1>5, <3>1, <3>2
  <2>4. i < k \/ i >= k
    BY <1>6
  <2> QED
    BY <2>2, <2>3, <2>4, Zenon
<1> QED
  BY <1>2, <1>3, <1>7, <1>8

(* A request that neither takes nor gives back a permit, and neither joins *)
(* nor leaves the queue, disturbs nothing.                                 *)
LEMMA MoveKeepsSemaphore ==
    ASSUME SemaphoreInv, NEW r \in Requests, NEW s \in States,
           state' = [state EXCEPT ![r] = s], UNCHANGED <<max_concurrent, permits, queue>>,
           state[r] # "waiting", s # "waiting",
           state[r] \in {"granted", "running"} <=> s \in {"granted", "running"}
    PROVE  SemaphoreInv'
<1> USE DEF SemaphoreInv
<1>1. Holders' = Holders
  BY DEF Holders, In
<1>2. PermitsConserved'
  BY <1>1 DEF PermitsConserved, Limit
<1>3. In("waiting")' = In("waiting")
  BY DEF In
<1>4. \A i \in 1..Len(queue) : queue[i] \in Requests /\ queue[i] # r
  BY DEF QueueOfWaiters
<1>5. QueueOfWaiters'
  BY <1>3, <1>4 DEF QueueOfWaiters
<1> QED
  BY <1>2, <1>5

(* acquire_owned() takes a permit, or puts the request at the end of the   *)
(* queue.                                                                  *)
LEMMA AcquireKeepsSemaphore ==
    ASSUME SemaphoreInv, NEW r \in Requests, Acquire(r)
    PROVE  SemaphoreInv'
<1> USE DEF SemaphoreInv, Acquire, setting
<1>1. CASE permits > 0
  <2>1. /\ permits' = permits - 1 /\ queue' = queue /\ queue = << >>
        /\ state' = [state EXCEPT ![r] = "granted"]
    BY <1>1 DEF QueueOfWaiters
  <2>2. Holders' = Holders \cup {r} /\ r \notin Holders
    BY <2>1 DEF Holders, In
  <2>3. Cardinality(Holders') = Cardinality(Holders) + 1
    BY <2>2, HoldersAreFinite, FS_AddElement
  <2>4. PermitsConserved'
    BY <1>1, <2>1, <2>3, HoldersAreFinite, LimitIsPositive DEF PermitsConserved, Limit
  <2>5. QueueOfWaiters'
    BY <2>1 DEF QueueOfWaiters, In
  <2> QED
    BY <1>1, <2>1, <2>4, <2>5 DEF States
<1>2. CASE permits = 0
  <2>1. /\ permits' = 0 /\ queue' = Append(queue, r)
        /\ state' = [state EXCEPT ![r] = "waiting"]
    BY <1>2
  <2>2. Holders' = Holders
    BY <2>1 DEF Holders, In
  <2>3. PermitsConserved'
    BY <1>2, <2>1, <2>2 DEF PermitsConserved, Limit
  <2>4. \A i \in 1..Len(queue) : queue[i] \in Requests /\ queue[i] # r
    BY DEF QueueOfWaiters
  <2>5. /\ queue' \in Seq(Requests) /\ Len(queue') = Len(queue) + 1
        /\ \A i \in 1..Len(queue) : queue'[i] = queue[i]
        /\ queue'[Len(queue) + 1] = r
    BY <2>1, AppendProperties
  <2>6. \A q \in In("waiting")' : \E i \in 1..Len(queue') : queue'[i] = q
    <3> SUFFICES ASSUME NEW q \in In("waiting")'
                 PROVE  \E i \in 1..Len(queue') : queue'[i] = q
      OBVIOUS
    <3>1. q = r \/ q \in In("waiting")
      BY <2>1 DEF In
    <3> QED
      BY <2>5, <3>1 DEF QueueOfWaiters
  <2>7. QueueOfWaiters'
    BY <2>1, <2>4, <2>5, <2>6 DEF QueueOfWaiters
  <2> QED
    BY <2>1, <2>3, <2>5, <2>7 DEF States
<1> QED
  BY <1>1, <1>2

(* A permit given back goes to the first waiter, or is free.               *)
LEMMA ReleaseKeepsSemaphore ==
    ASSUME SemaphoreInv, UNCHANGED max_concurrent, NEW r \in Requests, NEW s \in Over,
           state[r] \in {"granted", "running"}, Release(r, s)
    PROVE  SemaphoreInv'
<1> USE DEF SemaphoreInv
<1>1. \A i \in 1..Len(queue) : queue[i] \in Requests /\ queue[i] # r
  BY DEF QueueOfWaiters
<1>2. CASE queue = << >>
  <2>1. /\ permits' = permits + 1 /\ queue' = << >>
        /\ state' = [state EXCEPT ![r] = s]
    BY <1>2 DEF Release
  <2>2. Holders' = Holders \ {r} /\ r \in Holders
    BY <2>1 DEF Holders, In, Over
  <2>3. Cardinality(Holders') = Cardinality(Holders) - 1
    BY <2>2, HoldersAreFinite, FS_RemoveElement
  <2>4. PermitsConserved'
    BY <2>1, <2>3, HoldersAreFinite, LimitIsPositive DEF PermitsConserved, Limit
  <2>5. In("waiting") = {} /\ In("waiting")' = {}
    BY <1>2, <2>1 DEF QueueOfWaiters, In, Over
  <2> QED
    BY <2>1, <2>4, <2>5 DEF QueueOfWaiters, States
<1>3. CASE queue # << >>
  <2> DEFINE h == queue[1]
  <2>1. /\ permits' = permits /\ queue' = Tail(queue)
        /\ state' = [state EXCEPT ![r] = s, ![h] = "granted"]
    BY <1>3 DEF Release
  <2>2. h \in Requests /\ h # r /\ state[h] = "waiting" /\ Len(queue) > 0
    BY <1>1, <1>3, EmptySeq, LenProperties DEF QueueOfWaiters
  <2>3. /\ queue' \in Seq(Requests) /\ Len(queue') = Len(queue) - 1
        /\ \A i \in 1..Len(queue') : queue'[i] = queue[i + 1]
    BY <1>3, <2>1, HeadTailProperties
  <2>4. Holders' = (Holders \ {r}) \cup {h} /\ r \in Holders /\ h \notin Holders \ {r}
    BY <2>1, <2>2 DEF Holders, In, Over
  <2>5. Cardinality(Holders') = Cardinality(Holders)
    <3>1. /\ IsFiniteSet(Holders \ {r})
          /\ Cardinality(Holders \ {r}) = Cardinality(Holders) - 1
      BY <2>4, HoldersAreFinite, FS_RemoveElement
    <3>2. Cardinality((Holders \ {r}) \cup {h}) = Cardinality(Holders \ {r}) + 1
      BY <2>4, <3>1, FS_AddElement
    <3> QED
      BY <2>4, <3>1, <3>2, HoldersAreFinite
  <2>6. PermitsConserved'
    BY <2>1, <2>5 DEF PermitsConserved, Limit
  <2>7. \A i \in 1..Len(queue') : i + 1 \in 1..Len(queue) /\ queue[i + 1] # h
    BY <2>2, <2>3 DEF QueueOfWaiters
  <2>8. \A q \in In("waiting")' : \E i \in 1..Len(queue') : queue'[i] = q
    <3> SUFFICES ASSUME NEW q \in In("waiting")'
                 PROVE  \E i \in 1..Len(queue') : queue'[i] = q
      OBVIOUS
    <3>1. q \in In("waiting") /\ q # h
      BY <2>1, <2>2 DEF In, Over
    <3>2. PICK i \in 1..Len(queue) : queue[i] = q
      BY <3>1 DEF QueueOfWaiters
    <3>3. i - 1 \in 1..Len(queue') /\ queue'[i - 1] = q
      BY <2>3, <3>1, <3>2
    <3> QED
      BY <3>3
  <2>9. \A i \in 1..Len(queue') : state'[queue'[i]] = "waiting"
    BY <1>1, <2>1, <2>3, <2>7 DEF QueueOfWaiters
  <2>10. \A i, j \in 1..Len(queue') : queue'[i] = queue'[j] => i = j
    BY <2>3, <2>7 DEF QueueOfWaiters
  <2>11. permits' = 0
    BY <1>3, <2>1 DEF QueueOfWaiters
  <2>12. QueueOfWaiters'
    BY <2>8, <2>9, <2>10, <2>11 DEF QueueOfWaiters
  <2> QED
    BY <2>1, <2>2, <2>3, <2>6, <2>12 DEF States
<1> QED
  BY <1>2, <1>3

(* Giving a permit back moves the request that held it, and at most one    *)
(* other, from waiting to granted.                                         *)
LEMMA ReleaseMoves ==
    ASSUME SemaphoreInv, NEW r \in Requests, NEW s \in Over,
           state[r] \in {"granted", "running"}, Release(r, s)
    PROVE  /\ state' \in [Requests -> States] /\ state'[r] = s
           /\ \A q \in Requests \ {r} :
                 \/ state'[q] = state[q]
                 \/ state[q] = "waiting" /\ state'[q] = "granted" /\ q = queue[1]
<1> USE DEF SemaphoreInv, States
<1>1. CASE queue = << >>
  BY <1>1 DEF Release
<1>2. CASE queue # << >>
  <2>1. 1 \in 1..Len(queue) /\ Head(queue) = queue[1]
    BY <1>2, EmptySeq, LenProperties
  <2>2. queue[1] \in Requests /\ state[queue[1]] = "waiting"
    BY <2>1 DEF QueueOfWaiters
  <2>3. state' = [state EXCEPT ![r] = s, ![queue[1]] = "granted"]
    BY <1>2, <2>1 DEF Release
  <2> QED
    BY <2>2, <2>3
<1> QED
  BY <1>1, <1>2

(* A waiter that is dropped leaves the others waiting in their order.      *)
LEMMA LeaveQueueKeepsSemaphore ==
    ASSUME SemaphoreInv, UNCHANGED max_concurrent, NEW r \in Requests, NEW s \in Over,
           state[r] = "waiting", LeaveQueue(r, s)
    PROVE  SemaphoreInv'
<1> USE DEF SemaphoreInv
<1>1. PICK k \in 1..Len(queue) :
          /\ queue[k] = r
          /\ queue' = SubSeq(queue, 1, k - 1) \o SubSeq(queue, k + 1, Len(queue))
  BY DEF LeaveQueue
<1>2. state' = [state EXCEPT ![r] = s] /\ permits' = permits /\ s # "waiting"
  BY DEF LeaveQueue, Over
<1>3. \A i \in 1..Len(queue) : queue[i] \in Requests
  OBVIOUS
<1>6. /\ queue' \in Seq(Requests) /\ Len(queue') = Len(queue) - 1
      /\ \A i \in 1..Len(queue') : queue'[i] = IF i < k THEN queue[i] ELSE queue[i + 1]
  <2>1. \A p : p = SubSeq(queue, 1, k - 1) \o SubSeq(queue, k + 1, Len(queue)) =>
                /\ p \in Seq(Requests) /\ Len(p) = Len(queue) - 1
                /\ \A i \in 1..Len(p) : p[i] = IF i < k THEN queue[i] ELSE queue[i + 1]
    BY RemovedFromSequence
  <2> QED
    BY <1>1, <2>1, Zenon
<1>7. \A i \in 1..Len(queue) : queue[i] = r => i = k
  BY <1>1 DEF QueueOfWaiters
<1>8. Holders' = Holders
  BY <1>2 DEF Holders, In, Over
<1>9. PermitsConserved'
  BY <1>2, <1>8 DEF PermitsConserved, Limit
<1>10. \A i \in 1..Len(queue') : state'[queue'[i]] = "waiting"
  BY <1>2, <1>3, <1>6, <1>7 DEF QueueOfWaiters
<1>11. \A i, j \in 1..Len(queue') : queue'[i] = queue'[j] => i = j
  BY <1>6 DEF QueueOfWaiters
<1>12. \A q \in In("waiting")' : \E i \in 1..Len(queue') : queue'[i] = q
  <2> SUFFICES ASSUME NEW q \in In("waiting")'
               PROVE  \E i \in 1..Len(queue') : queue'[i] = q
    OBVIOUS
  <2>1. q \in In("waiting") /\ q # r
    BY <1>2 DEF In
  <2>2. PICK i \in 1..Len(queue) : queue[i] = q
    BY <2>1 DEF QueueOfWaiters
  <2>3. CASE i < k
    <3>1. i \in 1..Len(queue') /\ queue'[i] = q
      BY <1>6, <2>2, <2>3
    <3> QED
      BY <3>1
  <2>4. CASE i > k
    <3>1. i - 1 \in 1..Len(queue') /\ queue'[i - 1] = q
      BY <1>6, <2>2, <2>4
    <3> QED
      BY <3>1
  <2> QED
    <3>1. i # k
      BY <1>1, <2>1, <2>2
    <3> QED
      BY <2>3, <2>4, <3>1
<1>13. permits' = 0
  BY <1>1, <1>2, EmptySeq DEF QueueOfWaiters
<1>14. QueueOfWaiters'
  BY <1>10, <1>11, <1>12, <1>13 DEF QueueOfWaiters
<1> QED
  BY <1>2, <1>6, <1>9, <1>14 DEF States

-----------------------------------------------------------------------------
(* Every step keeps the semaphore's invariant, the handlers with their     *)
(* running requests, and every variable in its type.                       *)
LEMMA InvInit == Init => IInv
<1> SUFFICES ASSUME Init PROVE IInv
  OBVIOUS
<1>1. Limit \in Nat \ {0}
  BY LimitIsPositive DEF Init
<1>2. Holders = {} /\ In("waiting") = {}
  BY DEF Init, Holders, In
<1>3. PermitsConserved
  BY <1>1, <1>2, FS_EmptySet DEF Init, PermitsConserved
<1>4. TypeOK
  BY <1>1, ConcurrencyAssumption DEF Init, TypeOK, Over
<1>5. QueueOfWaiters
  BY <1>2 DEF Init, QueueOfWaiters
<1> QED
  BY <1>3, <1>4, <1>5 DEF Init, IInv, HandlersRun

(* Within the semaphore's invariant, never more permits are free than      *)
(* there are.                                                              *)
LEMMA SemaphoreWithinLimit ==
    ASSUME SemaphoreInv
    PROVE  permits \in 0..Limit
BY LimitIsPositive, HoldersAreFinite DEF SemaphoreInv, PermitsConserved

(* The invariant is the semaphore's and that of the other variables.       *)
OtherTypes ==
    /\ place \in {"none", "inside", "outside"}
    /\ hangs \subseteq Requests
    /\ handler \in [Requests -> {"none", "busy", "ready"}]
    /\ expired \in [Requests -> BOOLEAN]

(* The invariant in the parts that the steps disturb one at a time.         *)
LEMMA InvIsSemaphoreAndRest ==
    IInv <=> SemaphoreInv /\ OtherTypes /\ HandlersRun
BY SemaphoreWithinLimit, LimitIsPositive
   DEF IInv, TypeOK, SemaphoreInv, OtherTypes, States

(* Every step keeps the semaphore's invariant.                              *)
LEMMA InvStep == IInv /\ [Next]_vars => IInv'
<1> SUFFICES ASSUME IInv, [Next]_vars PROVE IInv'
  OBVIOUS
<1>0. SemaphoreInv /\ OtherTypes /\ HandlersRun
  BY InvIsSemaphoreAndRest
<1>1. ASSUME NEW r \in Requests, Call(r)
      PROVE  IInv'
  <2>1. SemaphoreInv'
    BY <1>0, <1>1, MoveKeepsSemaphore DEF Call, setting, States
  <2>2. OtherTypes' /\ HandlersRun'
    BY <1>0, <1>1 DEF Call, setting, OtherTypes, HandlersRun, SemaphoreInv
  <2> QED
    BY <2>1, <2>2, InvIsSemaphoreAndRest, PTL
<1>2. ASSUME NEW r \in Requests, Acquire(r)
      PROVE  IInv'
  <2>1. SemaphoreInv'
    BY <1>0, <1>2, AcquireKeepsSemaphore
  <2>2. OtherTypes' /\ HandlersRun'
    BY <1>0, <1>2 DEF Acquire, setting, OtherTypes, HandlersRun, SemaphoreInv
  <2> QED
    BY <2>1, <2>2, InvIsSemaphoreAndRest, PTL
<1>3. ASSUME NEW r \in Requests, Start(r)
      PROVE  IInv'
  <2>1. SemaphoreInv'
    BY <1>0, <1>3, MoveKeepsSemaphore DEF Start, setting, States
  <2>2. OtherTypes' /\ HandlersRun'
    BY <1>0, <1>3 DEF Start, setting, OtherTypes, HandlersRun, SemaphoreInv
  <2> QED
    BY <2>1, <2>2, InvIsSemaphoreAndRest, PTL
<1>4. ASSUME NEW r \in Requests, HandlerFinishes(r)
      PROVE  IInv'
  <2>1. SemaphoreInv'
    BY <1>0, <1>4 DEF HandlerFinishes, setting, SemaphoreInv, PermitsConserved,
                      QueueOfWaiters, Holders, In, Limit
  <2>2. OtherTypes' /\ HandlersRun'
    BY <1>0, <1>4 DEF HandlerFinishes, setting, OtherTypes, HandlersRun
  <2> QED
    BY <2>1, <2>2, InvIsSemaphoreAndRest, PTL
<1>5. ASSUME NEW r \in Requests, Respond(r)
      PROVE  IInv'
  <2> DEFINE s == IF r \in Streaming THEN "body" ELSE "done"
  <2>1. s \in Over /\ state[r] \in {"granted", "running"} /\ Release(r, s)
    BY <1>5 DEF Respond, Over
  <2> HIDE DEF s
  <2>2. SemaphoreInv'
    BY <1>0, <1>5, <2>1, ReleaseKeepsSemaphore DEF Respond, setting
  <2>3. OtherTypes'
    BY <1>0, <1>5 DEF Respond, setting, OtherTypes
  <2>4. HandlersRun'
    BY <1>0, <1>5, <2>1, ReleaseMoves DEF Respond, OtherTypes, HandlersRun, Over
  <2> QED
    BY <2>2, <2>3, <2>4, InvIsSemaphoreAndRest, PTL
<1>6. ASSUME NEW r \in Requests, BodyEnds(r)
      PROVE  IInv'
  <2>1. SemaphoreInv'
    BY <1>0, <1>6, MoveKeepsSemaphore DEF BodyEnds, setting, States, Over
  <2>2. OtherTypes' /\ HandlersRun'
    BY <1>0, <1>6 DEF BodyEnds, setting, OtherTypes, HandlersRun, SemaphoreInv
  <2> QED
    BY <2>1, <2>2, InvIsSemaphoreAndRest, PTL
<1>7. ASSUME NEW r \in Requests, DeadlinePasses(r)
      PROVE  IInv'
  <2>1. SemaphoreInv'
    BY <1>0, <1>7 DEF DeadlinePasses, setting, SemaphoreInv, PermitsConserved,
                      QueueOfWaiters, Holders, In, Limit
  <2>2. OtherTypes' /\ HandlersRun'
    BY <1>0, <1>7 DEF DeadlinePasses, setting, OtherTypes, HandlersRun
  <2> QED
    BY <2>1, <2>2, InvIsSemaphoreAndRest, PTL
<1>8. ASSUME NEW r \in Requests, TimeOut(r)
      PROVE  IInv'
  <2>1. OtherTypes'
    BY <1>0, <1>8 DEF TimeOut, setting, OtherTypes
  <2>2. CASE state[r] = "waiting" /\ LeaveQueue(r, "done")
    <3>1. SemaphoreInv'
      BY <1>0, <1>8, <2>2, LeaveQueueKeepsSemaphore DEF TimeOut, setting, Over
    <3>2. HandlersRun'
      BY <1>0, <1>8, <2>2 DEF TimeOut, LeaveQueue, OtherTypes, HandlersRun, SemaphoreInv
    <3> QED
      BY <2>1, <3>1, <3>2, InvIsSemaphoreAndRest, PTL
  <2>3. CASE state[r] = "running" /\ Release(r, "done")
    <3>1. SemaphoreInv'
      BY <1>0, <1>8, <2>3, ReleaseKeepsSemaphore DEF TimeOut, setting, Over
    <3>2. HandlersRun'
      BY <1>0, <1>8, <2>3, ReleaseMoves DEF TimeOut, OtherTypes, HandlersRun, Over
    <3> QED
      BY <2>1, <3>1, <3>2, InvIsSemaphoreAndRest, PTL
  <2> QED
    BY <1>8, <2>2, <2>3 DEF TimeOut
<1>9. ASSUME NEW r \in Requests, Cancel(r)
      PROVE  IInv'
  <2>1. OtherTypes'
    BY <1>0, <1>9 DEF Cancel, setting, OtherTypes
  <2>2. CASE state[r] = "waiting" /\ LeaveQueue(r, "dropped")
    <3>1. SemaphoreInv'
      BY <1>0, <1>9, <2>2, LeaveQueueKeepsSemaphore DEF Cancel, setting, Over
    <3>2. HandlersRun'
      BY <1>0, <1>9, <2>2 DEF Cancel, LeaveQueue, OtherTypes, HandlersRun, SemaphoreInv
    <3> QED
      BY <2>1, <3>1, <3>2, InvIsSemaphoreAndRest, PTL
  <2>3. CASE state[r] \in {"granted", "running"} /\ Release(r, "dropped")
    <3>1. SemaphoreInv'
      BY <1>0, <1>9, <2>3, ReleaseKeepsSemaphore DEF Cancel, setting, Over
    <3>2. HandlersRun'
      BY <1>0, <1>9, <2>3, ReleaseMoves DEF Cancel, OtherTypes, HandlersRun, Over
    <3> QED
      BY <2>1, <3>1, <3>2, InvIsSemaphoreAndRest, PTL
  <2>4. CASE /\ state[r] \in {"called", "body"} /\ state' = [state EXCEPT ![r] = "dropped"]
             /\ UNCHANGED <<permits, queue>>
    <3>1. SemaphoreInv'
      BY <1>0, <1>9, <2>4, MoveKeepsSemaphore DEF Cancel, setting, States, Over
    <3>2. HandlersRun'
      BY <1>0, <1>9, <2>4 DEF Cancel, OtherTypes, HandlersRun, SemaphoreInv
    <3> QED
      BY <2>1, <3>1, <3>2, InvIsSemaphoreAndRest, PTL
  <2> QED
    BY <1>9, <2>2, <2>3, <2>4 DEF Cancel
<1>10. CASE UNCHANGED vars
  BY <1>10 DEF vars, setting, IInv, TypeOK, PermitsConserved, QueueOfWaiters, HandlersRun,
               Holders, In, Limit, Over
<1> QED
  BY <1>1, <1>2, <1>3, <1>4, <1>5, <1>6, <1>7, <1>8, <1>9, <1>10 DEF Next, Task

(* The semaphore's invariant holds in every state.                          *)
LEMMA Invariance == Spec => []IInv
BY InvInit, InvStep, PTL DEF Spec

(* Type correctness.                                                       *)
THEOREM TypeCorrect == Spec => []TypeOK
<1>1. IInv => TypeOK
  BY DEF IInv
<1> QED
  BY <1>1, Invariance, PTL

(* No permit is lost or duplicated, whatever a future is dropped for and   *)
(* wherever it then waits.                                                 *)
THEOREM PermitsAreConserved == Spec => []PermitsConserved
<1>1. IInv => PermitsConserved
  BY DEF IInv
<1> QED
  BY <1>1, Invariance, PTL

(* The queue is exactly the waiting requests, and nobody waits while a     *)
(* permit is free: the queue's positions are in bijection with In(..).     *)
THEOREM NoWakeupIsLost == Spec => []NoLostWakeup
<1>1. ASSUME IInv PROVE NoLostWakeup
  <2> DEFINE f == [i \in 1..Len(queue) |-> queue[i]]
  <2>1. SemaphoreInv /\ QueueOfWaiters
    BY <1>1, InvIsSemaphoreAndRest DEF IInv
  <2>2. \A i \in 1..Len(queue) : queue[i] \in In("waiting")
    BY <2>1 DEF SemaphoreInv, QueueOfWaiters, In
  <2>3. f \in Bijection(1..Len(queue), In("waiting"))
    BY <2>1, <2>2 DEF QueueOfWaiters, Bijection, Injection, Surjection, IsInjective
  <2>4. ExistsBijection(1..Len(queue), In("waiting"))
    BY <2>3 DEF ExistsBijection
  <2>5. Len(queue) = Cardinality(In("waiting"))
    BY <2>1, <2>4, FS_CountingElements, LenProperties DEF SemaphoreInv
  <2> QED
    BY <2>1, <2>5 DEF NoLostWakeup, QueueOfWaiters
<1> QED
  BY <1>1, Invariance, PTL

-----------------------------------------------------------------------------
(* The only request a step can grant a permit while it waits is the first. *)
LEMMA FirstIsGranted ==
    ASSUME IInv, [Next]_vars, NEW q \in Requests,
           state[q] = "waiting", state'[q] = "granted"
    PROVE  q = queue[1]
<1>1. SemaphoreInv /\ state \in [Requests -> States]
  BY InvIsSemaphoreAndRest DEF SemaphoreInv
<1>2. ASSUME NEW r \in Requests, NEW s \in Over,
             state[r] \in {"granted", "running"}, Release(r, s)
      PROVE  q = queue[1]
  BY <1>1, <1>2, ReleaseMoves
<1>3. ASSUME NEW r \in Requests, NEW s \in Over, LeaveQueue(r, s)
      PROVE  FALSE
  BY <1>1, <1>3 DEF LeaveQueue, Over
<1>4. ASSUME NEW r \in Requests,
             Call(r) \/ Acquire(r) \/ Start(r) \/ HandlerFinishes(r) \/ BodyEnds(r)
                \/ DeadlinePasses(r)
      PROVE  FALSE
  BY <1>1, <1>4 DEF Call, Acquire, Start, HandlerFinishes, BodyEnds, DeadlinePasses
<1>5. ASSUME NEW r \in Requests, Respond(r)
      PROVE  q = queue[1]
  BY <1>2, <1>5 DEF Respond, Over
<1>6. ASSUME NEW r \in Requests, TimeOut(r)
      PROVE  q = queue[1]
  BY <1>2, <1>3, <1>6 DEF TimeOut, Over
<1>7. ASSUME NEW r \in Requests, Cancel(r)
      PROVE  q = queue[1]
  <2>1. CASE state[r] \in {"called", "body"} /\ state' = [state EXCEPT ![r] = "dropped"]
    BY <1>1, <2>1
  <2> QED
    BY <1>2, <1>3, <1>7, <2>1 DEF Cancel, Over
<1>8. ~UNCHANGED vars
  BY DEF vars
<1> QED
  BY <1>4, <1>5, <1>6, <1>7, <1>8 DEF Next, Task

(* Waiters are let in in their order: no step grants one a permit and      *)
(* leaves an earlier one waiting.                                          *)
THEOREM NobodyOvertakes == Spec => NoOvertaking
<1> DEFINE A == \A i, j \in 1..Len(queue) :
                  i < j /\ state'[queue[j]] = "granted" => state'[queue[i]] # "waiting"
<1>1. ASSUME IInv, [Next]_vars PROVE A
  <2>1. queue \in Seq(Requests) /\ QueueOfWaiters
    BY <1>1 DEF IInv, TypeOK
  <2> SUFFICES ASSUME NEW i \in 1..Len(queue), NEW j \in 1..Len(queue),
                      i < j, state'[queue[j]] = "granted"
               PROVE  FALSE
    OBVIOUS
  <2>2. queue[j] \in Requests /\ state[queue[j]] = "waiting" /\ 1 \in 1..Len(queue)
    BY <2>1 DEF QueueOfWaiters
  <2>3. queue[j] = queue[1]
    BY <1>1, <2>2, FirstIsGranted
  <2>4. j = 1
    BY <2>1, <2>2, <2>3 DEF QueueOfWaiters
  <2> QED
    BY <2>4
<1>2. IInv /\ [Next]_vars => [A]_vars
  BY <1>1
<1> QED
  BY <1>2, Invariance, PTL DEF Spec, NoOvertaking

-----------------------------------------------------------------------------
(* A step that moves one request, and perhaps grants a waiter its permit,  *)
(* moves the phase of that one request only.                               *)
LEMMA PhaseMoves ==
    ASSUME state \in [Requests -> States], state' \in [Requests -> States],
           NEW r \in Requests, NEW p,
           p = Phase'[r],
           \A q \in Requests \ {r} : \/ state'[q] = state[q]
                                     \/ state[q] = "waiting" /\ state'[q] = "granted"
    PROVE  Phase' = [Phase EXCEPT ![r] = p]
BY DEF Phase, States, Over

(* The abstract limiter counts as this module does.                        *)
LEMMA SameCount == \A S : Abstract!Cardinality(S) = Cardinality(S)
BY DEF Abstract!Cardinality, Cardinality

(* At most Limit handlers run at once, each request's at most once: every  *)
(* step is one of the abstract limiter's, or leaves it alone.              *)
THEOREM RefinesAdmissionControl == Spec => ImplementsAdmissionControl
<1>1. Init => Abstract!Init
  <2> SUFFICES ASSUME Init PROVE Abstract!Init
    OBVIOUS
  <2>1. Limit \in Nat \ {0}
    BY LimitIsPositive DEF Init
  <2> QED
    BY <2>1 DEF Init, Abstract!Init, Phase
<1>2. IInv /\ [Next]_vars => [Abstract!Next]_(Abstract!vars)
  <2> SUFFICES ASSUME IInv, [Next]_vars
               PROVE  Abstract!Next \/ UNCHANGED <<Limit, Phase>>
    BY DEF Abstract!vars
  <2>1. SemaphoreInv /\ state \in [Requests -> States]
    BY InvIsSemaphoreAndRest DEF SemaphoreInv
  <2>2. IInv' /\ state' \in [Requests -> States]
    <3>1. IInv'
      BY InvStep
    <3>2. IInv' => state' \in [Requests -> States]
      BY DEF IInv, TypeOK, States
    <3> QED
      BY <3>1, <3>2
  <2>3. UNCHANGED Limit
    <3>1. UNCHANGED max_concurrent
      BY DEF Next, Task, vars, setting, Call, Acquire, Start, HandlerFinishes, Respond,
             BodyEnds, DeadlinePasses, TimeOut, Cancel
    <3> QED
      BY <3>1 DEF Limit
  <2>4. ASSUME NEW r \in Requests, NEW s \in Over,
               state[r] \in {"granted", "running"}, Release(r, s)
        PROVE  Abstract!Leave(r) \/ Abstract!TurnAway(r)
    <3>1. /\ state'[r] = s
          /\ \A q \in Requests \ {r} : \/ state'[q] = state[q]
                                       \/ state[q] = "waiting" /\ state'[q] = "granted"
      BY <2>1, <2>4, ReleaseMoves
    <3>2. Phase'[r] = "left"
      BY <3>1 DEF Phase, Over
    <3>3. Phase' = [Phase EXCEPT ![r] = "left"]
      BY <2>1, <2>2, <3>1, <3>2, PhaseMoves
    <3> QED
      BY <2>4, <3>3 DEF Abstract!Leave, Abstract!TurnAway, Phase
  <2>5. ASSUME NEW r \in Requests, NEW s \in Over, state[r] = "waiting", LeaveQueue(r, s)
        PROVE  Abstract!TurnAway(r)
    <3>1. state' = [state EXCEPT ![r] = s]
      BY <2>5 DEF LeaveQueue
    <3>2. Phase'[r] = "left"
      BY <2>1, <3>1 DEF Phase, Over
    <3>3. Phase' = [Phase EXCEPT ![r] = "left"]
      BY <2>1, <2>2, <3>1, <3>2, PhaseMoves
    <3> QED
      BY <2>5, <3>3 DEF Abstract!TurnAway, Phase
  <2>6. ASSUME NEW r \in Requests, Call(r) \/ Acquire(r)
        PROVE  UNCHANGED Phase
    <3>1. Phase'[r] = Phase[r]
      BY <2>1, <2>6 DEF Call, Acquire, Phase
    <3>2. \A q \in Requests \ {r} : state'[q] = state[q]
      BY <2>1, <2>6 DEF Call, Acquire
    <3>3. Phase' = [Phase EXCEPT ![r] = Phase[r]]
      BY <2>1, <2>2, <3>1, <3>2, PhaseMoves
    <3> QED
      BY <3>3 DEF Phase
  <2>7. ASSUME NEW r \in Requests, Start(r)
        PROVE  Abstract!Enter(r)
    <3>1. state' = [state EXCEPT ![r] = "running"] /\ state[r] = "granted"
      BY <2>7 DEF Start
    <3>2. Phase'[r] = "inside" /\ Phase[r] = "outside"
      BY <2>1, <3>1 DEF Phase
    <3>3. Phase' = [Phase EXCEPT ![r] = "inside"]
      BY <2>1, <2>2, <3>1, <3>2, PhaseMoves
    <3>4. Abstract!Inside \in SUBSET (Holders \ {r}) /\ r \in Holders
      BY <3>1 DEF Abstract!Inside, Phase, Holders, In
    <3>5. IsFiniteSet(Holders \ {r}) /\ Cardinality(Holders \ {r}) = Cardinality(Holders) - 1
      BY <3>4, HoldersAreFinite, FS_RemoveElement
    <3>6. IsFiniteSet(Abstract!Inside) /\ Cardinality(Abstract!Inside) <= Cardinality(Holders \ {r})
      BY <3>4, <3>5, FS_Subset
    <3>7. Cardinality(Abstract!Inside) < Limit
      <4>1. Cardinality(Abstract!Inside) \in Nat
        BY <3>6, FS_CardinalityType
      <4>2. permits \in Nat /\ permits + Cardinality(Holders) = Limit /\ Limit \in Nat
        BY <2>1, LimitIsPositive DEF SemaphoreInv, PermitsConserved
      <4> QED
        BY <3>5, <3>6, <4>1, <4>2, HoldersAreFinite
    <3> QED
      BY <3>2, <3>3, <3>7, SameCount DEF Abstract!Enter
  <2>8. ASSUME NEW r \in Requests, HandlerFinishes(r) \/ DeadlinePasses(r)
        PROVE  UNCHANGED Phase
    BY <2>8 DEF HandlerFinishes, DeadlinePasses, Phase
  <2>9. ASSUME NEW r \in Requests, BodyEnds(r)
        PROVE  UNCHANGED Phase
    BY <2>1, <2>9 DEF BodyEnds, Phase
  <2>10. ASSUME NEW r \in Requests, Cancel(r)
         PROVE  Abstract!Leave(r) \/ Abstract!TurnAway(r) \/ UNCHANGED Phase
    <3>1. CASE state[r] \in {"called", "body"} /\ state' = [state EXCEPT ![r] = "dropped"]
      <4>1. Phase'[r] = "left" /\ \A q \in Requests \ {r} : state'[q] = state[q]
        BY <2>1, <3>1 DEF Phase
      <4>2. Phase' = [Phase EXCEPT ![r] = "left"]
        BY <2>1, <2>2, <4>1, PhaseMoves
      <4> QED
        BY <3>1, <4>2 DEF Abstract!TurnAway, Phase
    <3> QED
      BY <2>4, <2>5, <2>10, <3>1 DEF Cancel, Over
  <2>11. ASSUME NEW r \in Requests, Respond(r) \/ TimeOut(r)
         PROVE  Abstract!Leave(r) \/ Abstract!TurnAway(r)
    BY <2>4, <2>5, <2>11 DEF Respond, TimeOut, Over
  <2>12. UNCHANGED vars => UNCHANGED Phase
    BY DEF vars, Phase
  <2> QED
    BY <2>3, <2>6, <2>7, <2>8, <2>9, <2>10, <2>11, <2>12 DEF Next, Task, Abstract!Next
<1> QED
  BY <1>1, <1>2, Invariance, PTL DEF Spec, ImplementsAdmissionControl, Abstract!Spec

=============================================================================
