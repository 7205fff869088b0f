-------------------------- MODULE RateLimitProofs --------------------------
(***************************************************************************)
(* Proofs about RateLimit, for every number of requests, every rate, every *)
(* length of the window and every bound of the clock.                      *)
(***************************************************************************)
EXTENDS RateLimit, SequenceTheorems, FiniteSetTheorems, TLAPS

-----------------------------------------------------------------------------
InWindow(f) == {s \in served : s.from = f}
Counted == IF count <= Quota THEN count ELSE Quota
Critical == {"expired", "current"}

(* The mutex: whoever is past it is the first in its queue, and a window   *)
(* found expired still is when it is reset.                                *)
MutexInv ==
    \A r \in Requests :
        /\ state[r] \in Critical => lock # << >> /\ lock[1] = r
        /\ state[r] = "expired" => Elapsed

(* Windows start at least Window apart, and a request is let through at a  *)
(* time between the start of its window and that of the next.              *)
WindowsApart ==
    /\ \A s \in served : /\ s.from <= s.at /\ s.from <= start /\ s.at <= now
                         /\ s.from < start => s.at <= start /\ s.from + Window <= start
    /\ \A s, u \in served : s.from < u.from => s.at <= u.from /\ s.from + Window <= u.from

(* A window lets through as many requests as it has counted, up to the     *)
(* quota; all of them together no more than the windows before this one    *)
(* may have let through.                                                   *)
CountInv ==
    /\ \A s \in served : state[s.who] = "admitted"
    /\ IsFiniteSet(served)
    /\ \A f \in 0..now : Cardinality(InWindow(f)) <= Quota
    /\ Cardinality(InWindow(start)) = Counted
    /\ Cardinality(served) <= Quota * (start \div Window) + Counted

IInv == TypeOK /\ MutexInv /\ WindowsApart /\ CountInv

-----------------------------------------------------------------------------
(* Arithmetic of windows: a time at least one window later lies in a later *)
(* window, and a later time never in an earlier one.                       *)
LEMMA Product ==
    ASSUME NEW a \in Nat, NEW b \in Nat, NEW w \in Nat, a <= b
    PROVE  w * a \in Nat /\ w * b \in Nat /\ w * a <= w * b
OBVIOUS

(* A whole window later the number of the window is higher.                 *)
LEMMA LaterWindow ==
    ASSUME NEW a \in Nat, NEW b \in Nat, NEW w \in Nat \ {0}
    PROVE  /\ a \div w \in Nat
           /\ a <= b => a \div w <= b \div w
           /\ a + w <= b => a \div w + 1 <= b \div w
OBVIOUS

(* A configured rate admits at least one request a window.                  *)
LEMMA QuotaIsPositive ==
    ASSUME rps \in Rates
    PROVE  Quota \in Nat \ {0}
BY RateAssumption DEF Quota

-----------------------------------------------------------------------------
(* The limiter starts with an empty window and a free lock.                 *)
LEMMA InvInit == Init => IInv
<1> SUFFICES ASSUME Init PROVE IInv
  OBVIOUS
<1> USE RateAssumption DEF Init
<1>1. Quota \in Nat \ {0}
  BY QuotaIsPositive
<1>2. TypeOK
  BY DEF TypeOK
<1>3. MutexInv /\ WindowsApart
  BY DEF MutexInv, WindowsApart, Critical
<1>4. \A f : InWindow(f) = {}
  BY DEF InWindow
<1>5. start \div Window \in Nat /\ Quota * (start \div Window) \in Nat
  BY <1>1, LaterWindow, Product
<1>6. Cardinality(served) = 0 /\ Counted = 0 /\ Cardinality({}) = 0 /\ IsFiniteSet(served)
  BY <1>1, FS_EmptySet DEF Counted
<1>7. CountInv
  <2>1. \A f : Cardinality(InWindow(f)) = 0
    BY <1>4, <1>6
  <2>2. Cardinality(served) <= Quota * (start \div Window) + Counted
    BY <1>5, <1>6
  <2>3. \A f \in 0..now : Cardinality(InWindow(f)) <= Quota
    BY <1>1, <2>1
  <2> QED
    BY <1>6, <2>1, <2>2, <2>3 DEF CountInv
<1> QED
  BY <1>2, <1>3, <1>7 DEF IInv

(* Steps by which no time passes and no window changes, and nobody is let  *)
(* through: the counts stay, when only a request not let through moves.    *)
LEMMA CountsStay ==
    ASSUME TypeOK, CountInv, UNCHANGED <<rps, now, start, count, served>>,
           NEW r \in Requests, NEW s, state[r] # "admitted", Move(r, s)
    PROVE  CountInv'
<1>1. \A u \in served : u.who \in Requests /\ u.who # r
  BY DEF TypeOK, CountInv
<1>2. \A u \in served : state'[u.who] = "admitted"
  BY <1>1 DEF TypeOK, CountInv, Move
<1>3. /\ \A f : InWindow(f)' = InWindow(f)
      /\ Quota' = Quota /\ Counted' = Counted
  BY DEF InWindow, Quota, Counted
<1>4. Cardinality(InWindow(start))' = Cardinality(InWindow(start))
  BY <1>3 DEF InWindow
<1> QED
  BY <1>2, <1>3, <1>4 DEF CountInv

(* Only one request at a time is past the mutex.                           *)
LEMMA Alone ==
    ASSUME MutexInv, NEW r \in Requests, NEW q \in Requests,
           state[r] \in Critical, state[q] \in Critical
    PROVE  r = q
BY DEF MutexInv

(* Time passing keeps the invariant.                                        *)
LEMMA TickKeepsInv ==
    ASSUME IInv, Tick
    PROVE  IInv'
<1> USE RateAssumption DEF IInv
<1>1. /\ now' = now + 1 /\ now \in Nat /\ start \in 0..now /\ UNCHANGED <<rps, start, count, lock, state, served>>
  BY DEF Tick, TypeOK
<1>2. TypeOK'
  BY <1>1 DEF Tick, TypeOK
<1>3. MutexInv'
  BY <1>1 DEF MutexInv, Elapsed, Critical
<1>4. WindowsApart'
  BY <1>1 DEF WindowsApart, TypeOK
<1>5. CountInv'
  <2>1. /\ \A f : InWindow(f)' = InWindow(f)
        /\ Quota' = Quota /\ Counted' = Counted
    BY <1>1 DEF InWindow, Quota, Counted
  <2>2. InWindow(now + 1) = {}
    BY <1>1 DEF InWindow, TypeOK
  <2>3. \A f \in 0..now' : Cardinality(InWindow(f)) <= Quota
    <3>1. Cardinality(InWindow(now + 1)) <= Quota
      <4>1. Quota \in Nat
        BY QuotaIsPositive DEF TypeOK
      <4>2. Cardinality(InWindow(now + 1)) = 0
        BY <2>2, FS_EmptySet
      <4> QED
        BY <4>1, <4>2
    <3>2. \A f \in 0..now : Cardinality(InWindow(f)) <= Quota
      BY DEF CountInv
    <3> TAKE f \in 0..now'
    <3>3. f \in 0..now \/ f = now + 1
      BY <1>1
    <3> QED
      BY <3>1, <3>2, <3>3
  <2>4. Cardinality(InWindow(start))' = Cardinality(InWindow(start))
    BY <1>1 DEF InWindow
  <2> QED
    BY <1>1, <2>1, <2>3, <2>4 DEF CountInv
<1> QED
  BY <1>2, <1>3, <1>4, <1>5

(* Queueing for the lock keeps the invariant.                               *)
LEMMA WaitKeepsInv ==
    ASSUME IInv, NEW r \in Requests, Wait(r)
    PROVE  IInv'
<1> USE DEF IInv, Wait
<1>1. lock \in Seq(Requests)
  BY DEF TypeOK
<1>2. TypeOK'
  BY <1>1, AppendProperties DEF TypeOK, Move
<1>3. MutexInv'
  <2>1. lock # << >> => lock' # << >> /\ lock'[1] = lock[1]
    BY <1>1, AppendProperties, EmptySeq, LenProperties
  <2>2. \A q \in Requests : state'[q] \in Critical => state'[q] = state[q]
    BY DEF Move, TypeOK, Critical
  <2> QED
    BY <2>1, <2>2 DEF MutexInv, Elapsed, Critical
<1>4. WindowsApart'
  BY DEF WindowsApart
<1>5. CountInv'
  BY CountsStay
<1> QED
  BY <1>2, <1>3, <1>4, <1>5

(* The check under the lock keeps the invariant.                            *)
LEMMA CheckKeepsInv ==
    ASSUME IInv, NEW r \in Requests, Check(r)
    PROVE  IInv'
<1> USE DEF IInv, Check
<1>1. TypeOK'
  BY DEF TypeOK, Move, Settled
<1>2. MutexInv'
  <2>1. lock # << >> /\ lock[1] = r /\ state[r] = "waiting"
    BY DEF Holds
  <2>2. \A q \in Requests \ {r} : state'[q] = state[q] /\ state[q] \notin Critical
    BY <2>1 DEF Move, TypeOK, MutexInv
  <2>3. state'[r] = "expired" => Elapsed
    BY DEF Move, TypeOK
  <2> QED
    BY <2>1, <2>2, <2>3 DEF MutexInv, Elapsed, Critical
<1>3. WindowsApart'
  BY DEF WindowsApart
<1>4. CountInv'
  BY CountsStay
<1> QED
  BY <1>1, <1>2, <1>3, <1>4

(* A caller that goes away keeps the invariant, in the queue or not.        *)
LEMMA CancelKeepsInv ==
    ASSUME IInv, NEW r \in Requests, Cancel(r)
    PROVE  IInv'
<1> USE DEF IInv
<1>1. lock \in Seq(Requests) /\ Len(lock) \in Nat /\ \A i \in 1..Len(lock) : lock[i] \in Requests
  BY DEF TypeOK
<1>2. PICK k \in 1..Len(lock) :
         lock[k] = r /\ lock' = SubSeq(lock, 1, k - 1) \o SubSeq(lock, k + 1, Len(lock))
  BY DEF Cancel
<1>3. PICK a : a = SubSeq(lock, 1, k - 1)
  OBVIOUS
<1>4. PICK b : b = SubSeq(lock, k + 1, Len(lock))
  OBVIOUS
<1>5. a \in Seq(Requests) /\ Len(a) = k - 1 /\ \A i \in 1..(k - 1) : a[i] = lock[i]
  BY <1>1, <1>3, SubSeqProperties
<1>6. b \in Seq(Requests)
  BY <1>1, <1>4, SubSeqProperties
<1>7. lock' = a \o b
  BY <1>2, <1>3, <1>4
<1>8. lock' \in Seq(Requests) /\ (k # 1 => lock' # << >> /\ lock'[1] = lock[1])
  <2>1. a \o b \in Seq(Requests) /\ Len(a \o b) = Len(a) + Len(b)
    BY <1>5, <1>6, ConcatProperties
  <2>2. k # 1 => 1 \in 1..(Len(a) + Len(b)) /\ 1 <= Len(a) /\ a[1] = lock[1]
    BY <1>5, <1>6, LenProperties
  <2>3. k # 1 => (a \o b)[1] = a[1] /\ Len(a \o b) # 0
    BY <1>5, <1>6, <2>1, <2>2, ConcatProperties, LenProperties
  <2> QED
    BY <1>7, <2>1, <2>2, <2>3, EmptySeq
<1>9. TypeOK'
  BY <1>8 DEF Cancel, TypeOK, Move, Settled
<1>10. MutexInv'
  <2> SUFFICES ASSUME NEW q \in Requests, state'[q] \in Critical
               PROVE  /\ lock' # << >> /\ lock'[1] = q
                      /\ state'[q] = "expired" => Elapsed'
    BY DEF MutexInv, Critical
  <2>1. q # r /\ state'[q] = state[q]
    BY DEF Cancel, Move, TypeOK, Critical
  <2>2. lock[1] = q /\ (state[q] = "expired" => Elapsed)
    BY <2>1 DEF MutexInv
  <2>3. k # 1
    BY <1>2, <2>1, <2>2
  <2> QED
    BY <1>8, <2>1, <2>2, <2>3 DEF Cancel, Elapsed
<1>11. WindowsApart'
  BY DEF Cancel, WindowsApart
<1>12. CountInv'
  BY CountsStay DEF Cancel
<1> QED
  BY <1>9, <1>10, <1>11, <1>12

(* Reset starts a window nothing has been let through in yet, at least     *)
(* Window after the one before.                                            *)
LEMMA ResetKeepsInv ==
    ASSUME IInv, NEW r \in Requests, Reset(r)
    PROVE  IInv'
<1> USE RateAssumption DEF IInv
<1>1. /\ now \in Nat /\ start \in Nat /\ count \in Nat /\ Quota \in Nat \ {0}
      /\ start' = now /\ count' = 0 /\ UNCHANGED <<rps, now, lock, served>>
      /\ state[r] = "expired" /\ state' = [state EXCEPT ![r] = "current"]
  BY QuotaIsPositive DEF Reset, Move, TypeOK
<1>2. start + Window <= now
  BY <1>1 DEF MutexInv, Elapsed
<1>3. TypeOK'
  BY <1>1 DEF TypeOK
<1>4. MutexInv'
  <2>1. \A q \in Requests \ {r} : state'[q] = state[q] /\ state[q] \notin Critical
    BY <1>1, Alone DEF Critical, TypeOK
  <2> QED
    BY <1>1, <2>1 DEF MutexInv, Critical, TypeOK
<1>5. WindowsApart'
  BY <1>1, <1>2 DEF WindowsApart, TypeOK
<1>6. CountInv'
  <2>1. /\ \A f : InWindow(f)' = InWindow(f)
        /\ Quota' = Quota /\ Counted' = 0
    BY <1>1 DEF InWindow, Quota, Counted
  <2>2. InWindow(start)' = {}
    BY <1>1, <1>2 DEF InWindow, WindowsApart, TypeOK
  <2>3. \A s \in served : state'[s.who] = "admitted"
    BY <1>1 DEF CountInv, TypeOK
  <2>4. Cardinality(served') <= Quota' * (start' \div Window) + Counted'
    <3> DEFINE a == start \div Window
               b == now \div Window
    <3>1. a \in Nat /\ b \in Nat /\ a + 1 <= b
      BY <1>1, <1>2, LaterWindow
    <3>2. Counted <= Quota /\ Counted \in Nat /\ Cardinality(served) \in Nat
      BY <1>1, FS_CardinalityType DEF Counted, CountInv
    <3>3. Cardinality(served) <= Quota * a + Counted
      BY DEF CountInv
    <3> HIDE DEF a, b
    <3>4. Quota * (a + 1) = Quota * a + Quota /\ Quota * a \in Nat
      BY <1>1, <3>1
    <3>5. Quota * (a + 1) <= Quota * b /\ Quota * b \in Nat
      BY <1>1, <3>1, Product
    <3>6. Cardinality(served) <= Quota * b
      BY <1>1, <3>2, <3>3, <3>4, <3>5
    <3> QED
      BY <1>1, <2>1, <3>5, <3>6 DEF b
  <2> QED
    BY <1>1, <2>1, <2>2, <2>3, <2>4, FS_EmptySet DEF CountInv
<1> QED
  BY <1>3, <1>4, <1>5, <1>6

(* Count lets a request through while its window has counted less than the *)
(* quota; only then does the number let through in it grow.                *)
LEMMA CountKeepsInv ==
    ASSUME IInv, NEW r \in Requests, Count(r)
    PROVE  IInv'
<1> USE RateAssumption DEF IInv
<1> DEFINE s == [who |-> r, at |-> now, from |-> start]
<1>1. /\ now \in Nat /\ start \in 0..now /\ count \in Nat /\ Quota \in Nat \ {0}
      /\ state[r] = "current" /\ count' = count + 1 /\ UNCHANGED <<rps, now, start>>
      /\ lock # << >> /\ lock' = Tail(lock)
  BY QuotaIsPositive DEF Count, TypeOK, MutexInv, Critical
<1>2. lock' \in Seq(Requests)
  BY <1>1, HeadTailProperties DEF TypeOK
<1>3. /\ Quota' = Quota
      /\ Counted' = IF count + 1 <= Quota THEN Counted + 1 ELSE Counted
  <2>1. Quota' = Quota
    BY <1>1 DEF Quota
  <2>2. Counted' = IF count + 1 <= Quota THEN count + 1 ELSE Quota
    BY <1>1, <2>1 DEF Counted
  <2> QED
    BY <1>1, <2>1, <2>2 DEF Counted
<1>4. MutexInv'
  <2>1. \A q \in Requests : state'[q] \notin Critical
    BY <1>1, Alone DEF Count, Move, TypeOK, Critical
  <2> QED
    BY <2>1 DEF MutexInv, Critical
<1>5. CASE count + 1 <= Quota
  <2>1. state' = [state EXCEPT ![r] = "admitted"] /\ served' = served \cup {s}
    BY <1>1, <1>5 DEF Count, Move
  <2>2. TypeOK'
    BY <1>1, <1>2, <2>1 DEF TypeOK, Settled
  <2>3. WindowsApart'
    BY <1>1, <2>1 DEF WindowsApart, TypeOK
  <2>4. s \notin served /\ s \notin InWindow(start)
    BY <1>1 DEF CountInv, TypeOK, InWindow
  <2>5. /\ IsFiniteSet(served') /\ Cardinality(served') = Cardinality(served) + 1
    BY <2>1, <2>4, FS_AddElement DEF CountInv
  <2>6. InWindow(start)' = InWindow(start) \cup {s}
    BY <1>1, <2>1 DEF InWindow
  <2>7. IsFiniteSet(InWindow(start))
    <3>1. InWindow(start) \in SUBSET served
      BY DEF InWindow
    <3> QED
      BY <3>1, FS_Subset DEF CountInv
  <2>8. Cardinality(InWindow(start)') = Counted + 1
    BY <2>4, <2>6, <2>7, FS_AddElement DEF CountInv
  <2>9. \A f \in 0..now : f # start => InWindow(f)' = InWindow(f)
    BY <1>1, <2>1 DEF InWindow
  <2>10. \A u \in served' : state'[u.who] = "admitted"
    BY <1>1, <2>1 DEF CountInv, TypeOK
  <2>11. \A f \in 0..now : Cardinality(InWindow(f)') <= Quota
    BY <1>1, <1>3, <1>5, <2>8, <2>9 DEF CountInv, Counted
  <2>12. Cardinality(served') <= Quota * (start \div Window) + (Counted + 1)
    <3>1. Cardinality(served) \in Nat /\ Counted \in Nat
      BY <1>1, FS_CardinalityType DEF CountInv, Counted
    <3>2. Quota * (start \div Window) \in Nat
      BY <1>1, LaterWindow, Product
    <3> QED
      BY <2>5, <3>1, <3>2 DEF CountInv
  <2>13. CountInv'
    BY <1>1, <1>3, <1>5, <2>5, <2>8, <2>10, <2>11, <2>12 DEF CountInv
  <2> QED
    BY <1>4, <2>2, <2>3, <2>13
<1>6. CASE ~(count + 1 <= Quota)
  <2>1. Move(r, "refused") /\ UNCHANGED served
    BY <1>1, <1>6 DEF Count
  <2>2. TypeOK'
    BY <1>1, <1>2, <2>1 DEF TypeOK, Move, Settled
  <2>3. WindowsApart'
    BY <1>1, <2>1 DEF WindowsApart
  <2>4. /\ \A f : InWindow(f)' = InWindow(f)
        /\ InWindow(start)' = InWindow(start) /\ Counted' = Counted
    BY <1>1, <1>3, <1>6, <2>1 DEF InWindow
  <2>5. \A u \in served' : state'[u.who] = "admitted"
    BY <1>1, <2>1 DEF CountInv, TypeOK, Move
  <2>6. CountInv'
    BY <1>1, <1>3, <2>1, <2>4, <2>5 DEF CountInv
  <2> QED
    BY <1>4, <2>2, <2>3, <2>6
<1> QED
  BY <1>5, <1>6

(* The limiter's invariant holds in every state.                            *)
LEMMA Invariance == Spec => []IInv
<1>1. IInv /\ [Next]_vars => IInv'
  <2> SUFFICES ASSUME IInv, [Next]_vars PROVE IInv'
    OBVIOUS
  <2>1. CASE UNCHANGED vars
    BY <2>1 DEF vars, IInv, TypeOK, MutexInv, Elapsed, WindowsApart, CountInv, InWindow,
                Counted, Quota
  <2> QED
    BY <2>1, TickKeepsInv, WaitKeepsInv, CheckKeepsInv, CancelKeepsInv, ResetKeepsInv,
       CountKeepsInv DEF Next, Task
<1> QED
  BY <1>1, InvInit, PTL DEF Spec

(* Type correctness.                                                       *)
THEOREM TypeCorrect == Spec => []TypeOK
<1>1. IInv => TypeOK
  BY DEF IInv
<1> QED
  BY <1>1, Invariance, PTL

-----------------------------------------------------------------------------
(* A request is refused only when its window let in exactly as many as it  *)
(* may, and at least one.                                                  *)
THEOREM RefusesOnlyWhenFull == Spec => RefusedOnlyWhenFull
<1> DEFINE A == \A r \in Requests :
                  state[r] # "refused" /\ state'[r] = "refused" =>
                      LET admitted == {s \in served : s.from = start}
                      IN  admitted # {} /\ Cardinality(admitted) = Quota
<1>1. ASSUME IInv, Next PROVE A
  <2> SUFFICES ASSUME NEW q \in Requests, state[q] # "refused", state'[q] = "refused"
               PROVE  InWindow(start) # {} /\ Cardinality(InWindow(start)) = Quota
    BY DEF InWindow
  <2>1. /\ state \in [Requests -> {"new", "waiting", "expired", "current"} \cup Settled]
        /\ Quota \in Nat \ {0} /\ count \in Nat
    BY <1>1, QuotaIsPositive DEF IInv, TypeOK
  <2>2. PICK r \in Requests : Count(r)
    BY <1>1, <2>1 DEF Next, Task, Tick, Wait, Check, Reset, Cancel, Move
  <2>3. ~(count + 1 <= Quota)
    BY <2>1, <2>2 DEF Count, Move
  <2>4. Cardinality(InWindow(start)) = Quota
    BY <1>1, <2>1, <2>3 DEF IInv, CountInv, Counted
  <2>5. InWindow(start) # {}
    BY <2>1, <2>4, FS_EmptySet
  <2> QED
    BY <2>4, <2>5
<1>2. IInv /\ [Next]_vars => [A]_vars
  BY <1>1
<1> QED
  BY <1>2, Invariance, PTL DEF Spec, RefusedOnlyWhenFull

(* Over any stretch of time from the start, no more requests are let in    *)
(* than the quota for each window it touches.                              *)
THEOREM KeepsLongRunRate == Spec => []LongRunRate
<1>1. ASSUME IInv PROVE LongRunRate
  <2> USE RateAssumption
  <2> DEFINE a == start \div Window
             b == now \div Window
  <2>1. now \in Nat /\ start \in Nat /\ start <= now /\ Quota \in Nat \ {0} /\ count \in Nat
    BY <1>1, QuotaIsPositive DEF IInv, TypeOK
  <2>2. a \in Nat /\ b \in Nat /\ a <= b
    BY <2>1, LaterWindow
  <2>3. Cardinality(served) \in Nat /\ Counted \in Nat /\ Counted <= Quota
    BY <1>1, <2>1, FS_CardinalityType DEF IInv, CountInv, Counted
  <2>4. Cardinality(served) <= Quota * a + Counted
    BY <1>1 DEF IInv, CountInv
  <2> HIDE DEF a, b
  <2>5. Quota * (b + 1) = Quota * b + Quota
    BY <2>1, <2>2
  <2>6. Quota * a <= Quota * b /\ Quota * a \in Nat /\ Quota * b \in Nat
    BY <2>1, <2>2, Product
  <2>7. Cardinality(served) <= Quota * (b + 1)
    BY <2>1, <2>3, <2>4, <2>5, <2>6
  <2> QED
    BY <2>7 DEF LongRunRate, b
<1> QED
  BY <1>1, Invariance, PTL

(* No span of one second holds requests of three windows: the one between  *)
(* would have to start and end within it.                                  *)
LEMMA NoThreeWindows ==
    ASSUME IInv, NEW t \in 0..now,
           NEW x \in ServedIn(t, t + Window - 1), NEW y \in ServedIn(t, t + Window - 1),
           NEW z \in ServedIn(t, t + Window - 1), x.from < y.from, y.from < z.from
    PROVE  FALSE
<1>1. /\ x \in served /\ y \in served /\ z \in served
      /\ t <= x.at /\ z.at <= t + Window - 1
  BY DEF ServedIn
<1>2. x.at \in Nat /\ y.from \in Nat /\ z.from \in Nat /\ z.at \in Nat /\ now \in Nat
  BY <1>1 DEF IInv, TypeOK
<1>3. x.at <= y.from /\ y.from + Window <= z.from /\ z.from <= z.at
  BY <1>1 DEF IInv, WindowsApart
<1> QED
  BY <1>1, <1>2, <1>3, RateAssumption

(* However the requests are spread, and however late the code reads the    *)
(* clock, no span of one second lets in more than twice the quota.         *)
THEOREM AtMostTwiceTheRate == Spec => []TwiceTheRateAtMost
<1>1. ASSUME IInv PROVE TwiceTheRateAtMost
  <2> SUFFICES ASSUME NEW t \in 0..now
               PROVE  Cardinality(ServedIn(t, t + Window - 1)) <= 2 * Quota
    BY DEF TwiceTheRateAtMost
  <2> DEFINE X == ServedIn(t, t + Window - 1)
  <2>1. /\ Quota \in Nat \ {0} /\ IsFiniteSet(served) /\ now \in Nat
        /\ X \in SUBSET served /\ IsFiniteSet(X)
    BY <1>1, QuotaIsPositive, FS_Subset DEF IInv, TypeOK, CountInv, ServedIn
  <2>2. \A x \in X : x.from \in 0..now
    BY <1>1, <2>1 DEF IInv, TypeOK
  <2>3. \A x, y, z \in X : ~(x.from < y.from /\ y.from < z.from)
    BY <1>1, NoThreeWindows
  <2>4. CASE X = {}
    BY <2>1, <2>4, FS_EmptySet
  <2>5. CASE X # {}
    <3> HIDE DEF X
    <3>1. \E f, g \in 0..now : \A x \in X : x.from \in {f, g}
      <4>1. PICK x \in X : TRUE
        BY <2>5
      <4>2. PICK y \in X : y.from = x.from => \A z \in X : z.from = x.from
        BY <4>1
      <4>3. ASSUME NEW z \in X
            PROVE  z.from \in {x.from, y.from}
        BY <2>2, <2>3, <4>2
      <4> QED
        BY <2>2, <4>3
    <3>2. PICK f \in 0..now, g \in 0..now : \A x \in X : x.from \in {f, g}
      BY <3>1
    <3>3. /\ InWindow(f) \in SUBSET served /\ InWindow(g) \in SUBSET served
          /\ X \in SUBSET (InWindow(f) \cup InWindow(g))
      BY <2>1, <3>2 DEF InWindow
    <3>4. /\ IsFiniteSet(InWindow(f)) /\ IsFiniteSet(InWindow(g))
          /\ Cardinality(InWindow(f)) \in Nat /\ Cardinality(InWindow(g)) \in Nat
      BY <2>1, <3>3, FS_Subset, FS_CardinalityType
    <3>5. /\ IsFiniteSet(InWindow(f) \cup InWindow(g))
          /\ Cardinality(InWindow(f) \cup InWindow(g)) <= Cardinality(InWindow(f)) + Cardinality(InWindow(g))
      <4>1. IsFiniteSet(InWindow(f) \cap InWindow(g))
        BY <3>4, FS_Intersection
      <4>2. Cardinality(InWindow(f) \cap InWindow(g)) \in Nat
        BY <4>1, FS_CardinalityType
      <4> QED
        BY <3>4, <4>2, FS_Union
    <3>6. Cardinality(X) <= Cardinality(InWindow(f) \cup InWindow(g)) /\ Cardinality(X) \in Nat
      BY <2>1, <3>3, <3>5, FS_Subset, FS_CardinalityType
    <3>7. Cardinality(InWindow(f)) <= Quota /\ Cardinality(InWindow(g)) <= Quota
      BY <1>1 DEF IInv, CountInv
    <3>8. Cardinality(InWindow(f) \cup InWindow(g)) \in Nat
      BY <3>5, FS_CardinalityType
    <3> QED
      BY <2>1, <3>4, <3>5, <3>6, <3>7, <3>8 DEF X
  <2> QED
    BY <2>4, <2>5
<1> QED
  BY <1>1, Invariance, PTL

=============================================================================
