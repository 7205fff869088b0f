------------------------ MODULE ServerPipelineProofs ------------------------
(***************************************************************************)
(* Proofs for ServerPipeline: the layout of a stream of messages, the bit  *)
(* length the window sizes are computed from, and from the inductive       *)
(* invariant PipelineInv every safety property the run checks.             *)
(***************************************************************************)
EXTENDS ServerPipeline, WellFoundedInduction, TLAPS

-----------------------------------------------------------------------------
(* Arithmetic of the stream's layout and of the codec's windows.           *)

(* Every non-empty set of naturals has a least element.                    *)
LEMMA LeastNatural ==
    ASSUME NEW T, T \subseteq Nat, T # {}
    PROVE  \E n \in T : \A m \in T : n <= m
<1> DEFINE R == {ss \in Nat \X Nat : ss[1] < ss[2]}
<1>1. IsWellFoundedOn(R, Nat)
  BY NatLessThanWellFounded DEF OpToRel
<1>2. \E n \in T : \A m \in T : <<m, n>> \notin R
  <2> HIDE DEF R
  <2> QED
    BY <1>1, WFMin
<1>3. PICK n \in T : \A m \in T : <<m, n>> \notin R
  BY <1>2
<1>4. ASSUME NEW m \in T PROVE n <= m
  <2>1. m \in Nat /\ n \in Nat /\ <<m, n>> \notin R
    BY <1>3
  <2>2. ~(m < n)
    BY <2>1
  <2> QED
    BY <2>1, <2>2
<1> QED
  BY <1>3, <1>4

(* The offsets at which frames of given lengths start exist as a function. *)
LEMMA OffsetsExist ==
    ASSUME NEW n \in Nat, NEW step, \A k \in 1..n : step[k] \in Nat
    PROVE  \E f : /\ f = [k \in 1..(n + 1) |->
                              IF k = 1 THEN 0 ELSE f[k - 1] + step[k - 1]]
                  /\ \A k \in 1..(n + 1) : f[k] \in Nat
<1> DEFINE Good(m, f) ==
             /\ f \in [1..(m + 1) -> Nat]
             /\ f[1] = 0
             /\ \A k \in 1..m : f[k + 1] = f[k] + step[k]
           T == {m \in 0..n : ~ \E f : Good(m, f)}
<1>1. T = {}
  <2>1. SUFFICES ASSUME T # {} PROVE FALSE
    OBVIOUS
  <2>2. PICK m \in T : \A j \in T : m <= j
    <3>1. T \subseteq Nat
      OBVIOUS
    <3> HIDE DEF T
    <3> QED
      BY <2>1, <3>1, LeastNatural
  <2>3. m # 0
    <3>1. Good(0, [k \in 1..1 |-> 0])
      OBVIOUS
    <3>2. 0 \notin T
      BY <3>1
    <3> QED
      BY <3>2, <2>2
  <2>4. m - 1 \in 0..n /\ m - 1 \notin T
    <3>1. m \in 0..n /\ \A j \in T : m <= j
      BY <2>2
    <3> HIDE DEF T
    <3> QED
      BY <3>1, <2>3
  <2>5. PICK f : Good(m - 1, f)
    <3> HIDE DEF Good
    <3> QED
      BY <2>4
  <2> DEFINE g == [k \in 1..(m + 1) |-> IF k = m + 1 THEN f[m] + step[m] ELSE f[k]]
  <2>6. m \in 1..n /\ (m - 1) + 1 = m
    BY <2>2, <2>3
  <2>7. f \in [1..m -> Nat] /\ f[1] = 0
          /\ \A k \in 1..(m - 1) : f[k + 1] = f[k] + step[k]
    BY <2>5, <2>6
  <2>8. Good(m, g)
    BY <2>6, <2>7
  <2> QED
    BY <2>8, <2>2
<1>2. PICK f : Good(n, f)
  <2>1. n \notin T
    BY <1>1
  <2> QED
    BY <2>1
<1>3. \A k \in 1..(n + 1) : f[k] = IF k = 1 THEN 0 ELSE f[k - 1] + step[k - 1]
  <2> TAKE k \in 1..(n + 1)
  <2>1. CASE k = 1
    BY <2>1, <1>2
  <2>2. CASE k # 1
    <3>1. k - 1 \in 1..n /\ (k - 1) + 1 = k
      BY <2>2
    <3> QED
      BY <3>1, <2>2, <1>2
  <2> QED
    BY <2>1, <2>2
<1>4. f = [k \in 1..(n + 1) |-> IF k = 1 THEN 0 ELSE f[k - 1] + step[k - 1]]
  BY <1>2, <1>3
<1> QED
  BY <1>4, <1>2

(* The sender laid its messages down one after the other.                  *)
LEMMA Layout ==
    ASSUME msgs \in Seq(Message)
    PROVE  /\ Start(1) = 0
           /\ \A i \in 1..(Len(msgs) + 1) : Start(i) \in Nat
           /\ \A i \in 1..Len(msgs) :
                 /\ msgs[i] \in Message
                 /\ Start(i + 1) = Start(i) + HeaderLen + msgs[i].len
<1> DEFINE n == Len(msgs)
           step == [k \in 1..n |-> FrameLen(k)]
<1>1. n \in Nat /\ \A k \in 1..n : msgs[k] \in Message /\ step[k] \in Nat
                                     /\ step[k] = HeaderLen + msgs[k].len
  <2>1. n \in Nat /\ \A k \in 1..n : msgs[k] \in Message
    OBVIOUS
  <2>2. HeaderLen \in Nat
    BY SizesAssumption
  <2>3. \A k \in 1..n : step[k] = HeaderLen + msgs[k].len /\ msgs[k].len \in Nat
    BY <2>1 DEF Message, FrameLen
  <2> QED
    BY <2>1, <2>2, <2>3
<1>2. PICK f : /\ f = [k \in 1..(n + 1) |->
                          IF k = 1 THEN 0 ELSE f[k - 1] + step[k - 1]]
               /\ \A k \in 1..(n + 1) : f[k] \in Nat
  <2>1. n \in Nat /\ \A k \in 1..n : step[k] \in Nat
    BY <1>1
  <2> HIDE DEF step, n
  <2> QED
    BY <2>1, OffsetsExist
<1> DEFINE at == CHOOSE g : g = [k \in 1..(n + 1) |->
                          IF k = 1 THEN 0 ELSE g[k - 1] + FrameLen(k - 1)]
<1>3. f = [k \in 1..(n + 1) |-> IF k = 1 THEN 0 ELSE f[k - 1] + FrameLen(k - 1)]
  <2>1. \A k \in 1..(n + 1) :
           f[k] = IF k = 1 THEN 0 ELSE f[k - 1] + FrameLen(k - 1)
    <3> TAKE k \in 1..(n + 1)
    <3>1. f[k] = IF k = 1 THEN 0 ELSE f[k - 1] + step[k - 1]
      BY <1>2
    <3>2. CASE k # 1
      <4>1. k - 1 \in 1..n
        BY <3>2, <1>1
      <4>2. step[k - 1] = FrameLen(k - 1)
        BY <4>1
      <4> QED
        BY <3>1, <3>2, <4>2
    <3> QED
      BY <3>1, <3>2
  <2> QED
    BY <2>1, <1>2
<1>4. at = [k \in 1..(n + 1) |-> IF k = 1 THEN 0 ELSE at[k - 1] + FrameLen(k - 1)]
  BY <1>3
<1>5. \A i : Start(i) = at[i]
  BY DEF Start
<1>6. at[1] = 0
  <2> HIDE DEF at
  <2> QED
    BY <1>4, <1>1
<1>7. \A k \in 1..n : at[k + 1] = at[k] + FrameLen(k)
  <2> TAKE k \in 1..n
  <2>1. k + 1 \in 1..(n + 1) /\ k + 1 # 1 /\ (k + 1) - 1 = k
    BY <1>1
  <2> HIDE DEF at
  <2> QED
    BY <2>1, <1>4
<1>8. \A k \in 1..(n + 1) : at[k] \in Nat
  <2> DEFINE T == {k \in 1..(n + 1) : at[k] \notin Nat}
  <2>1. SUFFICES ASSUME T # {} PROVE FALSE
    OBVIOUS
  <2>2. PICK k \in T : \A j \in T : k <= j
    <3>1. T \subseteq Nat
      OBVIOUS
    <3> HIDE DEF T
    <3> QED
      BY <2>1, <3>1, LeastNatural
  <2>3. k # 1
    BY <1>6, <2>2
  <2>4. k - 1 \in 1..n /\ k - 1 \notin T /\ (k - 1) + 1 = k
    <3>1. k \in 1..(n + 1) /\ \A j \in T : k <= j
      BY <2>2
    <3> HIDE DEF T
    <3> QED
      BY <3>1, <2>3, <1>1
  <2>5. at[k] = at[k - 1] + FrameLen(k - 1)
    <3> HIDE DEF at, T
    <3> QED
      BY <2>4, <1>7
  <2>6. at[k - 1] \in Nat
    BY <2>4
  <2>7. FrameLen(k - 1) \in Nat
    BY <1>1, <2>4
  <2> HIDE DEF at
  <2>8. at[k] \notin Nat
    BY <2>2
  <2> QED
    BY <2>5, <2>6, <2>7, <2>8
<1> HIDE DEF at
<1>9. \A k \in 1..n : FrameLen(k) = HeaderLen + msgs[k].len
  BY DEF FrameLen
<1>10. HeaderLen \in Nat /\ \A k \in 1..n : msgs[k].len \in Nat
  BY <1>1, SizesAssumption DEF Message
<1>11. ASSUME NEW i \in 1..n
       PROVE  Start(i + 1) = Start(i) + HeaderLen + msgs[i].len
  <2>1. i \in 1..(n + 1) /\ at[i] \in Nat
    BY <1>1, <1>8
  <2>2. at[i + 1] = at[i] + (HeaderLen + msgs[i].len)
    BY <1>7, <1>9
  <2> QED
    BY <2>1, <2>2, <1>5, <1>10
<1> QED
  BY <1>1, <1>5, <1>6, <1>8, <1>11

(* A message starts behind the whole of every message before it.           *)
LEMMA LaterStarts ==
    ASSUME msgs \in Seq(Message)
    PROVE  \A i \in 1..Len(msgs), j \in 1..(Len(msgs) + 1) :
              i < j => Start(i + 1) <= Start(j)
<1> SUFFICES ASSUME NEW i \in 1..Len(msgs)
             PROVE  \A j \in 1..(Len(msgs) + 1) : i < j => Start(i + 1) <= Start(j)
  OBVIOUS
<1> DEFINE n == Len(msgs)
           T == {j \in 1..(n + 1) : i < j /\ ~(Start(i + 1) <= Start(j))}
<1>1. SUFFICES ASSUME T # {} PROVE FALSE
  OBVIOUS
<1>2. n \in Nat /\ HeaderLen \in Nat
  BY SizesAssumption
<1>3. PICK j \in T : \A k \in T : j <= k
  <2>1. T \subseteq Nat
    OBVIOUS
  <2> HIDE DEF T
  <2> QED
    BY <1>1, <2>1, LeastNatural
<1>4. j \in 1..(n + 1) /\ i < j /\ ~(Start(i + 1) <= Start(j)) /\ \A k \in T : j <= k
  BY <1>3
<1>5. Start(i + 1) \in Nat /\ Start(j) \in Nat
  BY <1>2, <1>4, Layout
<1>6. j # i + 1
  BY <1>4, <1>5
<1>7. j - 1 \in 1..n /\ i < j - 1 /\ j - 1 \in 1..(n + 1) /\ (j - 1) + 1 = j
  BY <1>2, <1>4, <1>6
<1>8. Start(i + 1) <= Start(j - 1)
  <2>1. j - 1 \notin T
    <3> HIDE DEF T
    <3> QED
      BY <1>4, <1>7
  <2> QED
    BY <2>1, <1>7
<1>9. /\ Start(j) = Start(j - 1) + HeaderLen + msgs[j - 1].len
      /\ Start(j - 1) \in Nat /\ msgs[j - 1] \in Message
  BY <1>7, Layout
<1>10. msgs[j - 1].len \in Nat
  BY <1>9 DEF Message
<1> QED
  BY <1>2, <1>4, <1>5, <1>8, <1>9, <1>10

(* The message at a position where one starts is that message.             *)
LEMMA StartsAt ==
    ASSUME msgs \in Seq(Message), NEW i \in 1..Len(msgs)
    PROVE  MessageAt(Start(i)) = i
<1>1. HeaderLen \in Nat \ {0}
  BY SizesAssumption
<1>2. /\ Start(i) \in Nat /\ msgs[i].len \in Nat
      /\ Start(i + 1) = Start(i) + HeaderLen + msgs[i].len
  BY Layout DEF Message
<1>3. Start(i) < Start(i + 1)
  BY <1>1, <1>2
<1>4. ASSUME NEW k \in 1..Len(msgs), Start(k) <= Start(i), Start(i) < Start(k + 1)
      PROVE  k = i
  <2>1. Start(k) \in Nat /\ Start(k + 1) \in Nat /\ Start(i + 1) \in Nat
    BY Layout
  <2>2. k < i => Start(k + 1) <= Start(i)
    BY LaterStarts
  <2>3. i < k => Start(i + 1) <= Start(k)
    BY LaterStarts
  <2> QED
    BY <2>1, <2>2, <2>3, <1>2, <1>3, <1>4
<1>5. MessageAt(Start(i)) \in 1..Len(msgs)
        /\ Start(MessageAt(Start(i))) <= Start(i)
        /\ Start(i) < Start(MessageAt(Start(i)) + 1)
  <2>1. i \in 1..Len(msgs) /\ Start(i) <= Start(i) /\ Start(i) < Start(i + 1)
    BY <1>2, <1>3
  <2> QED
    BY <2>1 DEF MessageAt
<1> QED
  BY <1>4, <1>5

(* Nothing moves while the peer's stream stays what it is.                 *)
LEMMA FixedStream ==
    ASSUME UNCHANGED peer
    PROVE  /\ \A i : Start(i)' = Start(i)
           /\ Total' = Total
           /\ \A m : TransformOne(m)' = TransformOne(m)
<1>1. msgs' = msgs /\ codec' = codec /\ direction' = direction
  BY DEF peer
<1>2. \A i : Start(i)' = Start(i)
  BY <1>1 DEF Start, FrameLen
<1>3. Total' = Total
  BY <1>1 DEF Total, Start, FrameLen
<1>4. \A m : TransformOne(m)' = TransformOne(m)
  BY <1>1 DEF TransformOne, DecompressBytes, MatchingFlag
<1> QED
  BY <1>2, <1>3, <1>4

(* The recursive definition of the bit length has a solution.              *)
LEMMA BitLenExists ==
    \E f : f = [n \in Nat |-> IF n = 0 THEN 0 ELSE 1 + f[n \div 2]]
<1> DEFINE Rec(f, k) == IF k = 0 THEN 0 ELSE 1 + f[k \div 2]
           Good(m, f) == /\ f \in [0..m -> Nat]
                         /\ \A k \in 0..m : f[k] = Rec(f, k)
<1>1. \A m \in Nat : \E f : Good(m, f)
  <2> DEFINE T == {m \in Nat : ~ \E f : Good(m, f)}
  <2>1. SUFFICES ASSUME T # {} PROVE FALSE
    OBVIOUS
  <2>2. PICK m \in T : \A j \in T : m <= j
    <3>1. T \subseteq Nat
      OBVIOUS
    <3> HIDE DEF T
    <3> QED
      BY <2>1, <3>1, LeastNatural
  <2>3. m # 0
    <3>1. Good(0, [k \in 0..0 |-> 0])
      OBVIOUS
    <3>2. 0 \notin T
      BY <3>1
    <3> QED
      BY <3>2, <2>2
  <2>4. m \in Nat /\ m - 1 \in Nat /\ m - 1 \notin T
    <3>1. m \in Nat /\ \A j \in T : m <= j
      BY <2>2
    <3> HIDE DEF T
    <3> QED
      BY <3>1, <2>3
  <2>5. PICK f : Good(m - 1, f)
    <3> HIDE DEF Good
    <3> QED
      BY <2>4
  <2> DEFINE g == [k \in 0..m |-> IF k = m THEN 1 + f[m \div 2] ELSE f[k]]
  <2>6. m \div 2 \in 0..(m - 1)
    BY <2>3, <2>4
  <2>7. g \in [0..m -> Nat]
    BY <2>4, <2>5, <2>6
  <2>8. ASSUME NEW k \in 0..m PROVE g[k] = Rec(g, k)
    <3>1. CASE k = m
      BY <3>1, <2>3, <2>4, <2>6
    <3>2. CASE k # m
      <4>1. k \in 0..(m - 1) /\ g[k] = f[k]
        BY <3>2, <2>4
      <4>2. f[k] = Rec(f, k)
        BY <4>1, <2>5
      <4>3. k # 0 => k \div 2 \in 0..(m - 1) /\ k \div 2 \in 0..m /\ k \div 2 # m
        BY <4>1, <2>4
      <4>4. k # 0 => g[k \div 2] = f[k \div 2]
        BY <4>3
      <4> HIDE DEF g
      <4> QED
        BY <4>1, <4>2, <4>4
    <3> QED
      BY <3>1, <3>2
  <2>9. Good(m, g)
    BY <2>7, <2>8
  <2>10. m \notin T
    BY <2>9
  <2> QED
    BY <2>10, <2>2
<1>2. ASSUME NEW a \in Nat, NEW b \in Nat, NEW f, NEW g, Good(a, f), Good(b, g)
      PROVE  \A k \in 0..a : k <= b => f[k] = g[k]
  <2> DEFINE T == {k \in 0..a : k <= b /\ f[k] # g[k]}
  <2>1. SUFFICES ASSUME T # {} PROVE FALSE
    OBVIOUS
  <2>2. PICK k \in T : \A j \in T : k <= j
    <3>1. T \subseteq Nat
      OBVIOUS
    <3> HIDE DEF T
    <3> QED
      BY <2>1, <3>1, LeastNatural
  <2>3. k \in 0..a /\ k \in 0..b /\ f[k] # g[k] /\ \A j \in T : k <= j
    BY <2>2
  <2>4. f[k] = Rec(f, k) /\ g[k] = Rec(g, k)
    BY <1>2, <2>3
  <2>5. k # 0
    BY <2>3, <2>4
  <2>6. k \div 2 \in 0..a /\ k \div 2 <= b /\ k \div 2 < k /\ k \div 2 \in Nat
    BY <2>3, <2>5
  <2>7. k \div 2 \notin T
    <3> HIDE DEF T
    <3> QED
      BY <2>3, <2>6
  <2>8. f[k \div 2] = g[k \div 2]
    BY <2>6, <2>7
  <2> QED
    BY <2>3, <2>4, <2>5, <2>8
<1> DEFINE F(n) == CHOOSE f : Good(n, f)
           G == [n \in Nat |-> F(n)[n]]
<1>3. \A n \in Nat : Good(n, F(n))
  <2> HIDE DEF Good
  <2> QED
    BY <1>1
<1>4. ASSUME NEW n \in Nat PROVE G[n] = Rec(G, n)
  <2>1. F(n)[n] = Rec(F(n), n)
    <3> HIDE DEF F
    <3>1. n \in 0..n /\ Good(n, F(n))
      BY <1>3
    <3> QED
      BY <3>1
  <2>2. CASE n # 0
    <3>1. n \div 2 \in 0..n /\ n \div 2 \in Nat /\ n \div 2 <= n \div 2
            /\ n \div 2 \in 0..(n \div 2)
      BY <2>2
    <3>2. F(n \div 2)[n \div 2] = F(n)[n \div 2]
      <4> HIDE DEF Good, F
      <4>1. Good(n, F(n)) /\ Good(n \div 2, F(n \div 2))
        BY <1>3, <3>1
      <4> QED
        BY <1>2, <4>1, <3>1
    <3>3. G[n \div 2] = F(n \div 2)[n \div 2]
      BY <3>1
    <3> HIDE DEF F
    <3> QED
      BY <2>1, <2>2, <3>2, <3>3
  <2>3. CASE n = 0
    <3> HIDE DEF F
    <3> QED
      BY <2>1, <2>3
  <2> QED
    BY <2>2, <2>3
<1>5. G = [n \in Nat |-> Rec(G, n)]
  <2>1. G = [n \in Nat |-> G[n]]
    OBVIOUS
  <2> HIDE DEF G, Rec
  <2> QED
    BY <1>4, <2>1
<1> QED
  BY <1>5

(* It is a number, and no smaller for a larger number.                     *)
LEMMA BitLenGrows ==
    /\ \A n \in Nat : BitLen[n] \in Nat
    /\ \A a, b \in Nat : a <= b => BitLen[a] <= BitLen[b]
<1>1. BitLen = [n \in Nat |-> IF n = 0 THEN 0 ELSE 1 + BitLen[n \div 2]]
  BY BitLenExists DEF BitLen
<1>2. BitLen[0] = 0 /\ \A n \in Nat \ {0} : BitLen[n] = 1 + BitLen[n \div 2]
  BY <1>1
<1>3. \A n \in Nat : BitLen[n] \in Nat
  <2> DEFINE T == {n \in Nat : BitLen[n] \notin Nat}
  <2>1. SUFFICES ASSUME T # {} PROVE FALSE
    OBVIOUS
  <2>2. PICK n \in T : \A j \in T : n <= j
    <3>1. T \subseteq Nat
      OBVIOUS
    <3> HIDE DEF T
    <3> QED
      BY <2>1, <3>1, LeastNatural
  <2>3. n \in Nat /\ BitLen[n] \notin Nat /\ \A j \in T : n <= j
    BY <2>2
  <2>4. n # 0
    BY <2>3, <1>2
  <2>5. n \div 2 \in Nat /\ n \div 2 < n
    BY <2>3, <2>4
  <2>6. n \div 2 \notin T
    <3> HIDE DEF T
    <3> QED
      BY <2>3, <2>5
  <2>7. BitLen[n \div 2] \in Nat
    BY <2>5, <2>6
  <2> QED
    BY <2>3, <2>4, <2>7, <1>2
<1>4. ASSUME NEW a \in Nat, NEW b \in Nat, a <= b PROVE BitLen[a] <= BitLen[b]
  <2> DEFINE Bad(n) == \E k \in 0..n : ~(BitLen[k] <= BitLen[n])
             T == {n \in Nat : Bad(n)}
  <2>1. SUFFICES ASSUME T # {} PROVE FALSE
    <3>1. ~Bad(b)
      BY <2>1
    <3> QED
      BY <3>1, <1>4
  <2>2. PICK n \in T : \A j \in T : n <= j
    <3>1. T \subseteq Nat
      OBVIOUS
    <3> HIDE DEF T
    <3> QED
      BY <2>1, <3>1, LeastNatural
  <2>3. n \in Nat /\ Bad(n) /\ \A j \in T : n <= j
    BY <2>2
  <2>4. PICK k \in 0..n : ~(BitLen[k] <= BitLen[n])
    BY <2>3
  <2>5. k # 0 /\ n # 0 /\ k \in Nat
    BY <2>3, <2>4, <1>2, <1>3
  <2>6. k \div 2 \in 0..(n \div 2) /\ k \div 2 \in Nat /\ n \div 2 \in Nat /\ n \div 2 < n
    BY <2>3, <2>4, <2>5
  <2>7. n \div 2 \notin T
    <3> HIDE DEF T
    <3> QED
      BY <2>3, <2>6
  <2>8. BitLen[k \div 2] <= BitLen[n \div 2]
    BY <2>6, <2>7
  <2>9. BitLen[k] = 1 + BitLen[k \div 2] /\ BitLen[n] = 1 + BitLen[n \div 2]
    BY <1>2, <2>3, <2>5
  <2>10. BitLen[k \div 2] \in Nat /\ BitLen[n \div 2] \in Nat
    BY <1>3, <2>6
  <2> QED
    BY <2>4, <2>8, <2>9, <2>10
<1> QED
  BY <1>3, <1>4

(* A window that fits a payload within the cap is one the decoder accepts. *)
LEMMA OwnWindowsFit ==
    ASSUME NEW out \in Nat, out <= Cap
    PROVE  WindowLogFor(out) <= WindowCeiling(Cap)
<1>1. Cap \in Nat /\ MinLog \in Nat /\ MaxLog \in Nat /\ LogHeadroom \in Nat
        /\ MinLog <= MaxLog
  BY SizesAssumption
<1> DEFINE a == IF out = 0 THEN 1 ELSE out
           b == IF Cap = 0 THEN 1 ELSE Cap
<1>2. a \in Nat /\ b \in Nat /\ a <= b
  BY <1>1
<1>3. BitLen[a] \in Nat /\ BitLen[b] \in Nat /\ BitLen[a] <= BitLen[b]
  <2> HIDE DEF a, b
  <2> QED
    BY <1>2, BitLenGrows
<1>4. WindowLogFor(out) = Clamp(BitLen[a]) /\ WindowLogFor(Cap) = Clamp(BitLen[b])
  BY DEF WindowLogFor
<1>5. /\ Clamp(BitLen[a]) \in Nat /\ Clamp(BitLen[b]) \in Nat
      /\ Clamp(BitLen[a]) <= Clamp(BitLen[b]) /\ Clamp(BitLen[a]) <= MaxLog
  <2> HIDE DEF a, b
  <2> QED
    BY <1>1, <1>3 DEF Clamp, Lesser
<1> QED
  BY <1>1, <1>4, <1>5 DEF WindowCeiling, Lesser

-----------------------------------------------------------------------------
(* The inductive invariant.                                                *)

PeerOK ==
    /\ msgs \in Seq(Message)
    /\ sent \in 0..Total
    /\ codec \in {"gzip", "zstd"}
    /\ direction \in {"compress", "decompress"}
    /\ limited => direction = "decompress"

(* Every message cut out had the outcome its own bytes give it, and one    *)
(* that failed was reported.                                               *)
Progress ==
    /\ CutAtBoundaries
    /\ Len(results) <= Len(msgs)
    /\ \A i \in 1..Len(results) :
          /\ results[i].outcome = TransformOne(msgs[i])
          /\ results[i].outcome \in {"ok"} \cup reported

Parked == pc = "pending" => NeedsMore

NotStarted ==
    ~called => /\ hi = 0 /\ ~innerDone
               /\ src \in {"open", "failed"} /\ (pc = "idle" => src = "open")
               /\ reported \subseteq {"oversize", "internal"}

(* The consumer has been told that the stream broke below the adapter.     *)
Broken == reported \cap {"error", "oversize"} # {}

(* The inner body ended only with all bytes delivered, or with an error    *)
(* the consumer was given; and with all bytes delivered, trailers and end  *)
(* are handed on only behind the last whole message.                       *)
Source ==
    /\ src \in {"trailers", "ended"} => hi = sent \/ Broken
    /\ src \in {"failed", "cut"} /\ called => Broken
    /\ innerDone => src = "ended"
    /\ ~Broken /\ reported \cap {"trailers", "end"} # {} => lo = sent

(* Nothing the limiter let through held the header of an oversized message.*)
WithinLimit ==
    limited /\ called => ~OversizeWithin(0, prefetched) /\ ~OversizeWithin(0, hi)

PipelineInv ==
    /\ PipelineTypeOK /\ PeerOK /\ Progress /\ Parked /\ NotStarted /\ Source
    /\ WithinLimit

(* The codec answers every message with one of three outcomes.             *)
LEMMA Outcomes ==
    ASSUME NEW m
    PROVE  TransformOne(m) \in {"ok", "exhausted", "internal"}
BY DEF TransformOne, DecompressBytes, ReadBounded, Reframe

(* What poll_frame cuts out of the buffer is the next message, whole.      *)
LEMMA NextMessage ==
    ASSUME PipelineInv, Len(results) < Len(msgs)
    PROVE  /\ MessageAt(lo) = Len(results) + 1
           /\ Current = msgs[Len(results) + 1]
           /\ Len(results) + 1 \in 1..Len(msgs)
           /\ msgs[Len(results) + 1] \in Message
           /\ AfterFrame = Start(Len(results) + 2)
<1>1. msgs \in Seq(Message) /\ lo = Start(Len(results) + 1) /\ Len(results) \in Nat
  BY DEF PipelineInv, PeerOK, Progress, CutAtBoundaries, PipelineTypeOK, TypeOK
<1>2. Len(results) + 1 \in 1..Len(msgs)
  BY <1>1
<1>3. MessageAt(lo) = Len(results) + 1
  BY <1>1, <1>2, StartsAt
<1>4. /\ msgs[Len(results) + 1] \in Message
      /\ Start((Len(results) + 1) + 1)
            = Start(Len(results) + 1) + HeaderLen + msgs[Len(results) + 1].len
  BY <1>1, <1>2, Layout
<1>5. (Len(results) + 1) + 1 = Len(results) + 2
  BY <1>1
<1> QED
  BY <1>1, <1>2, <1>3, <1>4, <1>5 DEF Current, AfterFrame

(* The buffer ends where the messages end, so it holds nothing after them. *)
LEMMA MessageIsThere ==
    ASSUME PipelineInv, HoldsMessage
    PROVE  Len(results) < Len(msgs) /\ lo < AfterFrame /\ AfterFrame <= hi
<1>1. /\ msgs \in Seq(Message) /\ sent \in 0..Total
      /\ lo = Start(Len(results) + 1) /\ Len(results) \in Nat
      /\ Len(results) <= Len(msgs)
      /\ hi \in 0..sent /\ lo \in 0..hi
  BY DEF PipelineInv, PeerOK, Progress, CutAtBoundaries, PipelineTypeOK, TypeOK
<1>2. HeaderLen \in Nat \ {0}
  BY SizesAssumption
<1>3. Total \in Nat
  BY <1>1, Layout DEF Total
<1>4. Len(results) # Len(msgs)
  <2>1. SUFFICES ASSUME Len(results) = Len(msgs) PROVE FALSE
    OBVIOUS
  <2>2. lo = Total
    BY <1>1, <2>1 DEF Total
  <2> QED
    BY <1>1, <1>2, <1>3, <2>2 DEF HoldsMessage, HeaderReady
<1>5. Len(results) < Len(msgs)
  BY <1>1, <1>4
<1>6. Current.len \in Nat
  BY <1>5, NextMessage DEF Message
<1> QED
  BY <1>1, <1>2, <1>3, <1>5, <1>6 DEF HoldsMessage, HeaderReady, AfterFrame

(* Headers within two adjacent stretches are within one of them.           *)
LEMMA OversizeSplits ==
    ASSUME msgs \in Seq(Message), NEW a \in Nat, NEW b \in Nat,
           OversizeWithin(0, b)
    PROVE  OversizeWithin(0, a) \/ OversizeWithin(a, b)
<1>1. PICK i \in 1..Len(msgs) :
          msgs[i].len > MaxRecv /\ Start(i) + HeaderLen \in (0 + 1)..b
  BY DEF OversizeWithin
<1>2. Start(i) + HeaderLen \in (0 + 1)..a \/ Start(i) + HeaderLen \in (a + 1)..b
  BY <1>1
<1> QED
  BY <1>1, <1>2 DEF OversizeWithin

-----------------------------------------------------------------------------
(* It holds initially and every step keeps it.                             *)

(* Nothing has been read or cut initially.                                  *)
LEMMA InvInitially == PipelineInit => PipelineInv
<1> SUFFICES ASSUME PipelineInit PROVE PipelineInv
  OBVIOUS
<1> USE DEF PipelineInit, Init
<1>1. msgs \in Seq(Message)
  BY StreamsAssumption
<1>2. Start(1) = 0 /\ Total \in Nat
  BY <1>1, Layout DEF Total
<1>3. Len(results) = 0
  OBVIOUS
<1>4. PipelineTypeOK
  <2>1. limited \in BOOLEAN /\ called \in BOOLEAN
    OBVIOUS
  <2>2. sent \in Nat
    BY <1>2
  <2>3. results \in Seq([msg : Nat, outcome : {"ok", "exhausted", "internal"}])
    OBVIOUS
  <2>4. TypeOK
    <3>1. /\ lo = 0 /\ hi = 0 /\ innerDone = FALSE /\ src = "open" /\ reported = {}
          /\ pc = "idle"
      OBVIOUS
    <3> HIDE DEF PipelineInit, Init
    <3>2. innerDone \in BOOLEAN
      BY <3>1
    <3>3. lo \in 0..hi /\ hi \in 0..sent
      BY <2>2, <3>1
    <3>4. reported \subseteq Status \cup {"trailers", "end"}
      BY <3>1
    <3>5. /\ src \in {"open", "trailers", "ended", "failed", "cut"}
          /\ pc \in Status \cup {"idle", "loop", "message", "pending", "trailers", "end"}
      BY <3>1
    <3> QED
      BY <1>1, <2>3, <3>2, <3>3, <3>4, <3>5 DEF TypeOK
  <2>5. prefetched \in 0..sent
    BY <2>2
  <2> QED
    BY <2>1, <2>4, <2>5 DEF PipelineTypeOK
<1>5. PeerOK
  BY <1>1 DEF PeerOK
<1>6. Progress
  BY <1>1, <1>2, <1>3 DEF Progress, CutAtBoundaries
<1>7. Parked /\ NotStarted /\ Source
  BY DEF Parked, NotStarted, Source, Broken
<1>8. WithinLimit
  BY DEF WithinLimit
<1> QED
  BY <1>4, <1>5, <1>6, <1>7, <1>8 DEF PipelineInv

(* What no step but the emission of a message touches.                     *)
LEMMA NothingCutOut ==
    ASSUME PipelineInv, UNCHANGED <<peer, lo, results, limited>>,
           reported \subseteq reported'
    PROVE  PeerOK' /\ Progress'
<1> USE FixedStream DEF peer
<1>1. PeerOK'
  BY DEF PipelineInv, PeerOK
<1>2. Progress'
  BY DEF PipelineInv, Progress, CutAtBoundaries
<1> QED
  BY <1>1, <1>2

(* What no step but the arrival of data and the prefetch touches.          *)
LEMMA NothingTakenIn ==
    ASSUME PipelineInv, UNCHANGED <<peer, hi, limited, called, prefetched>>
    PROVE  WithinLimit'
BY FixedStream DEF PipelineInv, WithinLimit, OversizeWithin, peer

(* Every poll of the pipeline keeps the invariant.                          *)
LEMMA InvStep == PipelineInv /\ [PipelineNext]_pipeline => PipelineInv'
<1> SUFFICES ASSUME PipelineInv, [PipelineNext]_pipeline PROVE PipelineInv'
  OBVIOUS
<1>0. /\ PipelineTypeOK /\ PeerOK /\ Progress /\ Parked /\ NotStarted /\ Source
      /\ WithinLimit
      /\ msgs \in Seq(Message) /\ sent \in Nat /\ Total \in Nat
      /\ HeaderLen \in Nat
  <2>1. msgs \in Seq(Message) /\ sent \in 0..Total
    BY DEF PipelineInv, PeerOK
  <2>2. Total \in Nat
    BY <2>1, Layout DEF Total
  <2> QED
    BY <2>1, <2>2, SizesAssumption DEF PipelineInv
<1> USE DEF pipeline, vars, peer, wrapper, Return
<1>1. ASSUME NEW n \in 0..sent, Prefetch(n)
      PROVE  PipelineInv'
  <2> USE <1>1 DEF Prefetch
  <2>1. UNCHANGED <<peer, lo, results, limited>> /\ reported \subseteq reported'
    OBVIOUS
  <2>2. PipelineTypeOK'
    BY <1>0 DEF PipelineTypeOK, TypeOK, Status
  <2>3. PeerOK' /\ Progress'
    BY <2>1, NothingCutOut
  <2>4. Parked'
    BY <1>0 DEF Parked
  <2>5. NotStarted'
    BY <1>0 DEF NotStarted
  <2>6. Source'
    BY <1>0 DEF Source, Broken, NotStarted, PipelineTypeOK, TypeOK
  <2>7. WithinLimit'
    <3>1. hi = 0 \/ called
      BY <1>0 DEF NotStarted
    <3>2. ~OversizeWithin(0, 0)
      BY DEF OversizeWithin
    <3> QED
      BY <1>0, <3>1, <3>2, FixedStream DEF WithinLimit, OversizeWithin
  <2> QED
    BY <2>2, <2>3, <2>4, <2>5, <2>6, <2>7 DEF PipelineInv
<1>2. ASSUME PrefetchError
      PROVE  PipelineInv'
  <2> USE <1>2 DEF PrefetchError
  <2>1. UNCHANGED <<peer, lo, results, limited>> /\ reported \subseteq reported'
    OBVIOUS
  <2>2. PipelineTypeOK'
    BY <1>0 DEF PipelineTypeOK, TypeOK, Status
  <2>3. PeerOK' /\ Progress'
    BY <2>1, NothingCutOut
  <2>4. Parked'
    BY <1>0 DEF Parked
  <2>5. NotStarted'
    BY <1>0 DEF NotStarted
  <2>6. Source'
    BY <1>0 DEF Source, Broken, NotStarted, PipelineTypeOK, TypeOK
  <2>7. WithinLimit'
    BY NothingTakenIn
  <2> QED
    BY <2>2, <2>3, <2>4, <2>5, <2>6, <2>7 DEF PipelineInv
<1>3. ASSUME Adapter(Poll)
      PROVE  PipelineInv'
  <2> USE <1>3 DEF Adapter, Poll
  <2>1. UNCHANGED <<peer, lo, results, limited>> /\ reported \subseteq reported'
    OBVIOUS
  <2>2. PipelineTypeOK'
    BY <1>0 DEF PipelineTypeOK, TypeOK, Status
  <2>3. PeerOK' /\ Progress'
    BY <2>1, NothingCutOut
  <2>4. Parked'
    BY <1>0 DEF Parked
  <2>5. NotStarted'
    BY <1>0 DEF NotStarted
  <2>6. Source'
    BY <1>0 DEF Source, Broken, NotStarted, PipelineTypeOK, TypeOK
  <2>7. WithinLimit'
    BY NothingTakenIn
  <2> QED
    BY <2>2, <2>3, <2>4, <2>5, <2>6, <2>7 DEF PipelineInv
<1>4. ASSUME Adapter(GuardRejects)
      PROVE  PipelineInv'
  <2> USE <1>4 DEF Adapter, GuardRejects
  <2>1. UNCHANGED <<peer, lo, results, limited>> /\ reported \subseteq reported'
    OBVIOUS
  <2>2. PipelineTypeOK'
    BY <1>0 DEF PipelineTypeOK, TypeOK, Status
  <2>3. PeerOK' /\ Progress'
    BY <2>1, NothingCutOut
  <2>4. Parked'
    BY <1>0 DEF Parked
  <2>5. NotStarted'
    BY <1>0 DEF NotStarted
  <2>6. Source'
    BY <1>0 DEF Source, Broken, NotStarted, PipelineTypeOK, TypeOK
  <2>7. WithinLimit'
    BY NothingTakenIn
  <2> QED
    BY <2>2, <2>3, <2>4, <2>5, <2>6, <2>7 DEF PipelineInv
<1>5. ASSUME Adapter(EmitMessage)
      PROVE  PipelineInv'
  <2> USE <1>5 DEF Adapter, EmitMessage
  <2>1. UNCHANGED <<peer, hi, innerDone, src, limited, called, prefetched>>
    OBVIOUS
  <2>2. /\ Len(results) < Len(msgs) /\ lo < AfterFrame /\ AfterFrame <= hi
        /\ MessageAt(lo) = Len(results) + 1 /\ Current = msgs[Len(results) + 1]
        /\ AfterFrame = Start(Len(results) + 2)
    BY MessageIsThere, NextMessage
  <2>3. PICK what : what = TransformOne(Current)
    OBVIOUS
  <2>4. PICK r : r = [msg |-> Len(results) + 1, outcome |-> what]
    OBVIOUS
  <2>5. /\ lo' = AfterFrame /\ results' = Append(results, r)
        /\ what \in {"ok", "exhausted", "internal"}
        /\ \/ what = "ok" /\ pc' = "message" /\ reported' = reported
           \/ what # "ok" /\ pc' = what /\ reported' = reported \cup {what}
    BY <2>2, <2>3, <2>4, Outcomes
  <2>6. /\ results \in Seq([msg : Nat, outcome : {"ok", "exhausted", "internal"}])
        /\ Len(results) \in Nat
        /\ r \in [msg : Nat, outcome : {"ok", "exhausted", "internal"}]
    BY <1>0, <2>4, <2>5 DEF PipelineTypeOK, TypeOK
  <2>7. /\ Len(results') = Len(results) + 1
        /\ results' \in Seq([msg : Nat, outcome : {"ok", "exhausted", "internal"}])
        /\ \A i \in 1..Len(results) : results'[i] = results[i]
        /\ results'[Len(results) + 1] = r
    BY <2>5, <2>6
  <2>8. AfterFrame \in Nat
    BY <2>2, <2>6, <1>0, Layout
  <2>9. PipelineTypeOK'
    <3>1. lo \in 0..hi /\ hi \in 0..sent
      BY <1>0 DEF PipelineTypeOK, TypeOK
    <3>2. lo' \in 0..hi'
      BY <3>1, <2>1, <2>2, <2>5, <2>8
    <3> QED
      BY <1>0, <2>1, <2>5, <2>7, <3>1, <3>2 DEF PipelineTypeOK, TypeOK, Status
  <2>10. PeerOK'
    BY <1>0, <2>1, FixedStream DEF PeerOK
  <2>11. CutAtBoundaries'
    <3>1. lo' = Start(Len(results') + 1)
      BY <2>2, <2>5, <2>6, <2>7
    <3>2. \A i \in 1..Len(results') : results'[i].msg = i
      BY <1>0, <2>4, <2>6, <2>7 DEF Progress, CutAtBoundaries
    <3> QED
      BY <3>1, <3>2, <2>1, FixedStream DEF CutAtBoundaries
  <2>12. Progress'
    <3>1. Len(results') <= Len(msgs')
      BY <2>2, <2>6, <2>7, <1>0
    <3>2. \A i \in 1..Len(results') :
             /\ results'[i].outcome = TransformOne(msgs[i])
             /\ results'[i].outcome \in {"ok"} \cup reported'
      <4> TAKE i \in 1..Len(results')
      <4>1. CASE i \in 1..Len(results)
        BY <4>1, <1>0, <2>5, <2>7 DEF Progress
      <4>2. CASE i = Len(results) + 1
        BY <4>2, <2>2, <2>3, <2>4, <2>5, <2>7
      <4> QED
        BY <4>1, <4>2, <2>6, <2>7
    <3> QED
      BY <2>1, <2>11, <3>1, <3>2, FixedStream DEF Progress
  <2>13. Parked' /\ NotStarted'
    BY <1>0, <2>1, <2>5 DEF Parked, NotStarted
  <2>14. Source'
    <3>1. lo \in Int /\ hi \in Int /\ sent \in Int /\ lo <= hi /\ hi <= sent
      BY <1>0 DEF PipelineTypeOK, TypeOK
    <3>2. lo # sent
      BY <3>1, <2>2, <2>8
    <3>3. reported' \cap {"error", "oversize", "trailers", "end"}
            = reported \cap {"error", "oversize", "trailers", "end"}
      BY <2>5
    <3> QED
      BY <1>0, <2>1, <3>2, <3>3 DEF Source, Broken
  <2>15. WithinLimit'
    BY <2>1, NothingTakenIn
  <2> QED
    BY <2>9, <2>10, <2>12, <2>13, <2>14, <2>15 DEF PipelineInv
<1>6. ASSUME Adapter(Finish)
      PROVE  PipelineInv'
  <2> USE <1>6 DEF Adapter, Finish
  <2>1. UNCHANGED <<peer, lo, results, limited>> /\ reported \subseteq reported'
    OBVIOUS
  <2>2. PipelineTypeOK'
    BY <1>0 DEF PipelineTypeOK, TypeOK, Status
  <2>3. PeerOK' /\ Progress'
    BY <2>1, NothingCutOut
  <2>4. Parked'
    BY <1>0 DEF Parked
  <2>5. NotStarted'
    BY <1>0 DEF NotStarted
  <2>6. Source'
    BY <1>0 DEF Source, Broken, NotStarted, PipelineTypeOK, TypeOK
  <2>7. WithinLimit'
    BY NothingTakenIn
  <2> QED
    BY <2>2, <2>3, <2>4, <2>5, <2>6, <2>7 DEF PipelineInv
<1>7. ASSUME NEW n \in 1..(sent - hi), LimitedData(n)
      PROVE  PipelineInv'
  <2> USE <1>7 DEF LimitedData, Passes, Adapter, PullData
  <2>1. UNCHANGED <<peer, lo, results, limited>> /\ reported \subseteq reported'
    OBVIOUS
  <2>2. PipelineTypeOK'
    BY <1>0 DEF PipelineTypeOK, TypeOK, Status
  <2>3. PeerOK' /\ Progress'
    BY <2>1, NothingCutOut
  <2>4. Parked'
    BY <1>0 DEF Parked
  <2>5. NotStarted'
    BY <1>0 DEF NotStarted
  <2>6. Source'
    BY <1>0 DEF Source, Broken, NotStarted, PipelineTypeOK, TypeOK
  <2>7. WithinLimit'
    <3>1. limited => ~OversizeWithin(0, hi + n)
      <4>1. hi \in Nat /\ hi + n \in Nat /\ prefetched \in Nat
        BY <1>0 DEF PipelineTypeOK, TypeOK
      <4>2. CASE Replayed
        BY <1>0, <4>1, <4>2, OversizeSplits DEF WithinLimit
      <4>3. CASE ~Replayed
        BY <1>0, <4>1, <4>3 DEF WithinLimit, OversizeWithin
      <4> QED
        BY <4>2, <4>3
    <3> QED
      BY <1>0, <3>1, FixedStream DEF WithinLimit, OversizeWithin
  <2> QED
    BY <2>2, <2>3, <2>4, <2>5, <2>6, <2>7 DEF PipelineInv
<1>8. ASSUME NEW n \in 1..(sent - hi), RejectFrame(n)
      PROVE  PipelineInv'
  <2> USE <1>8 DEF RejectFrame, Wants
  <2>1. UNCHANGED <<peer, lo, results, limited>> /\ reported \subseteq reported'
    OBVIOUS
  <2>2. PipelineTypeOK'
    BY <1>0 DEF PipelineTypeOK, TypeOK, Status
  <2>3. PeerOK' /\ Progress'
    BY <2>1, NothingCutOut
  <2>4. Parked'
    BY <1>0 DEF Parked
  <2>5. NotStarted'
    BY <1>0 DEF NotStarted
  <2>6. Source'
    BY <1>0 DEF Source, Broken, NotStarted, PipelineTypeOK, TypeOK
  <2>7. WithinLimit'
    BY NothingTakenIn
  <2> QED
    BY <2>2, <2>3, <2>4, <2>5, <2>6, <2>7 DEF PipelineInv
<1>9. ASSUME Adapter(PullTrailers)
      PROVE  PipelineInv'
  <2> USE <1>9 DEF Adapter, PullTrailers, TrailersStatus
  <2>1. UNCHANGED <<peer, lo, results, limited>> /\ reported \subseteq reported'
    OBVIOUS
  <2>2. PipelineTypeOK'
    BY <1>0 DEF PipelineTypeOK, TypeOK, Status
  <2>3. PeerOK' /\ Progress'
    BY <2>1, NothingCutOut
  <2>4. Parked'
    BY <1>0 DEF Parked
  <2>5. NotStarted'
    BY <1>0 DEF NotStarted
  <2>6. Source'
    BY <1>0 DEF Source, Broken, NotStarted, PipelineTypeOK, TypeOK
  <2>7. WithinLimit'
    BY NothingTakenIn
  <2> QED
    BY <2>2, <2>3, <2>4, <2>5, <2>6, <2>7 DEF PipelineInv
<1>10. ASSUME Adapter(PullNone)
      PROVE  PipelineInv'
  <2> USE <1>10 DEF Adapter, PullNone
  <2>1. UNCHANGED <<peer, lo, results, limited>> /\ reported \subseteq reported'
    OBVIOUS
  <2>2. PipelineTypeOK'
    BY <1>0 DEF PipelineTypeOK, TypeOK, Status
  <2>3. PeerOK' /\ Progress'
    BY <2>1, NothingCutOut
  <2>4. Parked'
    BY <1>0 DEF Parked
  <2>5. NotStarted'
    BY <1>0 DEF NotStarted
  <2>6. Source'
    BY <1>0 DEF Source, Broken, NotStarted, PipelineTypeOK, TypeOK
  <2>7. WithinLimit'
    BY NothingTakenIn
  <2> QED
    BY <2>2, <2>3, <2>4, <2>5, <2>6, <2>7 DEF PipelineInv
<1>11. ASSUME Replayed, Adapter(PullError)
      PROVE  PipelineInv'
  <2> USE <1>11 DEF Adapter, PullError
  <2>1. UNCHANGED <<peer, lo, results, limited>> /\ reported \subseteq reported'
    OBVIOUS
  <2>2. PipelineTypeOK'
    BY <1>0 DEF PipelineTypeOK, TypeOK, Status
  <2>3. PeerOK' /\ Progress'
    BY <2>1, NothingCutOut
  <2>4. Parked'
    BY <1>0 DEF Parked
  <2>5. NotStarted'
    BY <1>0 DEF NotStarted
  <2>6. Source'
    BY <1>0 DEF Source, Broken, NotStarted, PipelineTypeOK, TypeOK
  <2>7. WithinLimit'
    BY NothingTakenIn
  <2> QED
    BY <2>2, <2>3, <2>4, <2>5, <2>6, <2>7 DEF PipelineInv
<1>12. ASSUME PullAfterReject
      PROVE  PipelineInv'
  <2> USE <1>12 DEF PullAfterReject, Wants, TrailersStatus
  <2>1. UNCHANGED <<peer, lo, results, limited>> /\ reported \subseteq reported'
    OBVIOUS
  <2>2. PipelineTypeOK'
    BY <1>0 DEF PipelineTypeOK, TypeOK, Status
  <2>3. PeerOK' /\ Progress'
    BY <2>1, NothingCutOut
  <2>4. Parked'
    BY <1>0 DEF Parked
  <2>5. NotStarted'
    BY <1>0 DEF NotStarted
  <2>6. Source'
    BY <1>0 DEF Source, Broken, NotStarted, PipelineTypeOK, TypeOK
  <2>7. WithinLimit'
    BY NothingTakenIn
  <2> QED
    BY <2>2, <2>3, <2>4, <2>5, <2>6, <2>7 DEF PipelineInv
<1>13. ASSUME Replayed, Adapter(PullPending)
      PROVE  PipelineInv'
  <2> USE <1>13 DEF Adapter, PullPending
  <2>1. UNCHANGED <<peer, lo, results, limited>> /\ reported \subseteq reported'
    OBVIOUS
  <2>2. PipelineTypeOK'
    BY <1>0 DEF PipelineTypeOK, TypeOK, Status
  <2>3. PeerOK' /\ Progress'
    BY <2>1, NothingCutOut
  <2>4. Parked'
    <3>1. NeedsMore'
      BY FixedStream DEF NeedsMore, HoldsMessage, HeaderReady, OverGuard, Current,
                         MessageAt
    <3> QED
      BY <3>1 DEF Parked
  <2>5. NotStarted'
    BY <1>0 DEF NotStarted
  <2>6. Source'
    BY <1>0 DEF Source, Broken, NotStarted, PipelineTypeOK, TypeOK
  <2>7. WithinLimit'
    BY NothingTakenIn
  <2> QED
    BY <2>2, <2>3, <2>4, <2>5, <2>6, <2>7 DEF PipelineInv
<1>14. CASE UNCHANGED pipeline
  <2> USE <1>14
  <2>1. PipelineTypeOK' /\ NotStarted' /\ Source'
    BY <1>0 DEF PipelineTypeOK, TypeOK, NotStarted, Source, Broken
  <2>2. PeerOK' /\ Progress'
    BY NothingCutOut
  <2>3. Parked'
    BY <1>0, FixedStream DEF Parked, NeedsMore, HoldsMessage, HeaderReady, OverGuard,
                             Current, MessageAt
  <2>4. WithinLimit'
    BY NothingTakenIn
  <2> QED
    BY <2>1, <2>2, <2>3, <2>4 DEF PipelineInv
<1> QED
  BY <1>1, <1>2, <1>3, <1>4, <1>5, <1>6, <1>7, <1>8, <1>9, <1>10, <1>11, <1>12,
     <1>13, <1>14 DEF PipelineNext, Limiter, Ready

(* The pipeline's invariant holds in every state.                           *)
LEMMA InvHolds == PipelineSpec => []PipelineInv
<1> QED
  BY InvInitially, InvStep, PTL DEF PipelineSpec

-----------------------------------------------------------------------------
(* What follows from it.                                                   *)

(* An outcome of a message already cut out, and what its bytes were.       *)
LEMMA OutcomeOf ==
    ASSUME PipelineInv, NEW i \in 1..Len(results)
    PROVE  /\ results[i].outcome = TransformOne(msgs[i])
           /\ msgs[i] \in Message /\ i \in 1..Len(msgs)
           /\ Len(results) \in Nat /\ Len(msgs) \in Nat
<1>1. Len(results) \in Nat /\ Len(results) <= Len(msgs) /\ msgs \in Seq(Message)
  BY DEF PipelineInv, Progress, PeerOK, PipelineTypeOK, TypeOK
<1> QED
  BY <1>1 DEF PipelineInv, Progress

(* The invariant bounds what was decompressed.                              *)
LEMMA CapFromInv == PipelineInv => DecompressedWithinCap
<1> SUFFICES ASSUME PipelineInv, direction = "decompress", NEW i \in 1..Len(results),
                    results[i].outcome = "ok", msgs[i].flag = 1
             PROVE  msgs[i].out <= Cap
  BY DEF DecompressedWithinCap
<1>1. TransformOne(msgs[i]) = "ok"
  BY OutcomeOf
<1>2. DecompressBytes(msgs[i]) = "ok"
  BY <1>1 DEF TransformOne, MatchingFlag
<1>3. ~(msgs[i].out > Cap)
  BY <1>2 DEF DecompressBytes, ReadBounded
<1>4. msgs[i].out \in Nat /\ Cap \in Nat
  BY OutcomeOf, SizesAssumption DEF Message
<1> QED
  BY <1>3, <1>4

(* An own message within the cap decompresses, and is shorter on the wire  *)
(* than the guard's bound.                                                 *)
LEMMA OwnTransforms ==
    ASSUME direction = "decompress", NEW m \in Message,
           OwnMessage(m), m.out <= Lesser(Cap, MaxFrameLen)
    PROVE  TransformOne(m) = "ok" /\ ~(m.len > Cap + Headroom)
<1>1. m.out \in Nat /\ m.len \in Nat
  BY DEF Message
<1>2. Cap \in Nat /\ MaxFrameLen \in Nat /\ Headroom \in Nat
  BY SizesAssumption DEF Headroom
<1>3. m.out <= Cap /\ m.out <= MaxFrameLen
  BY <1>1, <1>2 DEF Lesser
<1>4. m.flag = 1 /\ ~m.corrupt /\ m.window <= WindowCeiling(Cap)
  BY <1>1, <1>3, OwnWindowsFit DEF OwnMessage
<1>5. m.window \in Nat /\ WindowCeiling(Cap) \in Int
  <2>1. MinLog \in Nat /\ MaxLog \in Nat /\ LogHeadroom \in Nat
    BY SizesAssumption
  <2>2. WindowLogFor(Cap) \in Int
    <3>1. BitLen[IF Cap = 0 THEN 1 ELSE Cap] \in Nat
      BY <1>2, BitLenGrows
    <3> QED
      BY <2>1, <3>1 DEF WindowLogFor, Clamp, Lesser
  <2> QED
    BY <2>1, <2>2 DEF Message, WindowCeiling, Lesser
<1>6. DecompressBytes(m) = "ok"
  <2>1. ~(m.window > WindowCeiling(Cap)) /\ ~(m.out > Cap)
    BY <1>1, <1>2, <1>3, <1>4, <1>5
  <2> QED
    BY <2>1, <1>4 DEF DecompressBytes, ReadBounded
<1>7. Reframe(m.out) = "ok"
  BY <1>1, <1>2, <1>3 DEF Reframe
<1>8. TransformOne(m) = "ok"
  BY <1>4, <1>6, <1>7 DEF TransformOne, MatchingFlag
<1>9. m.len <= m.out + Headroom
  BY DEF OwnMessage
<1> QED
  BY <1>1, <1>2, <1>3, <1>8, <1>9

(* A whole header in the buffer is that of a message not yet cut out.       *)
LEMMA HeaderIsOfNext ==
    ASSUME PipelineInv, HeaderReady
    PROVE  Current \in Message
<1>1. /\ msgs \in Seq(Message) /\ sent \in 0..Total
      /\ lo = Start(Len(results) + 1) /\ Len(results) \in Nat
      /\ Len(results) <= Len(msgs)
      /\ hi \in 0..sent /\ lo \in 0..hi
  BY DEF PipelineInv, PeerOK, Progress, CutAtBoundaries, PipelineTypeOK, TypeOK
<1>2. HeaderLen \in Nat \ {0} /\ Total \in Nat
  BY <1>1, SizesAssumption, Layout DEF Total
<1>3. Len(results) # Len(msgs)
  <2>1. SUFFICES ASSUME Len(results) = Len(msgs) PROVE FALSE
    OBVIOUS
  <2>2. lo = Total
    BY <1>1, <2>1 DEF Total
  <2> QED
    BY <1>1, <1>2, <2>2 DEF HeaderReady
<1>4. Len(results) < Len(msgs)
  BY <1>1, <1>3
<1> QED
  BY <1>4, NextMessage

(* Under the invariant no step refuses an own message within the cap: the  *)
(* guard finds it short enough, and the codec decompresses it.             *)
LEMMA OwnIsNotRefused ==
    ASSUME PipelineInv, [PipelineNext]_pipeline,
           direction = "decompress", pc = "loop", pc' \in {"exhausted", "internal"}
    PROVE  ~ (OwnMessage(Current) /\ Current.out <= Lesser(Cap, MaxFrameLen))
<1>1. CASE Adapter(GuardRejects)
  <2>1. HeaderReady /\ Current.len > Cap + Headroom
    BY <1>1 DEF Adapter, GuardRejects, OverGuard
  <2>2. Current \in Message
    BY <2>1, HeaderIsOfNext
  <2> QED
    BY <2>1, <2>2, OwnTransforms
<1>2. CASE Adapter(EmitMessage)
  <2>1. HeaderReady /\ TransformOne(Current) # "ok"
    BY <1>2 DEF Adapter, EmitMessage, HoldsMessage, Return
  <2>2. Current \in Message
    BY <2>1, HeaderIsOfNext
  <2> QED
    BY <2>1, <2>2, OwnTransforms
<1>3. CASE Limiter
  BY <1>3 DEF Limiter, Prefetch, PrefetchError
<1>4. CASE Adapter(Poll) \/ Adapter(Finish)
  BY <1>4 DEF Adapter, Poll, Finish, Return
<1>5. CASE Ready
  BY <1>5 DEF Ready, LimitedData, RejectFrame, PullAfterReject, Adapter, PullData,
              PullTrailers, PullNone, PullError, TrailersStatus, Return
<1>6. CASE Replayed /\ Adapter(PullPending)
  BY <1>6 DEF Adapter, PullPending
<1>7. CASE UNCHANGED pipeline
  BY <1>7 DEF pipeline, vars
<1> QED
  BY <1>1, <1>2, <1>3, <1>4, <1>5, <1>6, <1>7 DEF PipelineNext

(* The invariant leaves no whole message in the buffer.                     *)
LEMMA WaitingFromInv == PipelineInv => NoMessageLeftWaiting /\ BufferBounded
<1> SUFFICES ASSUME PipelineInv, pc = "pending"
             PROVE  /\ Len(results) = Len(msgs) \/ hi < Start(Len(results) + 2)
                    /\ direction = "decompress" => hi - lo < HeaderLen + Cap + Headroom
  BY DEF NoMessageLeftWaiting, BufferBounded
<1>1. /\ NeedsMore /\ msgs \in Seq(Message) /\ Len(results) \in Nat
      /\ Len(results) <= Len(msgs) /\ lo = Start(Len(results) + 1)
      /\ sent \in 0..Total /\ hi \in 0..sent /\ lo \in 0..hi
  BY DEF PipelineInv, Parked, PeerOK, Progress, CutAtBoundaries, PipelineTypeOK, TypeOK
<1>2. HeaderLen \in Nat \ {0} /\ Cap \in Nat /\ Headroom \in Nat
  BY SizesAssumption DEF Headroom
<1>3. Total \in Nat
  BY <1>1, Layout DEF Total
<1>4. CASE Len(results) = Len(msgs)
  <2>1. lo = Total
    BY <1>1, <1>4 DEF Total
  <2> QED
    BY <1>1, <1>2, <1>3, <1>4, <2>1
<1>5. CASE Len(results) # Len(msgs)
  <2>1. Len(results) < Len(msgs)
    BY <1>1, <1>5
  <2>2. Current.len \in Nat /\ AfterFrame = Start(Len(results) + 2)
    BY <2>1, NextMessage DEF Message
  <2>3. CASE ~HeaderReady
    BY <1>1, <1>2, <1>3, <2>2, <2>3 DEF HeaderReady, AfterFrame
  <2>4. CASE HeaderReady
    <3>1. hi - lo < HeaderLen + Current.len
      BY <1>1, <1>2, <1>3, <2>2, <2>4 DEF NeedsMore, HoldsMessage
    <3>2. direction = "decompress" => Current.len <= Cap + Headroom
      BY <1>1, <1>2, <2>2, <2>4 DEF NeedsMore, OverGuard
    <3> QED
      BY <1>1, <1>2, <1>3, <2>2, <3>1, <3>2 DEF AfterFrame
  <2> QED
    BY <2>3, <2>4
<1> QED
  BY <1>4, <1>5

(* The invariant reports every stream cut short.                            *)
LEMMA TruncationFromInv == PipelineInv => NoSilentTruncation
<1> SUFFICES ASSUME PipelineInv PROVE NoSilentTruncation
  OBVIOUS
<1>1. /\ msgs \in Seq(Message) /\ Len(results) \in Nat /\ Len(results) <= Len(msgs)
      /\ lo = Start(Len(results) + 1)
  BY DEF PipelineInv, PeerOK, Progress, CutAtBoundaries, PipelineTypeOK, TypeOK
<1>2. reported \cap {"error", "oversize"} = {}
        => /\ "trailers" \in reported => lo = sent
           /\ "end" \in reported => lo = sent
  BY DEF PipelineInv, Source, Broken
<1>3. HeaderLen \in Nat \ {0}
  BY SizesAssumption
<1>4. ASSUME "end" \in reported, reported \cap Status = {},
             NEW i \in 1..Len(msgs), Start(i + 1) <= sent
      PROVE  i <= Len(results) /\ results[i].outcome = "ok"
  <2>1. Start(i + 1) <= lo
    BY <1>2, <1>4 DEF Status
  <2>2. i <= Len(results)
    <3>1. SUFFICES ASSUME Len(results) + 1 \in 1..Len(msgs), i >= Len(results) + 1
                   PROVE  FALSE
      BY <1>1
    <3>2. /\ Start(Len(results) + 1) \in Nat /\ Start(i + 1) \in Nat
          /\ Start(i) \in Nat /\ msgs[i].len \in Nat
          /\ Start(i + 1) = Start(i) + HeaderLen + msgs[i].len
      <4>1. /\ \A j \in 1..(Len(msgs) + 1) : Start(j) \in Nat
            /\ msgs[i] \in Message
            /\ Start(i + 1) = Start(i) + HeaderLen + msgs[i].len
        BY <1>1, Layout
      <4>2. Len(results) + 1 \in 1..(Len(msgs) + 1) /\ i \in 1..(Len(msgs) + 1)
                /\ i + 1 \in 1..(Len(msgs) + 1)
        BY <3>1, <1>1
      <4>3. msgs[i].len \in Nat
        BY <4>1 DEF Message
      <4> QED
        BY <4>1, <4>2, <4>3
    <3>3. Start(Len(results) + 1) <= Start(i)
      <4>1. CASE i = Len(results) + 1
        BY <4>1, <3>2
      <4>2. CASE i # Len(results) + 1
        <5>1. Start((Len(results) + 1) + 1) <= Start(i)
          BY <4>2, <3>1, <1>1, LaterStarts
        <5>2. /\ Start((Len(results) + 1) + 1)
                    = Start(Len(results) + 1) + HeaderLen + msgs[Len(results) + 1].len
              /\ msgs[Len(results) + 1].len \in Nat
          BY <1>1, <3>1, Layout DEF Message
        <5> QED
          BY <5>1, <5>2, <3>2, <1>3
      <4> QED
        BY <4>1, <4>2
    <3> QED
      BY <1>1, <2>1, <3>2, <3>3, <1>3
  <2>3. results[i].outcome \in {"ok"} \cup reported
          /\ results[i].outcome \in {"ok", "exhausted", "internal"}
    <3>1. i \in 1..Len(results)
      BY <1>1, <2>2
    <3> QED
      BY <3>1, OutcomeOf, Outcomes DEF PipelineInv, Progress
  <2> QED
    BY <2>2, <2>3, <1>4 DEF Status
<1> QED
  BY <1>2, <1>4 DEF NoSilentTruncation

(* The invariant bounds what reaches the handler.                           *)
LEMMA AmplificationFromInv == PipelineInv => NoAmplification
<1> SUFFICES ASSUME PipelineInv, limited, NEW i \in 1..Len(results),
                    results[i].outcome = "ok"
             PROVE  \/ HandedOnSize(msgs[i]) <= MaxRecv
                    \/ Cap > MaxRecv /\ msgs[i].flag = 1
  BY DEF NoAmplification
<1>1. /\ msgs \in Seq(Message) /\ Len(results) \in Nat /\ Len(results) <= Len(msgs)
      /\ lo = Start(Len(results) + 1) /\ direction = "decompress"
      /\ sent \in 0..Total /\ hi \in 0..sent /\ lo \in 0..hi
  BY DEF PipelineInv, PeerOK, Progress, CutAtBoundaries, PipelineTypeOK, TypeOK
<1>2. /\ msgs[i] \in Message /\ i \in 1..Len(msgs)
      /\ msgs[i].len \in Nat /\ msgs[i].out \in Nat /\ msgs[i].flag \in {0, 1}
      /\ Cap \in Nat /\ MaxRecv \in Nat /\ HeaderLen \in Nat \ {0}
  BY OutcomeOf, SizesAssumption, MaxRecvAssumption DEF Message
<1>3. CASE msgs[i].flag = 1
  <2>1. msgs[i].out <= Cap
    BY <1>1, <1>3, CapFromInv DEF DecompressedWithinCap
  <2> QED
    BY <1>2, <1>3, <2>1 DEF HandedOnSize
<1>4. CASE msgs[i].flag = 0
  <2>1. Start(i) \in Nat /\ Start(i) + HeaderLen <= Start(i + 1)
    BY <1>1, <1>2, Layout
  <2>2. Start(i + 1) <= lo
    <3>1. i + 1 = Len(results) + 1 \/ (i + 1 # Len(results) + 1 /\ i < Len(results))
      BY <1>1
    <3>2. Len(results) + 1 \in 1..(Len(msgs) + 1) /\ i < Len(results) + 1
      BY <1>1
    <3> QED
      BY <1>1, <1>2, <3>2, LaterStarts
  <2>3. called
    <3>1. Total \in Nat
      BY <1>1, Layout DEF Total
    <3>2. hi # 0
      BY <1>1, <1>2, <2>1, <2>2, <3>1, Layout
    <3> QED
      BY <3>2 DEF PipelineInv, NotStarted
  <2>4. Start(i) + HeaderLen \in (0 + 1)..hi
    <3>1. Total \in Nat /\ Start(i + 1) \in Nat
      BY <1>1, <1>2, Layout DEF Total
    <3> QED
      BY <1>1, <1>2, <2>1, <2>2, <3>1
  <2>5. ~OversizeWithin(0, hi)
    BY <2>3 DEF PipelineInv, WithinLimit
  <2>6. ~(msgs[i].len > MaxRecv)
    BY <1>2, <2>4, <2>5 DEF OversizeWithin
  <2> QED
    BY <1>2, <1>4, <2>6 DEF HandedOnSize
<1> QED
  BY <1>2, <1>3, <1>4

-----------------------------------------------------------------------------
(* Every reachable state is well typed.                                    *)
THEOREM TypeCorrect == PipelineSpec => []PipelineTypeOK
<1>1. PipelineInv => PipelineTypeOK
  BY DEF PipelineInv
<1> QED
  BY <1>1, InvHolds, PTL

(* However frames cut the stream, poll_frame cuts out each message once,   *)
(* in order, at the boundaries the sender laid down.                       *)
THEOREM CutsAtBoundaries == PipelineSpec => []CutAtBoundaries
<1>1. PipelineInv => CutAtBoundaries
  BY DEF PipelineInv, Progress
<1> QED
  BY <1>1, InvHolds, PTL

(* No message is handed on decompressed to more than the cap, whatever the *)
(* payload and the window its sender declared.                             *)
THEOREM CapIsEnforced == PipelineSpec => []DecompressedWithinCap
<1> QED
  BY CapFromInv, InvHolds, PTL

(* A message the crate's own encoder made within the cap is refused        *)
(* neither by the guard, for its length on the wire, nor by the decoder,   *)
(* for every cap and window range: bit lengths grow with sizes.            *)
THEOREM OwnMessagesAreNotRefused == PipelineSpec => OwnMessagesPass
<1>1. PipelineInv /\ [PipelineNext]_pipeline
        => [direction = "decompress" /\ pc = "loop"
                /\ pc' \in {"exhausted", "internal"}
              => ~ (OwnMessage(Current) /\ Current.out <= Lesser(Cap, MaxFrameLen))]_vars
  BY OwnIsNotRefused
<1> QED
  BY <1>1, InvHolds, PTL DEF PipelineSpec, OwnMessagesPass

(* poll_frame never parks the consumer on a whole message.                 *)
THEOREM WholeMessagesGoOn == PipelineSpec => []NoMessageLeftWaiting
<1>1. PipelineInv => NoMessageLeftWaiting
  BY WaitingFromInv
<1> QED
  BY <1>1, InvHolds, PTL

(* A decompressing adapter that waits holds less than one admissible frame.*)
THEOREM BufferStaysBounded == PipelineSpec => []BufferBounded
<1>1. PipelineInv => BufferBounded
  BY WaitingFromInv
<1> QED
  BY <1>1, InvHolds, PTL

(* A stream whose end or trailers are handed on without an error had all   *)
(* its messages handed on.                                                 *)
THEOREM TruncationIsReported == PipelineSpec => []NoSilentTruncation
<1> QED
  BY TruncationFromInv, InvHolds, PTL

(* Under the receive limit and the cap together, no message on its way to  *)
(* the handler exceeds the larger of the two.                              *)
THEOREM HandlerIsNotFlooded == PipelineSpec => []NoAmplification
<1> QED
  BY AmplificationFromInv, InvHolds, PTL

=============================================================================
