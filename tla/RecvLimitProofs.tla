-------------------------- MODULE RecvLimitProofs --------------------------
(***************************************************************************)
(* Proofs about RecvLimit, for every header length, limit, alphabet and    *)
(* set of bodies.                                                          *)
(***************************************************************************)
EXTENDS RecvLimit, SequenceTheorems, TLAPS

(* Reading a header of a body yields a natural length, so the next header  *)
(* lies strictly further.                                                  *)
LEMMA NextStartIsLater ==
    ASSUME NEW b \in Seq(Byte), NEW p \in Nat, HasHeader(b, p)
    PROVE  /\ Header(b, p) \in [1..HeaderLen -> Byte]
           /\ Len(Header(b, p)) = HeaderLen
           /\ DeclaredLen(Header(b, p)) \in Nat
           /\ NextStart(b, p) \in Nat
           /\ p + HeaderLen <= NextStart(b, p)
<1>1. \A i \in (p + 1)..(p + HeaderLen) : b[i] \in Byte
  BY HeaderLenAssumption DEF HasHeader
<1>2. /\ Header(b, p) \in Seq(Byte)
      /\ Len(Header(b, p)) = HeaderLen
  BY <1>1, SubSeqProperties, HeaderLenAssumption DEF Header
<1>3. Header(b, p) \in [1..HeaderLen -> Byte]
  BY <1>2
<1>4. DeclaredLen(Header(b, p)) \in Nat
  BY <1>3, DeclaredLenAssumption
<1> QED
  BY <1>2, <1>3, <1>4, HeaderLenAssumption DEF NextStart

(* The header starts of a body are themselves closed under "the message    *)
(* that starts here is complete".                                          *)
LEMMA StartsAreClosed ==
    ASSUME NEW b \in Seq(Byte)
    PROVE  FramingClosed(b, HeaderStarts(b))
<1>1. 0 \in HeaderStarts(b)
  BY DEF HeaderStarts, FramingClosed
<1>2. ASSUME NEW p \in HeaderStarts(b), HasHeader(b, p), NextStart(b, p) <= Len(b)
      PROVE  NextStart(b, p) \in HeaderStarts(b)
  <2>1. p \in Nat
    BY DEF HeaderStarts
  <2>2. NextStart(b, p) \in 0..Len(b)
    BY <1>2, <2>1, NextStartIsLater
  <2>3. ASSUME NEW S \in SUBSET (0..Len(b)), FramingClosed(b, S)
        PROVE  NextStart(b, p) \in S
    BY <1>2, <2>3 DEF HeaderStarts, FramingClosed
  <2> QED
    BY <2>2, <2>3 DEF HeaderStarts
<1> QED
  BY <1>1, <1>2 DEF FramingClosed

(* No header starts inside a message: if every start below h ends at or    *)
(* before h, then nothing starts between h and the end of h's message.     *)
LEMMA NoStartInside ==
    ASSUME NEW b \in Seq(Byte), NEW h \in HeaderStarts(b), HasHeader(b, h),
           \A q \in HeaderStarts(b) : q < h => NextStart(b, q) <= h,
           NEW q \in HeaderStarts(b), q < NextStart(b, h)
    PROVE  q <= h
<1> DEFINE T == {r \in HeaderStarts(b) : r <= h \/ r >= NextStart(b, h)}
<1>1. h \in Nat /\ HeaderStarts(b) \subseteq 0..Len(b)
  BY DEF HeaderStarts
<1>2. NextStart(b, h) \in Nat /\ h < NextStart(b, h)
  BY <1>1, NextStartIsLater, HeaderLenAssumption
<1>3. FramingClosed(b, T)
  <2>1. 0 \in T
    BY <1>1, StartsAreClosed DEF FramingClosed
  <2>2. ASSUME NEW r \in T, HasHeader(b, r), NextStart(b, r) <= Len(b)
        PROVE  NextStart(b, r) \in T
    <3>1. NextStart(b, r) \in HeaderStarts(b)
      BY <2>2, StartsAreClosed DEF FramingClosed
    <3>2. r \in Nat /\ NextStart(b, r) \in Nat /\ r <= NextStart(b, r)
      BY <1>1, <2>2, NextStartIsLater, HeaderLenAssumption
    <3>3. CASE r < h
      BY <3>1, <3>3
    <3>4. CASE r = h
      BY <3>1, <3>2, <3>4
    <3>5. CASE r > h
      BY <1>1, <1>2, <3>1, <3>2, <3>5
    <3> QED
      BY <1>1, <3>2, <3>3, <3>4, <3>5
  <2> QED
    BY <2>1, <2>2 DEF FramingClosed
<1>4. T \in SUBSET (0..Len(b))
  BY <1>1
<1>5. q \in T
  BY <1>3, <1>4 DEF HeaderStarts
<1> QED
  BY <1>1, <1>2, <1>5

-----------------------------------------------------------------------------
WireInv == starts = HeaderStarts(body)

(* The scan state FrameScanState::default() gives: in Header, nothing read. *)
LEMMA FreshScanFacts ==
    /\ FreshScan \in ScanState
    /\ FreshScan.mode = "header" /\ FreshScan.hdr = << >>
    /\ Len(FreshScan.hdr) = 0 /\ Len(FreshScan.hdr) # HeaderLen
<1>1. << >> \in Seq(Byte) /\ Len(<< >>) = 0
  BY EmptySeq
<1>2. FreshScan.mode = "header" /\ FreshScan.hdr = << >>
  BY DEF FreshScan
<1>3. FreshScan \in ScanState
  BY <1>1 DEF FreshScan, ScanState
<1> QED
  BY <1>1, <1>2, <1>3, HeaderLenAssumption

(* The scan state after a whole header: in Payload, its bytes to come.     *)
LEMMA InPayloadFacts ==
    ASSUME NEW n \in Nat
    PROVE  /\ InPayload(n) \in ScanState
           /\ InPayload(n).mode = "payload" /\ InPayload(n).hdr = << >>
           /\ InPayload(n).rem = n /\ Len(InPayload(n).hdr) = 0
<1>1. << >> \in Seq(Byte) /\ Len(<< >>) = 0
  BY EmptySeq
<1>2. /\ InPayload(n).mode = "payload" /\ InPayload(n).hdr = << >>
      /\ InPayload(n).rem = n
  BY DEF InPayload
<1>3. InPayload(n) \in ScanState
  BY <1>1 DEF InPayload, ScanState
<1> QED
  BY <1>1, <1>2, <1>3

(* A new request, of which nothing was read, satisfies the invariant.      *)
LEMMA InitIInv == Init => WireInv /\ IInv
<1> SUFFICES ASSUME Init PROVE WireInv /\ IInv
  OBVIOUS
<1>1. WireInv
  BY DEF Init, WireInv
<1>2. body \in Seq(Byte)
  BY BodiesAssumption DEF Init
<1>3. 0 \in starts /\ starts \in SUBSET (0..Len(body))
  BY <1>1, <1>2, StartsAreClosed DEF WireInv, FramingClosed, HeaderStarts
<1>4. TypeOK
  <2>1. buffered \in Seq(Frame)
    BY EmptySeq DEF Init
  <2>2. scan \in ScanState
    BY FreshScanFacts DEF Init
  <2>3. read \in 0..Len(body)
    BY <1>2 DEF Init
  <2>4. NoChunk \in Frame
    BY DEF NoChunk, Frame
  <2>5. /\ src \in {"open", "trailers", "ended", "failed", "stalled"}
        /\ next \in Nat \ {0} /\ chunk \in Frame
        /\ pos \in Nat /\ delivered \in Nat
        /\ answer \in {"none", "oversize", "internal"}
        /\ pc \in {"prefetch", "prefix", "scan", "body", "done"}
    BY <2>4 DEF Init
  <2>6. called \in BOOLEAN
    BY DEF Init
  <2> QED
    BY <1>2, <1>3, <2>1, <2>2, <2>3, <2>5, <2>6 DEF TypeOK
<1>5. ~Poisoned /\ HeaderAt = 0
  <2>1. scan = FreshScan /\ pos = 0
    BY DEF Init
  <2> QED
    <3>1. scan.mode = "header" /\ Len(scan.hdr) = 0 /\ Len(scan.hdr) # HeaderLen
      BY <2>1, FreshScanFacts
    <3> QED
      BY <2>1, <3>1 DEF Poisoned, HeaderAt
<1>6. ScanShape /\ InStep
  <2>1. ScanShape
    BY HeaderLenAssumption DEF Init, ScanShape, FreshScan
  <2>2. scan.hdr = SubSeq(body, pos - Len(scan.hdr) + 1, pos)
    BY SubSeqEmpty DEF Init, FreshScan
  <2>3. \A q \in starts : ~(q < 0)
    BY <1>3, <1>2
  <2>4. pos = 0 /\ scan.hdr = << >> /\ scan.mode = "header"
    BY DEF Init, FreshScan
  <2>5. Len(body) \in Nat /\ Len(scan.hdr) = 0
    BY <1>2, <2>4, LenProperties, EmptySeq
  <2>6. HeaderAt \in starts
    BY <1>3, <1>5
  <2>7. \A q \in starts : ~(q < HeaderAt)
    BY <1>5, <2>3
  <2> QED
    BY <2>1, <2>2, <2>4, <2>5, <2>6, <2>7 DEF InStep
<1>7. AfterError /\ Chained
  BY <1>5 DEF Init, AfterError, Chained
<1>8. AtPrefetch /\ AtPrefix /\ AtScan /\ AtBody
  BY <1>5 DEF Init, AtPrefetch, AtPrefix, AtScan, AtBody
<1> QED
  BY <1>1, <1>4, <1>6, <1>7, <1>8
     DEF IInv, FirstMessageCheckedBeforeCall, Init

(* The steps that leave the scan where it is.                              *)
LEMMA ScanUnmoved ==
    ASSUME IInv, UNCHANGED <<wire, scan>>, Poisoned \/ pos' = pos
    PROVE  ScanShape' /\ InStep' /\ (Poisoned' <=> Poisoned)
BY DEF IInv, ScanShape, InStep, Poisoned, HeaderAt, Oversize, wire

(* Prefetching a data frame extends the chain of buffered frames.          *)
LEMMA PrefetchDataStep ==
    ASSUME IInv, NEW n \in 0..(Len(body) - read), PrefetchData(n)
    PROVE  IInv'
<1> USE DEF PrefetchData, wire
<1>1. TypeOK'
  BY DEF IInv, TypeOK, DataFrame, Frame
<1>2. ScanShape' /\ InStep' /\ (Poisoned' <=> Poisoned)
  BY ScanUnmoved
<1>3. ~Poisoned /\ ~called
  BY HeaderLenAssumption DEF IInv, AtPrefetch, Poisoned, FreshScan
<1>4. AfterError'
  BY <1>2, <1>3 DEF AfterError
<1>5. Chained'
  <2>1. /\ Len(buffered') = Len(buffered) + 1
        /\ \A i \in 1..Len(buffered) : buffered'[i] = buffered[i]
        /\ buffered'[Len(buffered) + 1] = DataFrame(n)
    BY DEF IInv, TypeOK
  <2>2. buffered = << >> => read = 0 /\ delivered = 0
    BY <1>3 DEF IInv, AtPrefetch
  <2>3. \A i \in 1..Len(buffered) :
           /\ buffered[i].from \in Nat /\ buffered[i].to \in Nat
           /\ buffered[i].from <= buffered[i].to /\ buffered[i].to <= read
           /\ buffered[i].trailers => buffered[i].from = buffered[i].to
    <3>1. \A i \in 1..Len(buffered) : buffered[i] \in Frame
      BY DEF IInv, TypeOK
    <3> QED
      BY <3>1 DEF IInv, Chained, Frame
  <2>4. ~DataFrame(n).trailers /\ DataFrame(n).from = read
        /\ DataFrame(n).to = read' /\ read <= read'
    BY DEF IInv, TypeOK, DataFrame
  <2>5. read \in Nat /\ read' \in Nat /\ Len(buffered) \in Nat
    BY DEF IInv, TypeOK
  <2>6. \A i \in 1..Len(buffered') :
           /\ buffered'[i].from <= buffered'[i].to /\ buffered'[i].to <= read'
           /\ buffered'[i].trailers => buffered'[i].from = buffered'[i].to
    BY <2>1, <2>3, <2>4, <2>5
  <2>7. \A i \in 1..(Len(buffered') - 1) : buffered'[i].to = buffered'[i + 1].from
    BY <2>1, <2>4, <2>5 DEF IInv, TypeOK, Chained
  <2>8. buffered'[1].from = delivered'
    BY <2>1, <2>2, <2>4, <2>5 DEF IInv, TypeOK, Chained
  <2> QED
    BY <2>1, <2>4, <2>5, <2>6, <2>7, <2>8 DEF Chained
<1>6. AtPrefetch' /\ AtScan' /\ AtBody'
  BY <1>2, <1>3 DEF IInv, TypeOK, AtPrefetch, AtScan, AtBody
<1>7. AtPrefix'
  <2>1. buffered'[1].from = 0
    BY <1>3, <1>5 DEF Chained, IInv, TypeOK, AtPrefetch
  <2> QED
    BY <1>2, <1>3, <2>1 DEF IInv, TypeOK, AtPrefix, AtPrefetch, PrefixComplete
<1> QED
  BY <1>1, <1>2, <1>3, <1>4, <1>5, <1>6, <1>7
     DEF IInv, FirstMessageCheckedBeforeCall

(* Prefetching the trailers extends it by a frame without data.            *)
LEMMA PrefetchTrailersStep ==
    ASSUME IInv, PrefetchTrailers
    PROVE  IInv'
<1> USE DEF PrefetchTrailers, wire
<1>1. TypeOK'
  BY DEF IInv, TypeOK, TrailersFrame, Frame
<1>2. ScanShape' /\ InStep' /\ (Poisoned' <=> Poisoned)
  BY ScanUnmoved
<1>3. ~Poisoned /\ ~called
  BY FreshScanFacts DEF IInv, AtPrefetch, Poisoned
<1>4. AfterError'
  BY <1>2, <1>3 DEF AfterError
<1>5. Chained'
  <2>1. /\ Len(buffered') = Len(buffered) + 1
        /\ \A i \in 1..Len(buffered) : buffered'[i] = buffered[i]
        /\ buffered'[Len(buffered) + 1] = TrailersFrame
    BY DEF IInv, TypeOK
  <2>2. buffered = << >> => read = 0 /\ delivered = 0
    BY <1>3 DEF IInv, AtPrefetch
  <2>3. \A i \in 1..Len(buffered) :
           /\ buffered[i].from \in Nat /\ buffered[i].to \in Nat
           /\ buffered[i].from <= buffered[i].to /\ buffered[i].to <= read
           /\ buffered[i].trailers => buffered[i].from = buffered[i].to
    <3>1. \A i \in 1..Len(buffered) : buffered[i] \in Frame
      BY DEF IInv, TypeOK
    <3> QED
      BY <3>1 DEF IInv, Chained, Frame
  <2>4. TrailersFrame.from = read /\ TrailersFrame.to = read /\ read' = read
    BY DEF TrailersFrame
  <2>5. read \in Nat /\ Len(buffered) \in Nat
    BY DEF IInv, TypeOK
  <2>6. \A i \in 1..Len(buffered') :
           /\ buffered'[i].from <= buffered'[i].to /\ buffered'[i].to <= read'
           /\ buffered'[i].trailers => buffered'[i].from = buffered'[i].to
    BY <2>1, <2>3, <2>4, <2>5
  <2>7. \A i \in 1..(Len(buffered') - 1) : buffered'[i].to = buffered'[i + 1].from
    BY <2>1, <2>4, <2>5 DEF IInv, TypeOK, Chained
  <2>8. buffered'[1].from = delivered'
    BY <2>1, <2>2, <2>4, <2>5 DEF IInv, TypeOK, Chained
  <2> QED
    BY <2>1, <2>4, <2>5, <2>6, <2>7, <2>8 DEF Chained
<1>6. AtPrefetch' /\ AtPrefix' /\ AtScan' /\ AtBody'
  <2>1. buffered' # << >>
    BY DEF IInv, TypeOK
  <2> QED
    BY <1>2, <1>3, <2>1 DEF IInv, TypeOK, AtPrefetch, AtPrefix, AtScan, AtBody
<1> QED
  BY <1>1, <1>2, <1>3, <1>4, <1>5, <1>6
     DEF IInv, FirstMessageCheckedBeforeCall

(* A read error, the end of the body or a stall moves no byte.             *)
LEMMA PrefetchStopsStep ==
    ASSUME IInv, PrefetchError \/ PrefetchEnd \/ ClientStalls
    PROVE  IInv'
<1> USE DEF PrefetchError, PrefetchEnd, ClientStalls, BodyEnded, wire
<1>1. TypeOK'
  BY DEF IInv, TypeOK
<1>2. ScanShape' /\ InStep' /\ (Poisoned' <=> Poisoned)
  BY ScanUnmoved
<1>3. AfterError' /\ Chained'
  BY <1>2 DEF IInv, AfterError, Chained, Oversize
<1>4. pc = "prefetch" => ~Poisoned /\ ~called
  BY FreshScanFacts DEF IInv, AtPrefetch, Poisoned
<1>5. AtPrefetch' /\ AtScan'
  BY <1>2 DEF IInv, TypeOK, AtPrefetch, AtScan
<1>6. AtPrefix'
  <2>1. CASE PrefetchEnd
    <3>1. buffered # << >> => buffered[1].from = 0
      BY <2>1, <1>4 DEF IInv, AtPrefetch, Chained
    <3> QED
      BY <2>1, <1>2, <1>4, <3>1 DEF IInv, TypeOK, AtPrefix, AtPrefetch
  <2>2. CASE PrefetchError \/ ClientStalls
    BY <2>2, <1>2 DEF IInv, TypeOK, AtPrefix, AtPrefetch
  <2> QED
    BY <2>1, <2>2
<1>7. AtBody'
  BY <1>2, <1>4 DEF IInv, TypeOK, AtBody, AtPrefetch
<1> QED
  BY <1>1, <1>2, <1>3, <1>5, <1>6, <1>7
     DEF IInv, FirstMessageCheckedBeforeCall, Oversize

(* The prefix scan takes the next prefetched frame where it stopped.       *)
LEMMA PrefixFrameStep ==
    ASSUME IInv, PrefixFrame
    PROVE  IInv'
<1> USE DEF PrefixFrame, wire
<1>1. buffered[next] \in Frame /\ next \in 1..Len(buffered)
  BY DEF IInv, TypeOK
<1>2. pos = buffered[next].from /\ ~called /\ ~Poisoned
  BY DEF IInv, AtPrefix
<1>3. TypeOK'
  <2>1. TypeOK /\ Len(buffered) \in Nat
    BY DEF IInv, TypeOK
  <2>2. UNCHANGED <<body, starts, src, read, buffered, scan, called, delivered,
                    answer>>
    OBVIOUS
  <2>3. next' \in Nat \ {0} /\ chunk' \in Frame /\ pos' \in Nat
    <3>1. next \in Nat \ {0} /\ chunk \in Frame /\ pos \in Nat
      BY <2>1 DEF TypeOK
    <3>2. buffered[next].from \in Nat
      BY <1>1 DEF Frame
    <3> QED
      BY <1>1, <3>1, <3>2
  <2>4. pc' \in {"prefix", "scan"}
    OBVIOUS
  <2> QED
    BY ONLY <2>1, <2>2, <2>3, <2>4, <1>1 DEF TypeOK
<1>4. pos' = pos
  BY <1>2
<1>5. ScanShape' /\ InStep' /\ (Poisoned' <=> Poisoned)
  BY <1>4, ScanUnmoved
<1>6. AfterError' /\ Chained' /\ AtPrefetch' /\ AtBody'
  BY <1>5, <1>2 DEF IInv, AfterError, Chained, AtPrefetch, AtBody
<1>7. AtPrefix'
  <2>1. CASE buffered[next].trailers
    <3>1. pos = buffered[next].to
      BY <1>1, <1>2, <2>1 DEF IInv, Chained
    <3>2. CASE next < Len(buffered)
      <4>1. buffered[next].to = buffered[next + 1].from
        BY <1>1, <3>2 DEF IInv, TypeOK, Chained
      <4> QED
        BY <1>1, <1>2, <1>5, <2>1, <3>1, <3>2, <4>1 DEF IInv, TypeOK, AtPrefix
    <3>3. CASE next = Len(buffered)
      BY <1>1, <1>2, <1>5, <2>1, <3>1, <3>3 DEF IInv, TypeOK, AtPrefix, Chained
    <3> QED
      BY <1>1, <3>2, <3>3
  <2>2. CASE ~buffered[next].trailers
    BY <2>2, <1>2, <1>5 DEF IInv, AtPrefix
  <2> QED
    BY <2>1, <2>2
<1>8. AtScan'
  <2>1. CASE buffered[next].trailers
    <3>1. pc' # "scan"
      BY <2>1
    <3> QED
      BY <3>1 DEF AtScan
  <2>2. CASE ~buffered[next].trailers
    <3>1. /\ buffered[next].from <= buffered[next].to
          /\ buffered[next].to <= read
      BY <1>1 DEF IInv, Chained
    <3>2. /\ chunk' = buffered[next] /\ pos' = buffered[next].from
          /\ UNCHANGED <<read, called, buffered, next>>
      BY <2>2
    <3>3. buffered[next].from \in Nat /\ next <= Len(buffered)
      BY <1>1 DEF Frame
    <3> QED
      BY ONLY <1>2, <3>1, <3>2, <3>3 DEF AtScan
  <2> QED
    BY <2>1, <2>2
<1> QED
  BY <1>2, <1>3, <1>5, <1>6, <1>7, <1>8
     DEF IInv, FirstMessageCheckedBeforeCall

(* The inner service is called with everything prefetched scanned.         *)
LEMMA CallInnerStep ==
    ASSUME IInv, WireInv, CallInner
    PROVE  IInv'
<1> USE DEF CallInner, ScanForRest, wire
<1>1. TypeOK'
  BY DEF IInv, TypeOK
<1>2. ScanShape' /\ InStep' /\ (Poisoned' <=> Poisoned)
  BY ScanUnmoved
<1>3. ~Poisoned /\ ~called /\ delivered = 0 /\ pos = read
  BY DEF IInv, TypeOK, AtPrefix, AtPrefetch
<1>4. AfterError' /\ Chained'
  BY <1>2 DEF IInv, AfterError, Chained, Oversize
<1>5. AtPrefetch' /\ AtPrefix' /\ AtScan' /\ AtBody'
  <2>1. buffered = << >> => read = 0
    BY <1>3 DEF IInv, AtPrefetch
  <2> QED
    BY <1>2, <1>3, <2>1 DEF IInv, AtPrefetch, AtPrefix, AtScan, AtBody
<1>6. ~Oversize(0)
  <2>1. CASE read >= HeaderLen
    <3>1. 0 < HeaderAt
      <4>1. scan \in ScanState /\ Len(scan.hdr) \in Nat /\ scan.rem \in Nat
        BY LenProperties DEF IInv, TypeOK, ScanState
      <4>2. Len(scan.hdr) < HeaderLen
        BY <4>1, <1>3, HeaderLenAssumption DEF IInv, ScanShape, Poisoned
      <4> QED
        BY <4>1, <4>2, <2>1, <1>3, HeaderLenAssumption
           DEF HeaderAt, IInv, TypeOK
    <3>2. 0 \in starts
      BY StartsAreClosed DEF WireInv, IInv, TypeOK, FramingClosed
    <3> QED
      BY <3>1, <3>2, <1>3 DEF IInv, InStep
  <2>2. CASE read < HeaderLen
    BY <2>2, <1>3, HeaderLenAssumption
       DEF IInv, TypeOK, AtPrefix, Oversize, HasHeader
  <2> QED
    BY <2>1, <2>2, HeaderLenAssumption DEF IInv, TypeOK
<1> QED
  BY <1>1, <1>2, <1>4, <1>5, <1>6
     DEF IInv, FirstMessageCheckedBeforeCall, Oversize

(* Replaying a prefetched frame delivers the next bytes of the body.       *)
LEMMA PollBufferedStep ==
    ASSUME IInv, PollBuffered
    PROVE  IInv'
<1> USE DEF PollBuffered, wire
<1>1. called /\ ~Poisoned /\ pos = read
  BY DEF IInv, AtBody
<1>2. /\ buffered' \in Seq(Frame) /\ Len(buffered') = Len(buffered) - 1
      /\ \A i \in 1..Len(buffered') : buffered'[i] = buffered[i + 1]
      /\ Head(buffered) = buffered[1] /\ buffered[1] \in Frame
      /\ Len(buffered) \in Nat \ {0}
  BY HeadTailProperties DEF IInv, TypeOK
<1>3. /\ buffered[1].from = delivered /\ delivered \in Nat /\ read \in Nat
      /\ buffered[1].from \in Nat /\ buffered[1].to \in Nat
      /\ delivered <= buffered[1].to
  BY <1>2 DEF IInv, TypeOK, Chained, Frame
<1>4. delivered' = buffered[1].to /\ delivered' \in Nat
  BY <1>2, <1>3
<1>5. TypeOK'
  BY <1>2, <1>4 DEF IInv, TypeOK
<1>6. ScanShape' /\ InStep' /\ (Poisoned' <=> Poisoned)
  BY ScanUnmoved
<1>7. Chained'
  <2>1. \A i \in 1..Len(buffered') :
           /\ buffered'[i].from <= buffered'[i].to /\ buffered'[i].to <= read'
           /\ buffered'[i].trailers => buffered'[i].from = buffered'[i].to
    BY <1>2 DEF IInv, Chained
  <2>2. \A i \in 1..(Len(buffered') - 1) : buffered'[i].to = buffered'[i + 1].from
    BY <1>2 DEF IInv, Chained
  <2>3. buffered' # << >> => /\ buffered'[1].from = delivered'
                            /\ buffered'[Len(buffered')].to = read'
    <3>1. buffered' # << >> => Len(buffered') > 0
      BY <1>2
    <3>2. Len(buffered') > 0 =>
             /\ buffered'[1] = buffered[2] /\ buffered[1].to = buffered[2].from
             /\ buffered'[Len(buffered')] = buffered[Len(buffered)]
      BY <1>2 DEF IInv, Chained
    <3> QED
      BY <1>2, <1>4, <3>1, <3>2 DEF IInv, Chained
  <2> QED
    BY <2>1, <2>2, <2>3 DEF Chained
<1>8. AfterError' /\ AtPrefetch' /\ AtPrefix' /\ AtScan'
  BY <1>1, <1>6 DEF IInv, AfterError, AtPrefetch, AtPrefix, AtScan
<1>9. AtBody'
  <2>1. buffered' = << >> => delivered' = read'
    <3>1. buffered' = << >> => Len(buffered) = 1
      <4>1. buffered' = << >> => Len(buffered') = 0
        BY EmptySeq
      <4> QED
        BY <4>1, <1>2
    <3> QED
      BY <3>1, <1>4 DEF IInv, Chained
  <2> QED
    BY <1>1, <1>6, <2>1 DEF IInv, AtBody
<1> QED
  BY <1>5, <1>6, <1>7, <1>8, <1>9 DEF IInv, FirstMessageCheckedBeforeCall, Oversize

(* A frame polled from the rest of the body begins where the scan is.      *)
LEMMA PollRestStep ==
    ASSUME IInv, (\E n \in 0..(Len(body) - read) : PollRestData(n)) \/ PollRestOther
    PROVE  IInv'
<1>1. CASE PollRestOther
  <2> USE <1>1 DEF PollRestOther, BodyEnded, wire
  <2>1. TypeOK'
    BY DEF IInv, TypeOK
  <2>2. ScanShape' /\ InStep' /\ (Poisoned' <=> Poisoned)
    BY ScanUnmoved
  <2>3. AfterError' /\ Chained' /\ AtScan' /\ AtBody'
    BY <2>2 DEF IInv, AfterError, Chained, AtScan, AtBody, Oversize
  <2>4. AtPrefetch' /\ AtPrefix'
    BY <2>2 DEF IInv, AtBody, AtPrefetch, AtPrefix
  <2> QED
    BY <2>1, <2>2, <2>3, <2>4 DEF IInv, FirstMessageCheckedBeforeCall, Oversize
<1>2. ASSUME NEW n \in 0..(Len(body) - read), PollRestData(n)
      PROVE  IInv'
  <2> USE <1>2 DEF PollRestData, wire
  <2>1. called /\ read \in Nat /\ n \in Nat /\ chunk' = DataFrame(n)
    BY DEF IInv, TypeOK, AtBody
  <2>2. TypeOK'
    BY <2>1 DEF IInv, TypeOK, DataFrame, Frame
  <2>3. Poisoned \/ pos' = pos
    BY DEF IInv, AtBody
  <2>4. ScanShape' /\ InStep' /\ (Poisoned' <=> Poisoned)
    BY <2>3, ScanUnmoved
  <2>5. AfterError' /\ Chained' /\ AtPrefetch' /\ AtPrefix'
    BY <2>1, <2>4 DEF IInv, AfterError, Chained, Oversize, AtPrefetch, AtPrefix
  <2>6. AtScan'
    <3>1. ~Poisoned => delivered = read
      BY DEF IInv, AtBody
    <3> QED
      BY <2>1, <2>4, <3>1 DEF AtScan, DataFrame
  <2>7. AtBody'
    BY <2>1, <2>4 DEF IInv, AtBody
  <2> QED
    BY <2>2, <2>4, <2>5, <2>6, <2>7 DEF IInv, FirstMessageCheckedBeforeCall, Oversize
<1> QED
  BY <1>1, <1>2

(* A scanned frame is delivered, or passed over by the prefix scan.        *)
LEMMA ScanReturnsStep ==
    ASSUME IInv, ScanReturns
    PROVE  IInv'
<1> USE DEF ScanReturns, wire
<1>1. /\ chunk.from \in Nat /\ chunk.to \in Nat /\ chunk.from <= chunk.to
      /\ NoChunk \in Frame /\ delivered \in Nat /\ next \in Nat /\ read \in Nat
  BY DEF IInv, TypeOK, Frame, AtScan, NoChunk
<1>2. ScanShape' /\ InStep' /\ (Poisoned' <=> Poisoned)
  BY ScanUnmoved
<1>3. CASE called
  <2>1. delivered' = IF Poisoned THEN delivered ELSE read
    BY <1>1, <1>3 DEF IInv, AtScan
  <2>2. TypeOK'
    BY <1>1, <1>3, <2>1 DEF IInv, TypeOK
  <2>3. buffered = << >> /\ Len(buffered) = 0
    BY <1>3, EmptySeq DEF IInv, AtScan
  <2>4. AfterError'
    BY <1>2, <2>1 DEF IInv, AfterError, Oversize
  <2>5. Chained'
    BY <2>3 DEF Chained
  <2>6. AtPrefetch' /\ AtPrefix' /\ AtScan'
    BY <1>3 DEF IInv, AtPrefetch, AtPrefix, AtScan
  <2>7. AtBody'
    BY <1>1, <1>2, <1>3, <2>1, <2>3 DEF IInv, AtBody, AtScan
  <2> QED
    BY <1>2, <2>2, <2>4, <2>5, <2>6, <2>7
       DEF IInv, FirstMessageCheckedBeforeCall, Oversize
<1>4. CASE ~called
  <2>1. TypeOK'
    BY <1>1, <1>4 DEF IInv, TypeOK
  <2>2. next \in 1..Len(buffered) /\ pos = buffered[next].to /\ ~Poisoned
    BY <1>4 DEF IInv, TypeOK, AtScan, AtPrefix
  <2>3. AfterError' /\ Chained' /\ AtPrefetch' /\ AtScan' /\ AtBody'
    BY <1>2, <1>4 DEF IInv, AfterError, Chained, AtPrefetch, AtScan, AtBody, Oversize
  <2>4. AtPrefix'
    <3>1. CASE next < Len(buffered)
      <4>1. buffered[next].to = buffered[next + 1].from
        BY <2>2, <3>1 DEF IInv, TypeOK, Chained
      <4> QED
        BY <1>2, <1>4, <2>2, <3>1, <4>1 DEF IInv, TypeOK, AtPrefix
    <3>2. CASE next = Len(buffered)
      BY <1>2, <1>4, <2>2, <3>2 DEF IInv, TypeOK, AtPrefix, Chained
    <3> QED
      BY <2>2, <3>1, <3>2
  <2> QED
    BY <1>2, <1>4, <2>1, <2>3, <2>4
       DEF IInv, FirstMessageCheckedBeforeCall, Oversize
<1> QED
  BY <1>3, <1>4

(* Skipping payload never passes the place of the next header.             *)
LEMMA ScanPayloadStep ==
    ASSUME IInv, ScanPayload
    PROVE  IInv'
<1> DEFINE take == Least(scan.rem, chunk.to - pos)
<1> USE DEF ScanPayload, wire
<1>1. /\ scan \in ScanState /\ scan.rem \in Nat /\ scan.mode = "payload"
      /\ chunk.to \in Nat /\ chunk.from \in Nat /\ pos \in Nat
      /\ read \in Nat /\ Len(body) \in Nat /\ read <= Len(body)
      /\ chunk.from <= pos /\ chunk.to <= read /\ pos < chunk.to
  BY DEF IInv, TypeOK, ScanState, Frame, AtScan
<1>2. take \in Nat /\ take <= scan.rem /\ pos + take <= chunk.to
  BY <1>1 DEF Least
<1>3. ~Poisoned /\ Len(scan.hdr) = 0
  BY <1>1, EmptySeq, HeaderLenAssumption DEF IInv, ScanShape, Poisoned
<1>4. pos' = pos + take /\ scan' = AfterPayload(scan.rem - take)
  OBVIOUS
<1> HIDE DEF take
<1>5. /\ scan' \in ScanState /\ ScanShape'
      /\ Len(scan'.hdr) = 0 /\ scan'.hdr = << >>
      /\ HeaderAt' = HeaderAt
  <2>1. CASE scan.rem - take = 0
    <3>1. scan' = FreshScan
      BY <1>4, <2>1 DEF AfterPayload
    <3>2. scan'.mode = "header" /\ scan'.hdr = << >> /\ Len(scan'.hdr) = 0
      BY <3>1, FreshScanFacts
    <3> QED
      BY <1>1, <1>2, <1>4, <2>1, <3>1, <3>2, FreshScanFacts, HeaderLenAssumption
         DEF ScanShape, HeaderAt
  <2>2. CASE scan.rem - take # 0
    <3>1. scan' = InPayload(scan.rem - take)
      BY <1>4, <2>2 DEF AfterPayload
    <3>2. scan'.mode = "payload" /\ scan'.hdr = << >> /\ scan'.rem = scan.rem - take
      BY <1>1, <1>2, <3>1, InPayloadFacts
    <3>3. Len(scan'.hdr) = 0 /\ scan' \in ScanState
      BY <1>1, <1>2, <3>1, InPayloadFacts
    <3> QED
      BY <1>1, <1>2, <1>4, <3>2, <3>3, HeaderLenAssumption DEF ScanShape, HeaderAt
  <2> QED
    BY <2>1, <2>2
<1>6. ~Poisoned'
  BY <1>5, HeaderLenAssumption DEF Poisoned
<1>7. TypeOK'
  BY <1>1, <1>2, <1>4, <1>5 DEF IInv, TypeOK
<1>8. InStep'
  <2>1. pos' \in Nat /\ pos' <= Len(body')
    BY <1>1, <1>2, <1>4
  <2>2. scan'.hdr = SubSeq(body', pos' - Len(scan'.hdr) + 1, pos')
    <3>1. SubSeq(body', pos' + 1, pos') = << >>
      BY <2>1, SubSeqEmpty
    <3>2. pos' - Len(scan'.hdr) + 1 = pos' + 1
      BY <1>5, <2>1
    <3> QED
      BY <1>5, <3>1, <3>2
  <2>3. /\ HeaderAt' \in starts' \/ HeaderAt' > Len(body')
        /\ \A q \in starts' : q < HeaderAt' =>
              /\ HasHeader(body', q) /\ ~Oversize(q)
              /\ NextStart(body', q) <= HeaderAt'
    BY <1>3, <1>5 DEF IInv, InStep
  <2> QED
    BY <1>5, <2>1, <2>2, <2>3 DEF InStep, Oversize
<1>9. AfterError' /\ Chained' /\ AtPrefetch' /\ AtPrefix' /\ AtBody'
  BY <1>3, <1>6 DEF IInv, AfterError, Chained, AtPrefetch, AtPrefix, AtBody
<1>10. AtScan'
  BY <1>1, <1>2, <1>3, <1>4, <1>6 DEF IInv, AtScan
<1> QED
  BY <1>5, <1>7, <1>8, <1>9, <1>10
     DEF IInv, FirstMessageCheckedBeforeCall, Oversize

(* A scan state with other header bytes keeps its mode and remainder.      *)
LEMMA WithHeader ==
    ASSUME NEW s \in ScanState, NEW h \in Seq(Byte)
    PROVE  /\ [s EXCEPT !.hdr = h] \in ScanState
           /\ [s EXCEPT !.hdr = h].hdr = h
           /\ [s EXCEPT !.hdr = h].mode = s.mode
           /\ [s EXCEPT !.hdr = h].rem = s.rem
BY DEF ScanState

(* The two sides of the min() in the scan loop.                            *)
LEMMA LeastBounds ==
    ASSUME NEW a \in Nat, NEW b \in Nat
    PROVE  Least(a, b) \in Nat /\ Least(a, b) <= a /\ Least(a, b) <= b
BY DEF Least

(* The bytes an iteration in Header has buffered are contiguous in the     *)
(* body.                                                                   *)
LEMMA HeaderBytes ==
    ASSUME NEW b \in Seq(Byte), NEW p \in Nat, NEW n \in Nat, NEW k \in Nat,
           k <= p, p + n <= Len(b)
    PROVE  /\ SubSeq(b, p + 1, p + n) \in Seq(Byte)
           /\ Len(SubSeq(b, p + 1, p + n)) = n
           /\ SubSeq(b, p - k + 1, p) \o SubSeq(b, p + 1, p + n)
                = SubSeq(b, p - k + 1, p + n)
<1>1. Len(b) \in Nat
  BY LenProperties
<1>2. \A i \in (p + 1)..(p + n) : b[i] \in Byte
  BY <1>1
<1>3. /\ SubSeq(b, p + 1, p + n) \in Seq(Byte)
      /\ Len(SubSeq(b, p + 1, p + n)) = n
  <2>1. (p + n) - (p + 1) + 1 = n /\ (p + 1 <= p + n <=> n # 0)
    OBVIOUS
  <2>2. /\ SubSeq(b, p + 1, p + n) \in Seq(Byte)
        /\ Len(SubSeq(b, p + 1, p + n)) =
              IF p + 1 <= p + n THEN (p + n) - (p + 1) + 1 ELSE 0
    <3>1. p + 1 \in Int /\ p + n \in Int
      OBVIOUS
    <3> QED
      BY <1>2, <3>1, SubSeqProperties
  <2> QED
    BY <2>1, <2>2
<1>4. /\ p - k + 1 \in 1..(Len(b) + 1)
      /\ p \in ((p - k + 1) - 1)..Len(b)
      /\ p + n \in p..Len(b)
  BY <1>1
<1> QED
  BY <1>3, <1>4, ConcatAdjacentSubSeq

(* The iteration that matters: a header is completed, accepted or refused. *)
LEMMA ScanHeaderStep ==
    ASSUME IInv, WireInv, ScanHeader
    PROVE  IInv'
<1> DEFINE n0 == Len(scan.hdr)
           take == Least(HeaderLen - n0, chunk.to - pos)
           hdr == scan.hdr \o SubSeq(body, pos + 1, pos + take)
<1>1. /\ \/ /\ Len(hdr) < HeaderLen
            /\ scan' = [scan EXCEPT !.hdr = hdr] /\ pos' = pos + take
            /\ UNCHANGED <<chunk, answer, pc>>
         \/ /\ Len(hdr) = HeaderLen /\ ~TooLarge(DeclaredLen(hdr))
            /\ scan' = InPayload(DeclaredLen(hdr)) /\ pos' = pos + take
            /\ UNCHANGED <<chunk, answer, pc>>
         \/ /\ Len(hdr) = HeaderLen /\ TooLarge(DeclaredLen(hdr))
            /\ scan' = AfterReject(hdr) /\ pos' = pos + take
            /\ chunk' = NoChunk /\ answer' = "oversize"
            /\ pc' = IF called THEN "body" ELSE "done"
      /\ UNCHANGED <<wire, src, read, buffered, next, called, delivered>>
  BY DEF ScanHeader
<1>2. pc = "scan" /\ pos < chunk.to /\ scan.mode = "header"
  BY DEF ScanHeader
<1>3. /\ scan \in ScanState /\ scan.hdr \in Seq(Byte) /\ n0 \in Nat
      /\ scan.rem \in Nat
  BY LenProperties DEF IInv, TypeOK, ScanState
<1>4. /\ chunk.to \in Nat /\ chunk.from \in Nat /\ pos \in Nat
      /\ read \in Nat /\ Len(body) \in Nat /\ read <= Len(body)
      /\ chunk.from <= pos /\ chunk.to <= read
      /\ body \in Seq(Byte) /\ starts \subseteq 0..Len(body)
      /\ HeaderLen \in Nat \ {0}
  BY <1>2, HeaderLenAssumption DEF IInv, TypeOK, Frame, AtScan
<1>5. n0 <= HeaderLen
  BY DEF IInv, ScanShape
<1> HIDE DEF n0
<1>6. take \in Nat /\ take <= HeaderLen - n0 /\ pos + take <= chunk.to
  <2>1. HeaderLen - n0 \in Nat /\ chunk.to - pos \in Nat
    BY <1>2, <1>3, <1>4, <1>5
  <2>2. take \in Nat /\ take <= HeaderLen - n0 /\ take <= chunk.to - pos
    BY <2>1, LeastBounds
  <2> HIDE DEF take
  <2> QED
    BY <2>2, <1>3, <1>4
<1> HIDE DEF take
<1>7. hdr \in Seq(Byte) /\ Len(hdr) = n0 + take
  <2>1. /\ SubSeq(body, pos + 1, pos + take) \in Seq(Byte)
        /\ Len(SubSeq(body, pos + 1, pos + take)) = take
    <3>1. pos + take <= Len(body)
      BY <1>4, <1>6
    <3>2. 0 \in Nat /\ 0 <= pos
      BY <1>4
    <3> QED
      BY <1>4, <1>6, <3>1, <3>2, HeaderBytes
  <2> QED
    BY <1>3, <2>1, ConcatProperties DEF n0
<1>8. ~Poisoned => /\ HeaderAt = pos - n0 /\ HeaderAt \in starts
                   /\ n0 <= pos /\ n0 < HeaderLen
                   /\ \A q \in starts : q < HeaderAt =>
                         /\ HasHeader(body, q) /\ ~Oversize(q)
                         /\ NextStart(body, q) <= HeaderAt
  <2> SUFFICES ASSUME ~Poisoned
               PROVE  /\ HeaderAt = pos - n0 /\ HeaderAt \in starts
                      /\ n0 <= pos /\ n0 < HeaderLen
                      /\ \A q \in starts : q < HeaderAt =>
                            /\ HasHeader(body, q) /\ ~Oversize(q)
                            /\ NextStart(body, q) <= HeaderAt
    OBVIOUS
  <2>1. HeaderAt = pos - n0 /\ n0 # HeaderLen
    BY <1>2 DEF HeaderAt, Poisoned, n0
  <2>2. n0 <= pos
    BY <1>2 DEF IInv, InStep, n0
  <2>3. HeaderAt \in starts
    <3>1. HeaderAt \in starts \/ HeaderAt > Len(body)
      BY DEF IInv, InStep
    <3> QED
      BY <3>1, <2>1, <1>2, <1>3, <1>4
  <2>4. \A q \in starts : q < HeaderAt =>
           /\ HasHeader(body, q) /\ ~Oversize(q)
           /\ NextStart(body, q) <= HeaderAt
    BY DEF IInv, InStep
  <2> QED
    BY <2>1, <2>2, <2>3, <2>4, <1>3, <1>4, <1>5
<1>9. ~Poisoned => hdr = SubSeq(body, pos - n0 + 1, pos + take)
  <2>1. ~Poisoned => scan.hdr = SubSeq(body, pos - n0 + 1, pos)
    BY <1>2 DEF IInv, InStep, n0
  <2>2. ~Poisoned => n0 <= pos /\ pos + take <= Len(body)
    BY <1>4, <1>6, <1>8
  <2>3. ASSUME n0 <= pos, pos + take <= Len(body)
        PROVE  SubSeq(body, pos - n0 + 1, pos) \o SubSeq(body, pos + 1, pos + take)
                 = SubSeq(body, pos - n0 + 1, pos + take)
    BY <2>3, <1>3, <1>4, <1>6, HeaderBytes
  <2> QED
    BY <2>1, <2>2, <2>3
<1> HIDE DEF hdr
<1>10. CASE Len(hdr) < HeaderLen
  <2>1. /\ scan' = [scan EXCEPT !.hdr = hdr] /\ pos' = pos + take
        /\ UNCHANGED <<chunk, answer, pc>>
    BY <1>1, <1>10
  <2>2. /\ scan' \in ScanState /\ scan'.hdr = hdr /\ scan'.mode = "header"
        /\ pos' \in Nat /\ pos' <= chunk.to /\ pos <= pos'
    <3>1. /\ scan' \in ScanState /\ scan'.hdr = hdr /\ scan'.mode = "header"
      BY <1>2, <1>3, <1>7, <2>1, WithHeader
    <3>2. pos' \in Nat /\ pos' <= chunk.to /\ pos <= pos'
      BY <1>4, <1>6, <2>1
    <3> QED
      BY <3>1, <3>2
  <2>3. ~Poisoned /\ ~Poisoned'
    BY <1>3, <1>4, <1>6, <1>7, <1>10, <2>2 DEF Poisoned, n0
  <2>4. TypeOK' /\ ScanShape'
    <3>1. TypeOK'
      BY <1>1, <2>1, <2>2 DEF IInv, TypeOK, wire
    <3>2. Len(scan'.hdr) <= HeaderLen
      BY <1>3, <1>4, <1>6, <1>7, <1>10, <2>2
    <3> QED
      BY <2>2, <3>1, <3>2 DEF ScanShape
  <2>5. HeaderAt' = HeaderAt
    <3>1. Len(scan'.hdr) = n0 + take
      BY <1>7, <2>2
    <3> QED
      BY <1>3, <1>4, <1>6, <1>8, <2>1, <2>2, <2>3, <3>1 DEF HeaderAt
  <2>6. InStep'
    <3>1. pos' - Len(scan'.hdr) = pos - n0
      BY <1>3, <1>4, <1>6, <1>7, <2>1, <2>2
    <3>2. scan'.hdr = SubSeq(body', pos' - Len(scan'.hdr) + 1, pos')
      BY <1>1, <1>9, <2>1, <2>2, <2>3, <3>1 DEF wire
    <3>3. pos' <= Len(body') /\ Len(scan'.hdr) <= pos'
      <4>1. pos' <= Len(body)
        BY <1>4, <2>2
      <4>2. n0 + take <= pos + take
        BY <1>3, <1>4, <1>6, <1>8, <2>3
      <4> QED
        BY <1>1, <1>7, <2>1, <2>2, <4>1, <4>2 DEF wire
    <3> QED
      BY <1>1, <1>8, <2>3, <2>5, <3>2, <3>3 DEF InStep, Oversize, wire
  <2>7. AfterError' /\ Chained' /\ AtPrefetch' /\ AtPrefix' /\ AtBody'
    BY <1>1, <1>2, <2>1, <2>3
       DEF IInv, AfterError, Chained, AtPrefetch, AtPrefix, AtBody, wire
  <2>8. AtScan'
    BY <1>1, <1>4, <2>1, <2>2, <2>3 DEF IInv, AtScan
  <2> QED
    BY <1>1, <2>4, <2>6, <2>7, <2>8
       DEF IInv, FirstMessageCheckedBeforeCall, Oversize, wire
<1>11. CASE Len(hdr) = HeaderLen /\ ~TooLarge(DeclaredLen(hdr))
  <2> DEFINE h == HeaderAt
             len == DeclaredLen(hdr)
  <2>1. /\ scan' = InPayload(len) /\ pos' = pos + take
        /\ UNCHANGED <<chunk, answer, pc>>
    BY <1>1, <1>11
  <2>2. ~Poisoned
    <3> SUFFICES ASSUME Poisoned PROVE FALSE
      OBVIOUS
    <3>1. n0 = HeaderLen /\ take = 0
      BY <1>3, <1>4, <1>6 DEF Poisoned, n0
    <3>2. SubSeq(body, pos + 1, pos + take) = << >>
      BY <1>4, <3>1, SubSeqEmpty
    <3>3. hdr = scan.hdr
      BY <1>3, <3>2, ConcatEmptySeq DEF hdr
    <3> QED
      BY <1>11, <3>3 DEF IInv, AfterError
  <2>3. /\ h \in starts /\ h \in Nat /\ h = pos - n0 /\ pos + take = h + HeaderLen
        /\ hdr = Header(body, h) /\ HasHeader(body, h)
    <3>1. h \in starts /\ h = pos - n0 /\ n0 <= pos
      BY <1>8, <2>2
    <3>2. pos + take = h + HeaderLen /\ h \in Nat
      BY <1>3, <1>4, <1>6, <1>7, <1>11, <3>1
    <3>3. hdr = SubSeq(body, pos - n0 + 1, pos + take)
      BY <1>9, <2>2
    <3> HIDE DEF h
    <3>4. hdr = SubSeq(body, h + 1, h + HeaderLen)
      BY <3>1, <3>2, <3>3
    <3>5. h + HeaderLen <= Len(body)
      BY <1>4, <1>6, <3>2
    <3> QED
      BY <3>1, <3>2, <3>4, <3>5 DEF Header, HasHeader
  <2>4. /\ len \in Nat /\ NextStart(body, h) = h + HeaderLen + len
        /\ NextStart(body, h) \in Nat
    BY <1>4, <2>3, NextStartIsLater DEF NextStart
  <2>5. /\ scan' \in ScanState /\ scan'.mode = "payload" /\ scan'.hdr = << >>
        /\ scan'.rem = len /\ Len(scan'.hdr) = 0
    BY <2>1, <2>4, InPayloadFacts
  <2>6. ~Poisoned' /\ ScanShape'
    BY <1>4, <2>5 DEF Poisoned, ScanShape
  <2>7. HeaderAt' = NextStart(body, h)
    BY <1>4, <1>6, <2>1, <2>3, <2>4, <2>5 DEF HeaderAt
  <2>8. pos' \in Nat /\ pos' <= chunk.to /\ pos <= pos' /\ TypeOK'
    BY <1>1, <1>4, <1>6, <2>1, <2>5 DEF IInv, TypeOK, wire
  <2>9. NextStart(body, h) \in starts \/ NextStart(body, h) > Len(body)
    BY <1>4, <2>3, <2>4, StartsAreClosed DEF WireInv, FramingClosed
  <2>10. ASSUME NEW q \in starts, q < NextStart(body, h)
         PROVE  /\ HasHeader(body, q) /\ ~Oversize(q)
                /\ NextStart(body, q) <= NextStart(body, h)
    <3>1. q \in Nat
      BY <1>4
    <3>2. q <= h
      BY <1>4, <1>8, <2>2, <2>3, <2>10, NoStartInside DEF WireInv
    <3>3. CASE q = h
      <4>1. ~Oversize(h)
        BY <1>11, <2>3 DEF Oversize, TooLarge
      <4> QED
        BY <2>3, <2>4, <3>3, <4>1
    <3>4. CASE q < h
      <4>1. HasHeader(body, q) /\ ~Oversize(q) /\ NextStart(body, q) <= h
        BY <1>8, <2>2, <3>4
      <4>2. NextStart(body, q) \in Nat
        BY <1>4, <3>1, <4>1, NextStartIsLater
      <4> HIDE DEF h
      <4> QED
        BY <1>4, <2>3, <2>4, <4>1, <4>2
    <3> QED
      BY <2>3, <3>1, <3>2, <3>3, <3>4
  <2>11. InStep'
    <3>1. pos' <= Len(body')
      BY <1>1, <1>4, <2>8 DEF wire
    <3> QED
      BY <1>1, <2>5, <2>7, <2>9, <2>10, <3>1 DEF InStep, Oversize, wire
  <2>12. AfterError' /\ Chained' /\ AtPrefetch' /\ AtPrefix' /\ AtBody'
    BY <1>1, <1>2, <2>1, <2>2, <2>6
       DEF IInv, AfterError, Chained, AtPrefetch, AtPrefix, AtBody, wire
  <2>13. AtScan'
    BY <1>1, <1>4, <2>1, <2>2, <2>6, <2>8 DEF IInv, AtScan
  <2> QED
    BY <1>1, <2>6, <2>8, <2>11, <2>12, <2>13
       DEF IInv, FirstMessageCheckedBeforeCall, Oversize, wire
<1>12. CASE Len(hdr) = HeaderLen /\ TooLarge(DeclaredLen(hdr))
  <2>1. /\ scan' = AfterReject(hdr) /\ pos' = pos + take /\ chunk' = NoChunk
        /\ answer' = "oversize" /\ pc' = IF called THEN "body" ELSE "done"
    BY <1>1, <1>12
  <2>2. /\ scan' \in ScanState /\ scan'.hdr = hdr /\ scan'.mode = "header"
        /\ pos' \in Nat
    <3>1. /\ scan' \in ScanState /\ scan'.hdr = hdr /\ scan'.mode = "header"
      BY <1>2, <1>3, <1>7, <2>1, WithHeader DEF AfterReject
    <3>2. pos' \in Nat
      BY <1>4, <1>6, <2>1
    <3> QED
      BY <3>1, <3>2
  <2>3. Poisoned' /\ ScanShape' /\ InStep'
    BY <1>4, <1>12, <2>2 DEF Poisoned, ScanShape, InStep
  <2>4. NoChunk \in Frame
    BY DEF NoChunk, Frame
  <2>5. TypeOK'
    BY <1>1, <2>1, <2>2, <2>4 DEF IInv, TypeOK, wire
  <2>6. AfterError'
    <3>1. CASE Poisoned
      BY <1>1, <1>12, <2>2, <3>1 DEF IInv, AfterError, Oversize, TooLarge, wire
    <3>2. CASE ~Poisoned
      <4> DEFINE h == HeaderAt
      <4>1. h \in starts /\ h \in Nat /\ h = pos - n0 /\ n0 < HeaderLen
        BY <1>3, <1>4, <1>8, <3>2
      <4>2. hdr = Header(body, h) /\ HasHeader(body, h)
        <5>1. pos + take = h + HeaderLen
          BY <1>3, <1>4, <1>6, <1>7, <1>12, <4>1
        <5>2. hdr = SubSeq(body, pos - n0 + 1, pos + take)
          BY <1>9, <3>2
        <5> HIDE DEF h
        <5>3. hdr = SubSeq(body, h + 1, h + HeaderLen)
          BY <4>1, <5>1, <5>2
        <5>4. h + HeaderLen <= Len(body)
          BY <1>4, <1>6, <5>1
        <5> QED
          BY <5>3, <5>4 DEF Header, HasHeader
      <4>3. Oversize(h)
        BY <1>12, <4>2 DEF Oversize, TooLarge
      <4>4. delivered \in Nat /\ delivered <= pos
        BY <1>2, <1>4, <3>2 DEF IInv, TypeOK, AtPrefetch, AtScan
      <4>5. ASSUME NEW p \in starts, Oversize(p)
            PROVE  delivered < p + HeaderLen
        <5>1. p \in Nat /\ ~(p < h)
          BY <1>4, <1>8, <3>2, <4>5
        <5> HIDE DEF h
        <5> QED
          BY <1>3, <1>4, <4>1, <4>4, <5>1
      <4> QED
        BY <1>1, <1>12, <2>2, <4>1, <4>3, <4>5 DEF AfterError, Oversize, TooLarge, wire
    <3> QED
      BY <3>1, <3>2
  <2>7. Chained' /\ AtPrefetch' /\ AtPrefix' /\ AtScan'
    BY <1>1, <1>2, <2>1 DEF IInv, Chained, AtPrefetch, AtPrefix, AtScan, wire
  <2>8. AtBody'
    BY <1>1, <1>2, <2>1, <2>3 DEF IInv, AtBody, AtScan
  <2> QED
    BY <1>1, <2>3, <2>5, <2>6, <2>7, <2>8
       DEF IInv, FirstMessageCheckedBeforeCall, Oversize, wire
<1> QED
  BY <1>3, <1>4, <1>6, <1>7, <1>10, <1>11, <1>12

(* Every step preserves the invariant: one of the lemmas above each.       *)
LEMMA StepIInv == WireInv /\ IInv /\ [Next]_vars => WireInv' /\ IInv'
<1> SUFFICES ASSUME WireInv, IInv, [Next]_vars PROVE WireInv' /\ IInv'
  OBVIOUS
<1>1. UNCHANGED wire
  BY DEF Next, Prefetch, Service, PollFrame, vars, wire,
         PrefetchData, PrefetchTrailers, PrefetchError, PrefetchEnd, ClientStalls,
         PrefixFrame, CallInner, ScanHeader, ScanPayload, ScanReturns,
         PollBuffered, PollRestData, PollRestOther
<1>2. WireInv'
  BY <1>1 DEF WireInv, wire
<1>3. CASE Prefetch
  BY <1>2, <1>3, PrefetchDataStep, PrefetchTrailersStep, PrefetchStopsStep DEF Prefetch
<1>4. CASE Service
  BY <1>2, <1>4, PrefixFrameStep, CallInnerStep, ScanHeaderStep, ScanPayloadStep,
     ScanReturnsStep DEF Service
<1>5. CASE PollFrame
  BY <1>2, <1>5, PollBufferedStep, PollRestStep DEF PollFrame
<1>6. CASE ClientStalls
  BY <1>2, <1>6, PrefetchStopsStep
<1>7. CASE UNCHANGED vars
  <2> USE <1>7 DEF vars, wire
  <2>1. ScanShape' /\ InStep' /\ (Poisoned' <=> Poisoned)
    BY ScanUnmoved
  <2>2. TypeOK'
    BY DEF IInv, TypeOK
  <2>3. AfterError' /\ Chained'
    BY <2>1 DEF IInv, AfterError, Chained, Oversize
  <2>4. AtPrefetch' /\ AtPrefix' /\ AtScan' /\ AtBody'
    BY <2>1 DEF IInv, AtPrefetch, AtPrefix, AtScan, AtBody
  <2>5. FirstMessageCheckedBeforeCall'
    BY DEF IInv, FirstMessageCheckedBeforeCall, Oversize
  <2> QED
    BY <1>2, <2>1, <2>2, <2>3, <2>4, <2>5 DEF IInv
<1> QED
  BY <1>3, <1>4, <1>5, <1>6, <1>7 DEF Next

-----------------------------------------------------------------------------
(* The inductive invariant holds in every reachable state.                 *)
THEOREM IInvHolds == Spec => [](WireInv /\ IInv)
<1>1. Init => WireInv /\ IInv
  BY InitIInv
<1>2. WireInv /\ IInv /\ [Next]_vars => (WireInv /\ IInv)'
  BY StepIInv
<1> QED
  BY <1>1, <1>2, PTL DEF Spec

(* Type correctness of the request service's state.                        *)
THEOREM TypeCorrect == Spec => []TypeOK
<1>1. IInv => TypeOK
  BY DEF IInv
<1> QED
  BY <1>1, IInvHolds, PTL

(* The strengthening implies that what was delivered stops short of the    *)
(* header of every oversized message: the scan is never more than a        *)
(* partial header behind what it let through.                              *)
LEMMA IInvBoundsDelivery == WireInv /\ IInv => OversizedNeverDelivered
<1> SUFFICES ASSUME WireInv, IInv, NEW p \in starts, Oversize(p)
             PROVE  delivered < p + HeaderLen
  BY DEF OversizedNeverDelivered
<1>1. p \in Nat /\ delivered \in Nat /\ HeaderLen \in Nat \ {0}
  BY HeaderLenAssumption DEF IInv, TypeOK
<1>2. CASE Poisoned
  BY <1>2 DEF IInv, AfterError
<1>3. CASE ~Poisoned
  <2>1. p >= HeaderAt
    <3>1. ~(p < HeaderAt)
      BY <1>3 DEF IInv, InStep
    <3>2. HeaderAt \in Int
      BY LenProperties DEF IInv, TypeOK, ScanState, HeaderAt
    <3> QED
      BY <1>1, <3>1, <3>2
  <2>2. /\ pos \in Nat /\ scan.rem \in Nat /\ Len(scan.hdr) \in Nat
        /\ Len(scan.hdr) < HeaderLen /\ scan.mode \in {"header", "payload"}
    <3>1. scan \in ScanState /\ pos \in Nat
      BY DEF IInv, TypeOK
    <3>2. Len(scan.hdr) \in Nat
      BY <3>1, LenProperties DEF ScanState
    <3> QED
      BY <1>1, <1>3, <3>1, <3>2 DEF IInv, ScanShape, Poisoned, ScanState
  <2>3. pos < HeaderAt + HeaderLen
    BY <1>1, <2>2 DEF HeaderAt
  <2>4. called => delivered <= pos
    <3>1. CASE pc = "scan" /\ called
      BY <1>3, <3>1 DEF IInv, AtScan
    <3>2. CASE pc = "body" /\ called
      <4>1. pos = read
        BY <1>3, <3>2 DEF IInv, AtBody
      <4>2. CASE buffered = << >>
        BY <1>1, <1>3, <3>2, <4>1, <4>2 DEF IInv, AtBody
      <4>3. CASE buffered # << >>
        <5>1. 1 \in 1..Len(buffered) /\ buffered[1] \in Frame
          BY <4>3, EmptySeq, ElementOfSeq DEF IInv, TypeOK
        <5>2. buffered[1].from = delivered /\ buffered[1].to \in Nat
          BY <4>3, <5>1 DEF IInv, Chained, Frame
        <5>3. delivered <= buffered[1].to /\ buffered[1].to <= read
          BY <5>1, <5>2 DEF IInv, Chained
        <5>4. read \in Nat
          BY DEF IInv, TypeOK
        <5> QED
          BY <1>1, <4>1, <5>2, <5>3, <5>4
      <4> QED
        BY <4>2, <4>3
    <3> QED
      BY <3>1, <3>2 DEF IInv, AtBody
  <2>5. ~called => delivered = 0
    BY DEF IInv, AtPrefetch
  <2>6. HeaderAt \in Int
    BY <2>2 DEF HeaderAt
  <2> QED
    BY <1>1, <2>1, <2>2, <2>3, <2>4, <2>5, <2>6
<1> QED
  BY <1>2, <1>3

(* No message over max_recv_message_size reaches the inner service, for    *)
(* every header length, limit and body, and however the frames cut the     *)
(* body.                                                                   *)
THEOREM NoOversizedDelivery == Spec => []OversizedNeverDelivered
BY IInvHolds, IInvBoundsDelivery, PTL

(* A first message over the limit is refused before the inner service is   *)
(* called, however its header is fragmented.                               *)
THEOREM FirstMessageChecked == Spec => []FirstMessageCheckedBeforeCall
<1>1. IInv => FirstMessageCheckedBeforeCall
  BY DEF IInv
<1> QED
  BY <1>1, IInvHolds, PTL

(* A rejected stream really carries a message that declares too much.      *)
THEOREM RejectionIsJustified == Spec => []NoFalseReject
<1>1. IInv => NoFalseReject
  BY DEF IInv, AtBody, AfterError, NoFalseReject
<1> QED
  BY <1>1, IInvHolds, PTL

(* After the rejection nothing more of the stream is delivered.            *)
THEOREM RejectionSticks == Spec => RejectionIsSticky
<1>1. IInv /\ [Next]_vars => [answer = "oversize" => delivered' = delivered]_vars
  <2> SUFFICES ASSUME IInv, Next, answer = "oversize" PROVE delivered' = delivered
    OBVIOUS
  <2>1. Poisoned /\ delivered \in Nat
    BY DEF IInv, TypeOK, AtBody
  <2>2. CASE ScanReturns
    <3>1. CASE called
      <4>1. chunk.to = chunk.from /\ chunk.from \in Nat
        BY <2>1, <2>2, <3>1 DEF ScanReturns, IInv, AtScan, TypeOK, Frame
      <4> QED
        BY <2>1, <2>2, <3>1, <4>1 DEF ScanReturns
    <3>2. CASE ~called
      BY <2>2, <3>2 DEF ScanReturns
    <3> QED
      BY <3>1, <3>2
  <2>3. CASE PollBuffered
    BY <2>1, <2>3 DEF PollBuffered, IInv, AtBody
  <2> QED
    BY <2>2, <2>3
       DEF Next, Prefetch, Service, PollFrame, PrefetchData, PrefetchTrailers,
           PrefetchError, PrefetchEnd, ClientStalls, PrefixFrame, CallInner,
           ScanHeader, ScanPayload, PollRestData, PollRestOther
<1> QED
  BY <1>1, IInvHolds, PTL DEF Spec, RejectionIsSticky

(* The inner service gets the client's bytes in order, without gap or      *)
(* overlap.                                                                *)
THEOREM ReplayInOrder == Spec => []ReplayIntact
<1>1. IInv => ReplayIntact
  <2> SUFFICES ASSUME IInv, ~Poisoned
               PROVE  /\ Pending = << >> => delivered = read
                      /\ Pending # << >> => /\ Pending[1].from = delivered
                                            /\ Pending[Len(Pending)].to = read
                      /\ \A i \in 1..(Len(Pending) - 1) :
                            Pending[i].to = Pending[i + 1].from
    BY DEF ReplayIntact
  <2>1. CASE called /\ pc = "scan"
    <3>1. Pending = <<chunk>> /\ Len(<<chunk>>) = 1 /\ <<chunk>>[1] = chunk
      BY <2>1 DEF Pending
    <3>2. chunk.from = delivered /\ chunk.to = read
      BY <2>1 DEF IInv, AtScan
    <3> QED
      BY <3>1, <3>2
  <2>2. CASE ~(called /\ pc = "scan")
    <3>1. Pending = buffered
      BY <2>2 DEF Pending
    <3>2. buffered = << >> => delivered = read
      BY <2>2 DEF IInv, AtPrefetch, AtBody
    <3> QED
      BY <3>1, <3>2 DEF IInv, Chained
  <2> QED
    BY <2>1, <2>2
<1> QED
  BY <1>1, IInvHolds, PTL

=============================================================================
