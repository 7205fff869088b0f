----------------------------- MODULE RecvLimit -----------------------------
(***************************************************************************)
(* The request side of MaxRecvMessageSizeService (src/server.rs): one      *)
(* request whose body is a byte stream of length-prefixed gRPC messages,   *)
(* cut into HTTP/2 DATA frames at arbitrary places.                        *)
(*                                                                         *)
(* The service prefetches frames until it has seen one whole message       *)
(* header, scans what it prefetched, and either answers itself or hands    *)
(* the inner service a body that replays the prefetched frames and scans   *)
(* every later one as it is polled.  The scan loop is modelled one         *)
(* iteration at a time, on the bytes the frames carry.                     *)
(***************************************************************************)
EXTENDS Integers, Sequences

CONSTANTS
    HeaderLen,        \* GRPC_FRAME_HEADER_LEN (5 in the code)
    MaxRecv,          \* max_recv_message_size
    Byte,             \* the values of a byte
    DeclaredLen(_),   \* read_frame_header: the length a header declares
    Bodies,           \* the request bodies clients may send
    MaxFrames         \* bound: frames held by the prefetch

ASSUME HeaderLenAssumption == HeaderLen \in Nat \ {0}
ASSUME MaxRecvAssumption == MaxRecv \in Nat
ASSUME BodiesAssumption == Bodies \subseteq Seq(Byte)
ASSUME DeclaredLenAssumption ==
    \A h \in [1..HeaderLen -> Byte] : DeclaredLen(h) \in Nat

VARIABLES
    body,       \* every byte the client sends in this request
    starts,     \* where the client's messages start in body
    src,        \* the transport's side of the body
    read,       \* bytes taken out of the transport
    buffered,   \* PrefetchedBody::buffered
    next,       \* the buffered frame the prefix scan looks at next
    scan,       \* FrameScanState
    chunk,      \* the data frame scan_for_oversized_messages was given
    pos,        \* its loop position, counted from the start of body
    called,     \* the inner service has been called with the body
    delivered,  \* bytes of data the inner service was given
    answer,     \* the status the wrapper itself produced, if any
    pc          \* where the service is

wire == <<body, starts>>
vars == <<body, starts, src, read, buffered, next, scan, chunk, pos, called,
          delivered, answer, pc>>

-----------------------------------------------------------------------------
(* The wire: a header starts at 0 and after every complete message.        *)

Header(b, p) == SubSeq(b, p + 1, p + HeaderLen)
HasHeader(b, p) == p + HeaderLen <= Len(b)
NextStart(b, p) == p + HeaderLen + DeclaredLen(Header(b, p))

FramingClosed(b, S) ==
    /\ 0 \in S
    /\ \A p \in S : HasHeader(b, p) /\ NextStart(b, p) <= Len(b)
                      => NextStart(b, p) \in S

(* The least closed set: the positions at which a receiver that reads the  *)
(* length prefixes finds headers.                                          *)
HeaderStarts(b) ==
    {p \in 0..Len(b) :
        \A S \in SUBSET (0..Len(b)) : FramingClosed(b, S) => p \in S}

Oversize(p) ==
    HasHeader(body, p) /\ DeclaredLen(Header(body, p)) > MaxRecv

-----------------------------------------------------------------------------
(* Frames carry the bytes from+1 .. to of the body; a trailers frame has   *)
(* no data.                                                                *)
Frame == [from : Nat, to : Nat, trailers : BOOLEAN]
DataFrame(n) == [from |-> read, to |-> read + n, trailers |-> FALSE]
TrailersFrame == [from |-> read, to |-> read, trailers |-> TRUE]
NoChunk == [from |-> 0, to |-> 0, trailers |-> FALSE]

(* Plausible defects of a definition stand before it, named for the bug.   *)
FreshScan == [mode |-> "header", hdr |-> << >>, rem |-> 0]
InPayload(n) == [mode |-> "payload", hdr |-> << >>, rem |-> n]
AfterPayload(n) == IF n = 0 THEN FreshScan ELSE InPayload(n)

(* The scan stays in Header with a full buffer once it has returned Err.   *)
Poisoned == Len(scan.hdr) = HeaderLen

Least(a, b) == IF a < b THEN a ELSE b
TooLargeOffByOne(len) == len > MaxRecv + 1
TooLarge(len) == len > MaxRecv
PrefixCompleteAtFirstByte(n) == n > 0
PrefixComplete(n) == n >= HeaderLen
ScanForRestRestarted == FreshScan
ScanForRest == scan
AfterRejectForgetting(hdr) == FreshScan
AfterReject(hdr) == [scan EXCEPT !.hdr = hdr]
BodyEndedWithoutTrailers == src = "open" /\ read = Len(body)
BodyEnded == src = "trailers" \/ (src = "open" /\ read = Len(body))

Init ==
    /\ body \in Bodies
    /\ starts = HeaderStarts(body)
    /\ src = "open"
    /\ read = 0
    /\ buffered = << >>
    /\ next = 1
    /\ scan = FreshScan
    /\ chunk = NoChunk
    /\ pos = 0
    /\ called = FALSE
    /\ delivered = 0
    /\ answer = "none"
    /\ pc = "prefetch"

-----------------------------------------------------------------------------
(* The prefetch loop.                                                      *)

PrefetchData(n) ==
    /\ pc = "prefetch" /\ src = "open"
    /\ read + n <= Len(body)
    /\ n = 0 => Len(buffered) < MaxFrames
    /\ buffered' = Append(buffered, DataFrame(n))
    /\ read' = read + n
    /\ pc' = IF PrefixComplete(read + n) THEN "prefix" ELSE "prefetch"
    /\ UNCHANGED <<wire, src, next, scan, chunk, pos, called, delivered, answer>>

PrefetchTrailers ==
    /\ pc = "prefetch" /\ src = "open" /\ read = Len(body)
    /\ src' = "trailers"
    /\ buffered' = Append(buffered, TrailersFrame)
    /\ UNCHANGED <<wire, read, next, scan, chunk, pos, called, delivered,
                   answer, pc>>

PrefetchError ==
    /\ pc = "prefetch" /\ src = "open"
    /\ src' = "failed"
    /\ answer' = "internal"
    /\ pc' = "done"
    /\ UNCHANGED <<wire, read, buffered, next, scan, chunk, pos, called,
                   delivered>>

(* The body may end before a whole header was seen.                        *)
PrefetchEnd ==
    /\ pc = "prefetch"
    /\ BodyEnded
    /\ src' = "ended"
    /\ pc' = "prefix"
    /\ UNCHANGED <<wire, read, buffered, next, scan, chunk, pos, called,
                   delivered, answer>>

(* The client stops sending without closing its side.                      *)
ClientStalls ==
    /\ src = "open"
    /\ src' = "stalled"
    /\ UNCHANGED <<wire, read, buffered, next, scan, chunk, pos, called,
                   delivered, answer, pc>>

-----------------------------------------------------------------------------
(* The scan of the prefetched frames, then the call of the inner service.  *)

PrefixFrame ==
    /\ pc = "prefix" /\ next <= Len(buffered)
    /\ IF buffered[next].trailers
         THEN next' = next + 1 /\ UNCHANGED <<chunk, pos, pc>>
         ELSE /\ chunk' = buffered[next]
              /\ pos' = buffered[next].from
              /\ pc' = "scan"
              /\ UNCHANGED next
    /\ UNCHANGED <<wire, src, read, buffered, scan, called, delivered, answer>>

CallInner ==
    /\ pc = "prefix" /\ next > Len(buffered)
    /\ called' = TRUE
    /\ scan' = ScanForRest
    /\ pc' = "body"
    /\ UNCHANGED <<wire, src, read, buffered, next, chunk, pos, delivered,
                   answer>>

(* One iteration of the loop in Header: take what the buffer still needs,  *)
(* and check the declared length the moment the header is whole.           *)
ScanHeader ==
    /\ pc = "scan" /\ pos < chunk.to /\ scan.mode = "header"
    /\ LET take == Least(HeaderLen - Len(scan.hdr), chunk.to - pos)
           hdr == scan.hdr \o SubSeq(body, pos + 1, pos + take)
       IN  \/ /\ Len(hdr) < HeaderLen
              /\ scan' = [scan EXCEPT !.hdr = hdr]
              /\ pos' = pos + take
              /\ UNCHANGED <<chunk, answer, pc>>
           \/ /\ Len(hdr) = HeaderLen /\ ~TooLarge(DeclaredLen(hdr))
              /\ scan' = InPayload(DeclaredLen(hdr))
              /\ pos' = pos + take
              /\ UNCHANGED <<chunk, answer, pc>>
           \/ /\ Len(hdr) = HeaderLen /\ TooLarge(DeclaredLen(hdr))
              /\ scan' = AfterReject(hdr)
              /\ pos' = pos + take
              /\ chunk' = NoChunk
              /\ answer' = "oversize"
              /\ pc' = IF called THEN "body" ELSE "done"
    /\ UNCHANGED <<wire, src, read, buffered, next, called, delivered>>

ScanPayload ==
    /\ pc = "scan" /\ pos < chunk.to /\ scan.mode = "payload"
    /\ LET take == Least(scan.rem, chunk.to - pos)
       IN  /\ pos' = pos + take
           /\ scan' = AfterPayload(scan.rem - take)
    /\ UNCHANGED <<wire, src, read, buffered, next, chunk, called, delivered,
                   answer, pc>>

(* The loop has consumed the frame: the prefix scan goes to the next one,  *)
(* poll_frame hands the frame over.                                        *)
ScanReturns ==
    /\ pc = "scan" /\ pos = chunk.to
    /\ IF called
         THEN /\ delivered' = delivered + (chunk.to - chunk.from)
              /\ pc' = "body"
              /\ UNCHANGED next
         ELSE /\ next' = next + 1
              /\ pc' = "prefix"
              /\ UNCHANGED delivered
    /\ chunk' = NoChunk
    /\ UNCHANGED <<wire, src, read, buffered, scan, pos, called, answer>>

-----------------------------------------------------------------------------
(* PrefetchedBody::poll_frame, polled by the inner service.  It may be     *)
(* polled again after an error.                                            *)

PollBufferedFromBack ==
    /\ pc = "body" /\ buffered # << >>
    /\ LET n == Len(buffered)
       IN  /\ buffered' = SubSeq(buffered, 1, n - 1)
           /\ delivered' = delivered + (buffered[n].to - buffered[n].from)
    /\ UNCHANGED <<wire, src, read, next, scan, chunk, pos, called, answer, pc>>
PollBuffered ==
    /\ pc = "body" /\ buffered # << >>
    /\ buffered' = Tail(buffered)
    /\ delivered' = delivered + (Head(buffered).to - Head(buffered).from)
    /\ UNCHANGED <<wire, src, read, next, scan, chunk, pos, called, answer, pc>>

PollRestData(n) ==
    /\ pc = "body" /\ buffered = << >> /\ src = "open"
    /\ read + n <= Len(body)
    /\ chunk' = DataFrame(n)
    /\ pos' = read
    /\ read' = read + n
    /\ pc' = "scan"
    /\ UNCHANGED <<wire, src, buffered, next, scan, called, delivered, answer>>

(* Trailers, errors and the end are passed through.                        *)
PollRestOther ==
    /\ pc = "body" /\ buffered = << >>
    /\ \/ src = "open" /\ read = Len(body) /\ src' = "trailers"
       \/ src = "open" /\ src' = "failed"
       \/ BodyEnded /\ src' = "ended"
    /\ UNCHANGED <<wire, read, buffered, next, scan, chunk, pos, called,
                   delivered, answer, pc>>

-----------------------------------------------------------------------------
Service ==
    \/ PrefixFrame \/ CallInner
    \/ ScanHeader \/ ScanPayload \/ ScanReturns

Prefetch ==
    \/ \E n \in 0..(Len(body) - read) : PrefetchData(n)
    \/ PrefetchTrailers \/ PrefetchError \/ PrefetchEnd

PollFrame ==
    \/ PollBuffered
    \/ \E n \in 0..(Len(body) - read) : PollRestData(n)
    \/ PollRestOther

Next == Prefetch \/ Service \/ PollFrame \/ ClientStalls

(* The task runs whenever it can: a client that has not stalled sends its  *)
(* next frame.  The inner service need not poll the body.                  *)
Fairness == WF_vars(Service) /\ WF_vars(Prefetch)

Spec == Init /\ [][Next]_vars
FairSpec == Spec /\ Fairness

-----------------------------------------------------------------------------
(* Type invariant.                                                         *)
ScanState ==
    [mode : {"header", "payload"}, hdr : Seq(Byte), rem : Nat]

TypeOK ==
    /\ body \in Seq(Byte)
    /\ starts \in SUBSET (0..Len(body))
    /\ src \in {"open", "trailers", "ended", "failed", "stalled"}
    /\ read \in 0..Len(body)
    /\ buffered \in Seq(Frame)
    /\ next \in Nat \ {0}
    /\ scan \in ScanState
    /\ chunk \in Frame
    /\ pos \in Nat
    /\ called \in BOOLEAN
    /\ delivered \in Nat
    /\ answer \in {"none", "oversize", "internal"}
    /\ pc \in {"prefetch", "prefix", "scan", "body", "done"}

(* However the frames cut the stream, the inner service is never given the *)
(* whole header of a message that declares more than max_recv_message_size:*)
(* no message of a client-streaming body escapes scan_for_oversized_messages.*)
OversizedNeverDelivered ==
    \A p \in starts : Oversize(p) => delivered < p + HeaderLen

(* A first message over the limit never reaches the inner service at all,  *)
(* even if its header was split over several DATA frames.                  *)
FirstMessageCheckedBeforeCall ==
    called => ~Oversize(0)

(* The limiter rejects only a stream in which some message really declares *)
(* too much: payload bytes are never taken for a header.                   *)
NoFalseReject ==
    answer = "oversize" => \E p \in starts : Oversize(p)

(* What the inner service gets is the client's bytes in order: the data    *)
(* still buffered continues what was delivered, without gap or overlap,    *)
(* up to what was read.                                                    *)
Pending == IF called /\ pc = "scan" THEN <<chunk>> ELSE buffered
ReplayIntact ==
    ~Poisoned =>
        /\ Pending = << >> => delivered = read
        /\ Pending # << >> => /\ Pending[1].from = delivered
                              /\ Pending[Len(Pending)].to = read
        /\ \A i \in 1..(Len(Pending) - 1) : Pending[i].to = Pending[i + 1].from

(* Once the scan has reported an oversized message, no byte of the stream  *)
(* is delivered any more, even if the inner service polls again.           *)
RejectionIsSticky ==
    [][answer = "oversize" => delivered' = delivered]_vars

(* The wrapper decides, rejecting or calling the inner service, unless the *)
(* client stalls in the middle of the first header: there it waits with no *)
(* bound of its own.                                                       *)
Decides ==
    <>(called \/ answer # "none" \/ (src = "stalled" /\ read < HeaderLen))

-----------------------------------------------------------------------------
(* The inductive strengthening proved in RecvLimitProofs.                  *)

(* Where the scan expects the next header, or began the current one.       *)
HeaderAt == IF scan.mode = "header" THEN pos - Len(scan.hdr) ELSE pos + scan.rem

ScanShape ==
    /\ Len(scan.hdr) <= HeaderLen
    /\ scan.mode = "payload" => scan.hdr = << >>

(* A scan that has not reported an error is in step with the true framing, *)
(* and has accepted every header before HeaderAt.                          *)
InStep ==
    ~Poisoned =>
        /\ pos <= Len(body)
        /\ scan.mode = "header" =>
              /\ Len(scan.hdr) <= pos
              /\ scan.hdr = SubSeq(body, pos - Len(scan.hdr) + 1, pos)
        /\ HeaderAt \in starts \/ HeaderAt > Len(body)
        /\ \A q \in starts : q < HeaderAt =>
              /\ HasHeader(body, q) /\ ~Oversize(q)
              /\ NextStart(body, q) <= HeaderAt

AfterError ==
    Poisoned =>
        /\ TooLarge(DeclaredLen(scan.hdr))
        /\ \E p \in starts : Oversize(p)
        /\ \A p \in starts : Oversize(p) => delivered < p + HeaderLen

Chained ==
    /\ \A i \in 1..Len(buffered) :
          /\ buffered[i].from <= buffered[i].to /\ buffered[i].to <= read
          /\ buffered[i].trailers => buffered[i].from = buffered[i].to
    /\ \A i \in 1..(Len(buffered) - 1) : buffered[i].to = buffered[i + 1].from
    /\ buffered # << >> => /\ buffered[1].from = delivered
                           /\ buffered[Len(buffered)].to = read

AtPrefetch ==
    /\ src = "trailers" => read = Len(body)
    /\ ~called => delivered = 0
    /\ ~called /\ buffered = << >> => read = 0
    /\ pc = "prefetch" =>
          ~called /\ pos = 0 /\ next = 1 /\ scan = FreshScan

AtPrefix ==
    /\ ~called /\ pc \in {"prefix", "scan"} =>
          ~Poisoned /\ (read >= HeaderLen \/ read = Len(body))
    /\ pc = "prefix" =>
          /\ ~called /\ next <= Len(buffered) + 1
          /\ pos = IF next <= Len(buffered) THEN buffered[next].from ELSE read

AtScan ==
    pc = "scan" =>
        /\ chunk.from <= chunk.to /\ chunk.to <= read
        /\ chunk.from <= pos /\ pos <= chunk.to
        /\ ~called => next <= Len(buffered) /\ chunk = buffered[next]
        /\ called => buffered = << >>
        /\ called /\ Poisoned => pos = chunk.from
        /\ called /\ ~Poisoned => chunk.from = delivered /\ chunk.to = read

AtBody ==
    /\ pc = "body" => called /\ (~Poisoned => pos = read)
    /\ called => pc \in {"scan", "body"}
    /\ called /\ Poisoned => buffered = << >>
    /\ pc = "body" /\ ~Poisoned /\ buffered = << >> => delivered = read
    /\ answer = "oversize" <=> Poisoned

IInv ==
    /\ TypeOK
    /\ ScanShape /\ InStep /\ AfterError /\ Chained
    /\ AtPrefetch /\ AtPrefix /\ AtScan /\ AtBody
    /\ FirstMessageCheckedBeforeCall

=============================================================================
