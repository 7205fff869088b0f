-------------------------- MODULE CompressionBody --------------------------
(***************************************************************************)
(* CompressionBody (src/middleware.rs): the body adapter that cuts a byte  *)
(* stream into gRPC messages, compresses or decompresses each one, and     *)
(* forwards it as soon as it is complete.                                  *)
(*                                                                         *)
(* A message is a record of sizes: what is told apart is how long it is on *)
(* the wire, how large it becomes, and what the codec says of it.  The     *)
(* adapter's buffer is the interval of stream positions lo .. hi-1.        *)
(* poll_frame is modelled one iteration of its loop at a time.             *)
(***************************************************************************)
EXTENDS Integers, Sequences

CONSTANTS
    HeaderLen,       \* GRPC_FRAME_HEADER_LEN
    Cap,             \* max_decompressed_size
    BandDivisor,     \* the pre-buffering guard's band is
    BandBase,        \* Cap / BandDivisor + BandBase (64 and 64)
    MaxFrameLen,     \* u32::MAX, the largest length reframe can write
    MinLog, MaxLog,  \* zstd's window range (10 and 27)
    LogHeadroom,     \* bits added to the decoder's window ceiling (3)
    Streams          \* the message sequences a peer may send

ASSUME SizesAssumption ==
    /\ {HeaderLen, BandDivisor} \subseteq Nat \ {0}
    /\ {Cap, BandBase, MaxFrameLen, MinLog, MaxLog, LogHeadroom} \subseteq Nat
    /\ MinLog <= MaxLog

Message == [flag : {0, 1}, len : Nat, out : Nat, window : Nat, corrupt : BOOLEAN]
ASSUME StreamsAssumption == Streams \subseteq Seq(Message)

VARIABLES
    msgs,       \* the messages the peer's encoder framed
    sent,       \* how many bytes of them it sends before its side ends
    codec,      \* CompressionBody::encoding
    direction,  \* CompressionBody::direction
    lo, hi,     \* CompressionBody::buf holds the stream's bytes lo .. hi-1
    innerDone,  \* CompressionBody::inner_done
    src,        \* the inner body's state ("cut" only under ServerPipeline)
    results,    \* per message cut out of the buffer, its outcome
    reported,   \* the other frames and errors the consumer has been given
    pc          \* "loop" inside poll_frame, else what it returned last

peer == <<msgs, sent, codec, direction>>
vars == <<msgs, sent, codec, direction, lo, hi, innerDone, src, results,
          reported, pc>>

-----------------------------------------------------------------------------
(* Codec arithmetic.                                                       *)

Headroom == Cap \div BandDivisor + BandBase
Lesser(a, b) == IF a < b THEN a ELSE b
BitLen[n \in Nat] == IF n = 0 THEN 0 ELSE 1 + BitLen[n \div 2]
Clamp(k) == IF k < MinLog THEN MinLog ELSE Lesser(k, MaxLog)

WindowLogFor(size) == Clamp(BitLen[IF size = 0 THEN 1 ELSE size])

WindowCeilingBelowCap(max) == Clamp(BitLen[max] - 1)
WindowCeiling(max) == Lesser(WindowLogFor(max) + LogHeadroom, MaxLog)

(* read_bounded takes one byte past the cap.  For a corrupt payload, out   *)
(* counts what the decoder yields before it fails.                         *)
ReadBoundedByWire(m) ==
    IF m.len > Cap THEN "exhausted" ELSE IF m.corrupt THEN "internal" ELSE "ok"
ReadBounded(m) ==
    IF m.out > Cap THEN "exhausted" ELSE IF m.corrupt THEN "internal" ELSE "ok"

DecompressBytes(m) ==
    IF codec = "zstd" /\ m.window > WindowCeiling(Cap) THEN "internal"
                                                      ELSE ReadBounded(m)

MatchingFlag == IF direction = "compress" THEN 0 ELSE 1

Reframe(size) == IF size > MaxFrameLen THEN "internal" ELSE "ok"

(* transform_one: "ok", or the status it fails with.                       *)
TransformOne(m) ==
    IF m.flag # MatchingFlag THEN Reframe(m.len)
    ELSE IF direction = "decompress" /\ DecompressBytes(m) # "ok"
         THEN DecompressBytes(m)
         ELSE Reframe(m.out)

-----------------------------------------------------------------------------
(* The stream's layout.                                                    *)

FrameLen(i) == HeaderLen + msgs[i].len
Start(i) ==
    LET at[k \in 1..(Len(msgs) + 1)] ==
            IF k = 1 THEN 0 ELSE at[k - 1] + FrameLen(k - 1)
    IN  at[i]
Total == Start(Len(msgs) + 1)

(* The message whose bytes include position p.                             *)
MessageAt(p) == CHOOSE i \in 1..Len(msgs) : Start(i) <= p /\ p < Start(i + 1)

(* read_frame_header(&this.buf) returned the length of the message at lo.  *)
HeaderReady == hi - lo >= HeaderLen
Current == msgs[MessageAt(lo)]

OverGuardOff == FALSE
OverGuardOnTheNose == direction = "decompress" /\ Current.len > Cap
OverGuard == direction = "decompress" /\ Current.len > Cap + Headroom

HoldsMessageStrictly == HeaderReady /\ hi - lo > HeaderLen + Current.len
HoldsMessage == HeaderReady /\ hi - lo >= HeaderLen + Current.len

NeedsMore == ~HoldsMessage /\ ~(HeaderReady /\ OverGuard)

AfterFrameKeepingHeader == lo + Current.len
AfterFrame == lo + HeaderLen + Current.len

Init ==
    /\ msgs \in Streams
    /\ sent \in 0..Total
    /\ codec \in {"gzip", "zstd"}
    /\ direction \in {"compress", "decompress"}
    /\ lo = 0 /\ hi = 0
    /\ innerDone = FALSE
    /\ src = "open"
    /\ results = << >>
    /\ reported = {}
    /\ pc = "idle"

-----------------------------------------------------------------------------
(* poll_frame.  The consumer may poll again whatever the last poll said.   *)

Return(what) == pc' = what /\ reported' = reported \cup {what}

Poll ==
    /\ pc # "loop" /\ pc # "end"
    /\ pc' = "loop"
    /\ UNCHANGED <<peer, lo, hi, innerDone, src, results, reported>>

GuardRejects ==
    /\ pc = "loop" /\ HeaderReady /\ OverGuard
    /\ Return("exhausted")
    /\ UNCHANGED <<peer, lo, hi, innerDone, src, results>>

(* A complete message leaves the buffer whether or not it transforms.      *)
EmitMessage ==
    /\ pc = "loop" /\ HoldsMessage /\ ~OverGuard
    /\ lo' = AfterFrame
    /\ results' = Append(results, [msg |-> MessageAt(lo),
                                   outcome |-> TransformOne(Current)])
    /\ IF TransformOne(Current) = "ok"
         THEN pc' = "message" /\ UNCHANGED reported
         ELSE Return(TransformOne(Current))
    /\ UNCHANGED <<peer, hi, innerDone, src>>

Finish ==
    /\ pc = "loop" /\ NeedsMore /\ innerDone
    /\ Return(IF lo = hi THEN "end" ELSE "truncated")
    /\ UNCHANGED <<peer, lo, hi, innerDone, src, results>>

(* An empty data frame goes round the loop and changes nothing.            *)
PullData(n) ==
    /\ pc = "loop" /\ NeedsMore /\ ~innerDone
    /\ src = "open" /\ hi + n <= sent
    /\ hi' = hi + n
    /\ UNCHANGED <<peer, lo, innerDone, src, results, reported, pc>>

(* Trailers behind a partial message are dropped with an error.            *)
TrailersStatusUnchecked == "trailers"
TrailersStatus == IF lo = hi THEN "trailers" ELSE "truncated"
PullTrailers ==
    /\ pc = "loop" /\ NeedsMore /\ ~innerDone
    /\ src = "open" /\ hi = sent
    /\ src' = "trailers"
    /\ Return(TrailersStatus)
    /\ UNCHANGED <<peer, lo, hi, innerDone, results>>

PullError ==
    /\ pc = "loop" /\ NeedsMore /\ ~innerDone
    /\ src = "open"
    /\ src' = "failed"
    /\ Return("error")
    /\ UNCHANGED <<peer, lo, hi, innerDone, results>>

PullNoneForgotten ==
    /\ pc = "loop" /\ NeedsMore /\ ~innerDone
    /\ src \in {"trailers", "failed"} \/ (src = "open" /\ hi = sent)
    /\ src' = "ended"
    /\ UNCHANGED <<peer, lo, hi, innerDone, results, reported, pc>>
PullNone ==
    /\ pc = "loop" /\ NeedsMore /\ ~innerDone
    /\ src \in {"trailers", "failed"} \/ (src = "open" /\ hi = sent)
    /\ src' = "ended"
    /\ innerDone' = TRUE
    /\ UNCHANGED <<peer, lo, hi, results, reported, pc>>

PullPending ==
    /\ pc = "loop" /\ NeedsMore /\ ~innerDone
    /\ src = "open"
    /\ pc' = "pending"
    /\ UNCHANGED <<peer, lo, hi, innerDone, src, results, reported>>

PullReady ==
    \/ \E n \in 1..(sent - hi) : PullData(n)
    \/ PullTrailers \/ PullError \/ PullNone

Next ==
    \/ Poll \/ GuardRejects \/ EmitMessage \/ Finish
    \/ PullReady \/ PullPending

Spec == Init /\ [][Next]_vars

-----------------------------------------------------------------------------
(* Type invariant.                                                         *)
Status == {"exhausted", "internal", "truncated", "error", "oversize"}
TypeOK ==
    /\ msgs \in Seq(Message)
    /\ lo \in 0..hi /\ hi \in 0..sent
    /\ innerDone \in BOOLEAN
    /\ src \in {"open", "trailers", "ended", "failed", "cut"}
    /\ results \in Seq([msg : Nat, outcome : {"ok", "exhausted", "internal"}])
    /\ reported \subseteq Status \cup {"trailers", "end"}
    /\ pc \in Status \cup {"idle", "loop", "message", "pending", "trailers", "end"}

(* Each message is cut out once and in order, exactly at the boundaries    *)
(* the peer's encoder laid down, wherever the frames cut the stream.       *)
CutAtBoundaries ==
    /\ lo = Start(Len(results) + 1)
    /\ \A i \in 1..Len(results) : results[i].msg = i

(* No message is handed on larger than the configured cap: the bound is    *)
(* enforced on what decompression yields, not on what arrived.             *)
DecompressedWithinCap ==
    direction = "decompress" =>
        \A i \in 1..Len(results) :
            results[i].outcome = "ok" /\ msgs[i].flag = 1 => msgs[i].out <= Cap

(* A message this crate's own encoder made from a payload within the cap   *)
(* is never refused, neither by the guard before it is buffered, however   *)
(* much longer than its payload it is on the wire within the band, nor     *)
(* when it is cut out, by the cap or for its window: whatever poll_frame   *)
(* refuses at the head of its buffer is not such a message.                *)
OwnMessage(m) ==
    /\ m.flag = 1 /\ ~m.corrupt /\ m.window = WindowLogFor(m.out)
    /\ m.len <= m.out + Headroom
OwnMessagesPass ==
    [][direction = "decompress" /\ pc = "loop" /\ pc' \in {"exhausted", "internal"}
         => ~ (OwnMessage(Current) /\ Current.out <= Lesser(Cap, MaxFrameLen))]_vars

(* poll_frame never parks the consumer while a whole message is in the     *)
(* buffer: streams are delivered message by message, not at their end.     *)
NoMessageLeftWaiting ==
    pc = "pending" =>
        Len(results) = Len(msgs) \/ hi < Start(Len(results) + 2)

(* In the decompress direction the bytes held while waiting for more are   *)
(* fewer than one admissible frame, whatever length a header declares.     *)
BufferBounded ==
    direction = "decompress" /\ pc = "pending" =>
        hi - lo < HeaderLen + Cap + Headroom

(* A stream that ends without an error ends at a message boundary with     *)
(* every message that was sent accounted for; trailers, too, are forwarded *)
(* only behind complete messages.                                          *)
NoSilentTruncation ==
    /\ reported \cap {"error", "oversize"} = {} =>
          /\ "trailers" \in reported => lo = sent
          /\ "end" \in reported => lo = sent
    /\ "end" \in reported /\ reported \cap Status = {}
         => \A i \in 1..Len(msgs) : Start(i + 1) <= sent =>
               i <= Len(results) /\ results[i].outcome = "ok"

(* A consumer that keeps polling a finite stream is not parked for ever:   *)
(* it reaches the end or an error.                                         *)
EventuallyAnswered ==
    <>(reported \cap (Status \cup {"end"}) # {})

(* What the comments on with_max_decompressed_size and on                  *)
(* DecompressedSizeExceeded say of an intact message over the cap: it is   *)
(* refused with resource_exhausted.                                        *)
OverCapIsResourceExhausted ==
    direction = "decompress" =>
        \A i \in 1..Len(results) :
            msgs[i].flag = 1 /\ ~msgs[i].corrupt /\ msgs[i].out > Cap
              => results[i].outcome = "exhausted"

=============================================================================
