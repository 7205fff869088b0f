--------------------------- MODULE ServerPipeline ---------------------------
(***************************************************************************)
(* What serve_with_middleware makes of a compressed request: the receive   *)
(* limit outermost (serve, src/server.rs), the compression layer inside it *)
(* (middleware.wrap), the handler last.  So the adapter of CompressionBody *)
(* reads from PrefetchedBody, which limits the lengths on the wire, and    *)
(* limits itself what they decompress to.                                  *)
(*                                                                         *)
(* RecvLimit models the limiter byte by byte.  Here its prefetch is one    *)
(* step, and its scan is what RecvLimit shows of it: the frame in which    *)
(* the header of an oversized message becomes whole is replaced by an      *)
(* error.  With limited FALSE, the adapter reads from the transport: a     *)
(* client's response, or a body that is being compressed.                  *)
(***************************************************************************)
EXTENDS CompressionBody

CONSTANT MaxRecv    \* max_recv_message_size

ASSUME MaxRecvAssumption == MaxRecv \in Nat

VARIABLES
    limited,    \* the body passes through PrefetchedBody
    called,     \* the limiter has called the compression layer
    prefetched  \* the bytes it had taken when it did

wrapper == <<limited, called, prefetched>>
pipeline == <<vars, wrapper>>

(* A header of an oversized message becomes whole in bytes a .. b-1.       *)
OversizeWithinOffByOne(a, b) ==
    \E i \in 1..Len(msgs) :
        msgs[i].len > MaxRecv + 1 /\ Start(i) + HeaderLen \in (a + 1)..b
OversizeWithin(a, b) ==
    \E i \in 1..Len(msgs) :
        msgs[i].len > MaxRecv /\ Start(i) + HeaderLen \in (a + 1)..b

PipelineInit ==
    /\ Init
    /\ limited \in BOOLEAN
    /\ limited => direction = "decompress"
    /\ called = ~limited
    /\ prefetched = 0

-----------------------------------------------------------------------------
(* The limiter's call(): frames until a header is whole or the body ends.  *)

Prefetch(n) ==
    /\ ~called /\ pc = "idle"
    /\ n >= HeaderLen \/ n = sent
    /\ IF OversizeWithin(0, n)
         THEN Return("oversize") /\ UNCHANGED <<called, prefetched>>
         ELSE /\ called' = TRUE /\ prefetched' = n
              /\ UNCHANGED <<reported, pc>>
    /\ UNCHANGED <<peer, lo, hi, innerDone, src, results, limited>>

PrefetchError ==
    /\ ~called /\ pc = "idle"
    /\ src' = "failed"
    /\ Return("internal")
    /\ UNCHANGED <<peer, lo, hi, innerDone, results, wrapper>>

-----------------------------------------------------------------------------
(* The adapter, polling PrefetchedBody or the transport.                   *)

Adapter(step) == called /\ step /\ UNCHANGED wrapper

(* PrefetchedBody has handed over all it had buffered.                     *)
Replayed == hi >= prefetched

Passes(n) == Replayed => (limited => ~OversizeWithin(hi, hi + n))

LimitedData(n) ==
    /\ ~Replayed => hi + n <= prefetched
    /\ Passes(n)
    /\ Adapter(PullData(n))

Wants == called /\ pc = "loop" /\ NeedsMore /\ ~innerDone

(* The whole frame is lost, with the messages that end in it.              *)
RejectFrame(n) ==
    /\ Wants /\ src = "open" /\ limited /\ Replayed
    /\ hi + n <= sent /\ OversizeWithin(hi, hi + n)
    /\ src' = "cut"
    /\ Return("oversize")
    /\ UNCHANGED <<peer, lo, hi, innerDone, results, wrapper>>

(* The scan keeps the header it rejected, and rejects all further data;    *)
(* what is not data passes.                                                *)
PullAfterReject ==
    /\ Wants /\ src = "cut"
    /\ \/ Return("oversize") /\ UNCHANGED <<src, innerDone>>
       \/ Return(TrailersStatus) /\ src' = "trailers" /\ UNCHANGED innerDone
       \/ Return("error") /\ src' = "failed" /\ UNCHANGED innerDone
       \/ src' = "ended" /\ innerDone' = TRUE /\ UNCHANGED <<reported, pc>>
    /\ UNCHANGED <<peer, lo, hi, results, wrapper>>

Limiter == (\E n \in 0..sent : Prefetch(n)) \/ PrefetchError

Ready ==
    \/ \E n \in 1..(sent - hi) : LimitedData(n) \/ RejectFrame(n)
    \/ Adapter(PullTrailers) \/ Adapter(PullNone)
    \/ Replayed /\ Adapter(PullError)
    \/ PullAfterReject

PipelineNext ==
    \/ Limiter
    \/ Adapter(Poll) \/ Adapter(GuardRejects) \/ Adapter(EmitMessage)
    \/ Adapter(Finish)
    \/ Ready \/ (Replayed /\ Adapter(PullPending))

(* The consumer polls until the end, and the transport produces its next   *)
(* frame eventually: neither prefetch nor adapter is pending for ever.     *)
PipelineFairness ==
    /\ WF_pipeline(Limiter)
    /\ WF_pipeline(Adapter(Poll)) /\ WF_pipeline(Adapter(GuardRejects))
    /\ WF_pipeline(Adapter(EmitMessage)) /\ WF_pipeline(Adapter(Finish))
    /\ SF_pipeline(Ready)

PipelineSpec == PipelineInit /\ [][PipelineNext]_pipeline /\ PipelineFairness

-----------------------------------------------------------------------------
(* Type invariant.                                                         *)
PipelineTypeOK ==
    /\ TypeOK
    /\ {limited, called} \subseteq BOOLEAN
    /\ prefetched \in 0..sent

(* max_recv_message_size limits compressed lengths and the cap what they   *)
(* become; together they bound what the handler is given, as it is given   *)
(* it: no message on its way to the handler exceeds the larger of the two, *)
(* and with a cap within the limit none exceeds the receive limit.         *)
HandedOnSize(m) == IF m.flag = 1 THEN m.out ELSE m.len
NoAmplification ==
    limited =>
        \A i \in 1..Len(results) :
            results[i].outcome = "ok" =>
                \/ HandedOnSize(msgs[i]) <= MaxRecv
                \/ Cap > MaxRecv /\ msgs[i].flag = 1

(* What the comment on the adapter's guard promises for the recommended    *)
(* configuration, cap = receive limit: a legitimate message that is a hair *)
(* longer on the wire than the cap is not dropped.  A consumer that is     *)
(* told "oversize" has met something other than such messages.             *)
LegitimateMessagesPass ==
    limited /\ MaxRecv = Cap /\ "oversize" \in reported =>
        \E i \in 1..Len(msgs) : ~(OwnMessage(msgs[i]) /\ msgs[i].out <= Cap)

=============================================================================
