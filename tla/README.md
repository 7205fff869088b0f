# Formal verification of armature-grpc

TLA+ models of `armature-grpc`, a layer over tonic: a gRPC server builder that
limits the size of incoming messages, a set of tower middleware (timeout,
limits, shedding, retry, compression), a client with retry, configuration
builders and interceptors.  TLC checks the models on small instances; TLAPS
proves every safety property the runs check for every value of the constants.

Paths below are relative to `src/`, the repository.

## 1. The system

| Part | Source | State it keeps | Operations | Model |
|---|---|---|---|---|
| Receive limit | `src/server.rs` 183-475 | per request: prefetched frames, scan state | prefetch, scan, call the handler, `poll_frame` | `RecvLimit` |
| Compression codec and body | `src/middleware.rs` 642-1090 | per body: undelivered bytes, end flag | `transform_one`, `poll_frame` | `CompressionBody`, and behind the receive limit `ServerPipeline` |
| Compression negotiation | `src/middleware.rs` 1094-1308 | none | header rewriting around a request and its response | `CompressionNegotiation` |
| Timeout | `src/middleware.rs` 66-134 | per request: a deadline | `call` | in `ConcurrencyLimit` |
| Concurrency limit | `src/middleware.rs` 136-207 | a semaphore shared by all clones | `call` | `ConcurrencyLimit` |
| Load shedding | `src/middleware.rs` 209-314 | a semaphore shared by all clones | `call` | `LoadShedding`, under load in `RetryUnderLoad` |
| Rate limit | `src/middleware.rs` 316-413 | window start and count under a mutex | `call` | `RateLimit` |
| Retry | `src/middleware.rs` 415-484, `src/client.rs` 90-123 | per call: the attempt number | `call_with_retry` | `Retry`, `RetryUnderLoad` |
| Server assembly and lifecycle | `src/server.rs` 1-181, 477-512 | configuration, then tonic's router | `serve`, `serve_with_middleware`, `serve_with_shutdown`, `register_optional_services` | `GrpcServer`, `ClientServer` |
| Client channel and TLS | `src/client.rs` | configuration, tonic's channel | `connect`, `lazy`, `connect_balanced`, `apply_tls` | `GrpcClient`, `ClientServer` |
| Configuration | `src/config.rs` | builder fields, a deferred address error | setters, `build` | `Configuration` |
| Interceptors | `src/interceptor.rs` | credentials, header names | `add_auth`, `validate`, `intercept` | `Interceptors`, `CallChain` |
| Errors | `src/error.rs` | none | `to_status` | in `CallChain` |
| Crypto provider | `src/crypto_provider.rs` | one `Once` | `ensure_installed` | not modelled |
| Crate facade | `src/lib.rs` | none | re-exports | not modelled |

**How the parts interact.**  `serve` wraps the service (which the user may
already have wrapped in middleware) in `MaxRecvMessageSizeService`, so the
receive limit is the outermost layer and every other limit runs inside it.
Each middleware is a tower service that owns the next one; `call` only builds a
future, and the executor polls that future, drops it when the client goes away,
and runs many of them at once.  Clones of a service (one per connection) share
their semaphore or window through an `Arc`.  Bodies are pulled: the handler
polls `CompressionBody` or `PrefetchedBody`, which poll the transport; where
both are present the first polls the second.  On the client `call_with_retry`
calls a closure again when a retriable status comes back; a handler may itself
be the client of another service and convert its errors with `?`.  Interceptors
are called by hand, except `server_interceptor`.  Both builders end in a
configuration that is copied, field by field, into tonic's builders.

**What is hard here**, and what makes each part correct:

- *Framing.*  HTTP/2 cuts the body into frames anywhere, also inside a message
  header.  Both byte-stream parsers must find the same boundaries the sender
  laid down.  The receive limit must let no oversized message past and refuse
  no other; the compression body must transform each message once, in order,
  as soon as it is complete, and report every truncation.
- *Cancellation.*  A future may be dropped at any await, or before its first
  poll.  Permits must be conserved and waiters behind it still be served.
- *Time.*  A deadline races the queue, the hand-over of a permit and the
  handler; a rate window is checked, reset and counted while the clock runs.
- *Lateness.*  An attempt the retry loop gave up may still be executed during a
  later one, and hold a permit then.
- *Composition.*  Two limits that are each right can contradict one another; a
  retry loop sees statuses that other layers made; who is served depends on TLS
  settings of two sides; a shutdown depends on every deadline along the way.
- *Boundaries.*  Limits configured as 0, messages of length 0, messages exactly
  at a cap, window sizes at powers of two.

`PROJECT.json` lists each of these hazards at its line with the properties that
cover it; a hazard without a property says why.

## 2. The modules

The proofs and the checks use the same definitions.  Constants are parameters
with named assumptions, and no module uses `RECURSIVE`: what the code does in a
loop over a list is a recursive function.  A component's theorems are in a
module of its name with `Proofs` behind it.  An operator standing
just before another with a longer name (`TooLargeOffByOne` before `TooLarge`)
is a plausible defect of it; substituting it must break the property named in
`PROJECT.json`, which shows the property can fail.

### RecvLimit

One request through `MaxRecvMessageSizeService`.

| State | Code |
|---|---|
| `src`, `read` | the transport's body and how much of it was taken |
| `buffered` | the `VecDeque` of prefetched frames |
| `next`, `pc = "prefix"` | the loop over `buffered` |
| `scan` | `FrameScanState`: `Header(buf)` or `Payload(remaining)` |
| `chunk`, `pos`, `pc = "scan"` | one run of `scan_for_oversized_messages` |
| `called`, `delivered` | the inner service and what `poll_frame` gave it |
| `answer` | the status the wrapper made |
| `starts` | history: where the sender's messages begin |

`PrefetchData/Trailers/Error/End` are the arms of the prefetch loop, then
`PrefixFrame` and `CallInner`; `ScanHeader` and `ScanPayload` are one iteration
each of the scan loop, on real bytes; `PollBuffered`, `PollRestData` and
`PollRestOther` are `poll_frame`.  `ClientStalls` is the environment.  Frames
are intervals of the body, so "in order, no gap, no overlap" can be stated.

`starts` is defined independently of the scan: the least set that contains 0
and, with a position that holds a complete header, the position behind that
message.  This needs no recursion, and is what a receiver reading the length
prefixes sees.

Properties: `OversizedNeverDelivered`, `FirstMessageCheckedBeforeCall`,
`NoFalseReject`, `ReplayIntact`, `RejectionIsSticky`, the inductive invariant
`IInv` (which contains `TypeOK`), and `Decides`: a request is rejected or
handed on, unless its client stalls inside the first header.  That exception is
real: the prefetch is outside every timeout.

### CompressionBody

`CompressionBody::poll_frame` one loop iteration at a time.  A message is a
record of sizes: flag, length on the wire, size it expands to, zstd window,
corrupt or not.  The buffer is the interval `lo .. hi-1` of stream positions;
`PullData(n)` appends n bytes, `EmitMessage` cuts one message out, the other
`Pull...` actions are the remaining arms of the match, `GuardRejects` is the
check before buffering, `Finish` the end.  The codec arithmetic
(`WindowLogFor`, `WindowCeiling`, `ReadBounded`, `Reframe`, `TransformOne`) is
translated operator by operator.

Properties: `CutAtBoundaries`, `DecompressedWithinCap`, `OwnMessagesPass` (no
step refuses a message the crate's own encoder made within the cap: the guard's
band is wide enough for what does not compress, and encoder and decoder agree
about windows; either half has a mutant), `NoMessageLeftWaiting`, `BufferBounded`, `NoSilentTruncation`,
`EventuallyAnswered`.

### ServerPipeline

`serve_with_middleware` with a compression layer: the actions of
`CompressionBody`, reading from `PrefetchedBody` instead of the transport.  The
limiter's prefetch is one step here (`Prefetch`), its scan is what `RecvLimit`
shows of it: the frame in which the header of an oversized message becomes
whole is replaced by an error (`RejectFrame`), with all that frame held, and
every later data frame by another (`PullAfterReject`).  With `limited` false
the adapter reads from the transport, as on a client or when it compresses, so
one run checks all properties of `CompressionBody` in both settings.

Properties, besides those of `CompressionBody`: `NoAmplification` (the two
limits together bound every message the handler gets) and, in the run
`cap_equals_recv_limit`, `LegitimateMessagesPass`.

### CompressionNegotiation

One call from a stub through client layers, the wire and server layers to a
handler and back.  `hop` is the layer whose turn it is; `ClientRequest`,
`ServerRequest`, `ServerResponse` and `ClientResponse` are the halves of the
two `call` functions before and after their await, `StepAside` a layer
configured with `CompressionEncoding::None`.  `noted` is the local
`client_accepts_our_encoding`, read before the await and used after it.  What
happens to a message inside `CompressionBody` is reduced to its flag and codec.
A handler that refuses the request answers with an empty body.

Properties: `LabelsTellTheTruth` (between any two layers), `Invisible` (a
shared encoding leaves plain messages for handler and stub),
`OnlyAcceptedEncodings` on the wire.  They are checked where the stub does not
compress and the client lists at most one encoding; the run
`compression_stacked` shows what happens when it lists two.

### AdmissionControl, ConcurrencyLimit, LoadShedding

`AdmissionControl` is what a limiter promises: a request enters at most once,
and never while `Limit` others are inside.  Both limiters are shown to
implement it through `Phase`.

`ConcurrencyLimit` has one state machine per request: called, waiting in the
semaphore's queue, granted (a permit was handed over but the task has not run
yet), running, streaming its body, over.  `Release` hands a permit to the first
waiter, as tokio's semaphore does.  `place` puts `TimeoutService` inside the
limiter, outside it, or nowhere; with a timeout, handlers may hang.
`Cancel` drops the future at each await.  Properties: `PermitsConserved`,
`NoLostWakeup`, `NoOvertaking`, `EveryCallEnds`, `ImplementsAdmissionControl`.
That a response which is ready wins over its deadline is what
`tokio::time::timeout` does (it polls the future first); `TimeOut` takes it
over, and nothing is claimed about it.

`LoadShedding` takes its permit inside `call()`, before the future is polled:
state `held`.  `enabled` is chosen at the start.  Properties:
`ShedOnlyWhenFull` (a refusal needs `Limit` living owners of permits at that
moment, so no permit may be lost) and `ImplementsAdmissionControl`; they are
checked in `RetryUnderLoad`, whose callers produce the requests.

### RateLimit

`lock` is the mutex: its holder, then its waiters.  The critical section is
three actions, because the code reads the clock twice in it: `Check`
(`elapsed()`), `Reset` (`Instant::now()`), `Count`; `Tick` may come between any
two.  `served` is a history of what was admitted, when, in which window.
Properties: `TwiceTheRateAtMost` in every span of one window, `LongRunRate`,
`RefusedOnlyWhenFull`, `EveryRequestSettled`.

### Retry and RetryUnderLoad

`Retry` is both `call_with_retry` functions, for several callers: `Conclude` is
the `match` on an attempt's result with the next `make_call()` in the same
step, since no await lies between them.

`RetryUnderLoad` joins it with `LoadShedding`: attempt i of client c is the
request <<c, i>> of the server.  `Receive` takes the server's answer to the
attempt; `Fail` is a failure on the client's side (timeout, lost connection)
after which the server may still start, run and answer the attempt, holding its
permit all the while, unless its stream is reset (`Reset`).  Properties:
`RetriesExactlyWhenAllowed`, `EveryCallReturns`, and the two of `LoadShedding`.

### Interceptors and CallChain

`Interceptors` has the interceptors as functions on metadata (one value or
`Absent` per name): `AddAuth`, `constant_time_eq`, `Validate`,
`EnsureRequestId`, `Call` (one interceptor) and `Intercept` (a client's chain of
them, in the order it calls them).  Texts are sequences of `Byte`, and the
verdict of a custom validator, which is the user's, may be any status.  A name
that is no ASCII key, or a text that is no header value (`Unparsable`), is
silently skipped by the code; text beyond ASCII (`Unprintable` but parsable) is
inserted and cannot be read back.

`CallChain` is one call through a row of services, each authenticating with
`server_interceptor`, each client retrying, each handler answering with an error
of its own or converting the next service's with `?` (`to_status`, `PassOn`).
`hop` and `pc` say whose turn it is.  `Transient` are the origins of failure
that trying again may cure: the kinds of `GrpcError` that say so and the
statuses retried by default.  Properties: `CredentialsDecide`,
`OneIdPerCall`, `PermanentFailureIsFinal`, `CallerLearnsWhetherTransient`.
`OneIdPerCall` is stated for an id header the credentials do not use: in the same
header the two overwrite each other.

### Configuration, GrpcServer, GrpcClient and ClientServer

`Configuration` has both builders as recursions over the calls of their setters
(`ServerBuilder`, `ClientBuilder`), the deferred address error (`ErrorAfter`),
and what is passed to tonic (`build_transport`, `build_server_tls_config`,
`configure_endpoint`, `apply_tls`).  `LastValue` is the independent reference:
the last call that names a field decides it, `Naming` says which setters name
it, and `TransportSettings` which fields the transport must get.

`GrpcServer` is a server's life in `stage`: configured, built, assembled,
registered, listening, draining, stopped, with the failures on the way.
`GrpcClient` is the three constructors.  `ClientServer` lets clients connect to
the server and call it: `Connect` and `Verify` are the two halves of a
handshake (a TLS 1.3 client is done before the server has looked at its
certificate), `Arrive`, `HeaderArrives` and `Answer` take a call through
prefetch and handler, `DeadlineOf` is the endpoint's timeout.  Calls are plain,
stalling inside the first header, hanging in the handler, or endless health
watches.  Clients in `Foreign` are not built with this crate and have no
deadline.

Properties: `ServesAsAsked`, `ServedExactlyIfTrusting`, `ShutdownCompletes`.
`ServesAsAsked` covers the address, the receive limit, every field of
`build_transport` but `tls` (which is `ServedExactlyIfTrusting`'s), health and
reflection; reflection may be absent though asked for, and
`max_send_message_size` has no effect (`src/config.rs:144`).
`ShutdownCompletes` names what can hold a drain for ever among the calls
modelled.  It does not speak of a client that stalls inside its TCP, TLS or
HTTP/2 handshake or stops reading a response: that neither holds tonic's drain
is an assumption about the environment (weak fairness of `Verify` and `Answer`).

## 3. The runs

| Run | Instance | Shows |
|---|---|---|
| `recv_limit` | 3-byte headers, one-byte payload limit, all 7-byte streams over {0, 1} or shorter, every cut into frames, 2 empty frames in the prefetch | the receive limit |
| `server_pipeline` | both codecs and directions, behind the limiter and not, 2-byte headers, cap 3, receive limit 3, streams of up to two messages around every threshold, every truncation, every cut into frames | the streaming adapter, alone and inside the limiter |
| `compression_negotiation` | at most one client layer, every stack of up to three server layers over gzip, zstd and none, bodies of up to two messages | labels and messages agree |
| `concurrency_limit` | 4 requests, limit configured as 0 and as 2, all three places of the timeout, up to two hanging handlers | the queueing limiter, safety and liveness |
| `rate_limit` | 4 requests, configured rates 0 and 2, window of 2 ticks, 5 instants | the window, and the clamp of the rate to 1 |
| `retry_under_load` | 2 clients with up to 2 attempts each, limit configured as 0, shedding on and off, retry on and off, `max_retry_attempts` 0 to 2 | the retry loop and the shedding limiter |
| `call_chain` | 2 services, 2 attempts per hop, every credential of the first service against every other, prefixes and values that cannot be sent or cannot be read among them, three chains of interceptors, two header names for the id | interceptors, error conversion and nested retries |
| `client_server` | every two of thirteen calls of the server's builder; every pair of TLS profiles in every constructor; shutdown with two clients, two calls each, of every kind | configuration, TLS and shutdown |

Four runs are expected to fail.  Each checks one sentence of the
documentation that the code does not keep:

- `compression_over_cap`: "A single message whose decompressed size would
  exceed this limit is rejected with `Status::resource_exhausted`"
  (`src/middleware.rs:579`).  A zstd message whose declared window exceeds the
  ceiling derived from the cap fails inside the decoder first, as `Internal`.
- `compression_stacked`: "compresses outgoing responses (when the request's
  `grpc-accept-encoding` header lists this encoding)" (`src/middleware.rs:609`).
  Behind a layer that has compressed with another accepted encoding, only the
  header is replaced: the client is told gzip and gets zstd.
- `concurrency_limit_in_flight`: "Caps the number of in-flight requests"
  (`src/middleware.rs:140`).  The permit is dropped with the response head;
  streamed bodies still in flight are not counted.
- `cap_equals_recv_limit`: "a legitimate message that decompresses to within
  the cap can arrive with `len` a hair over it - most reachably in the
  recommended "cap == recv limit" config.  Rejecting on the nose would wrongly
  drop those" (the comment at `src/middleware.rs:1000`, dash ours).  The adapter
  grants that headroom, but the receive limiter around it rejects on the nose.

"A fixed 1-second sliding window" (`src/middleware.rs:320`) is not true of the
rate limiter either: the window is fixed, and two bursts around its end fit
into one second.  `TwiceTheRateAtMost` states, and the run checks, the bound
that does hold.

**Why the bounds are enough.**  A header of 3 bytes can be split in every way
that matters (none, one or several bytes on each side), and 7 bytes hold an
empty message, a complete one, and a following partial or oversized header.
The compression streams put messages below, at and above the cap, the guard's
band and the window ceiling, in both positions.  Four requests over two
permits have two holders and two waiters whose order can be wrong; limit 0
leaves three waiters.  Two clients with two attempts put up to four requests
before one permit, so an abandoned attempt of one client can hold it against
the other and against its own retry.  Two services are the shortest chain with
a retry loop inside a retry loop; a third would repeat the second.  Two builder
calls are what "the last one wins" needs.  Four requests of the rate limiter
fill two windows of quota 2, or one and the start of the next three of quota 1.  `MaxFrames`, `MaxTime`, `MaxAttempts` and `MaxCalls` are the only
counters that are cut off; the comments at their declarations say so.

Deadlock checking is off in every run: all models describe a finite number of
requests and stop when these are over.  That nothing stops too early is what
the liveness properties say.

**Fairness.**  `WF(Service)` and `WF(Prefetch)` in `RecvLimit`: the task is
polled when it can go on, and a client that has not stalled sends its next
frame; no fairness is assumed of the handler's polls.  In `CompressionBody` the
consumer polls until the end (it is hyper or the generated stub) and the inner
body is not pending for ever (strong fairness of `PullReady`, as `Pending`
alternates with it).  In the limiters woken tasks are polled, clocks run, and handlers outside `hangs` finish.  `RateLimit` needs
fairness of the polled tasks only.  `RetryUnderLoad`: every attempt ends by an
answer or by the endpoint's timeout, futures are polled and handlers finish.
`ClientServer`: the server's task and each call go on while they can, and
deadlines pass; nobody has to signal, to call or to give up.  `ServerPipeline`
has the fairness of `CompressionBody` and of the prefetch.  Clients never have
to cancel.

The type invariants of the modules (`TypeOK`, `RetryTypeOK`,
`PipelineTypeOK`, `SysTypeOK`) document the state; those of `RecvLimit`,
`ServerPipeline`, `ConcurrencyLimit` and `RateLimit` are proved.

## 4. The proofs

Every invariant and every action property that a passing run checks, and both
refinements, are theorems, for all values of the constants that satisfy the
assumptions named in the modules.  Each inductive invariant was checked by TLC
on the run's instance before it was proved.

| Module | Theorems | For every |
|---|---|---|
| `RecvLimitProofs` | `NoOversizedDelivery`, `FirstMessageChecked`, `RejectionIsJustified`, `ReplayInOrder`, `RejectionSticks`, `TypeCorrect` | header length, limit, length encoding, body and cut into frames |
| `ServerPipelineProofs` | `CutsAtBoundaries`, `CapIsEnforced`, `OwnMessagesAreNotRefused`, `WholeMessagesGoOn`, `BufferStaysBounded`, `TruncationIsReported`, `HandlerIsNotFlooded`, `TypeCorrect` | cap, receive limit, headroom, window range, codec, direction, stream and cut into frames |
| `CompressionNegotiationProofs` | `OnlyAcceptedEncodingsSent`, `LabelsAreTrue`, `CompressionIsInvisible` | pair of stacks, of any height, and body; the last two for `OneEncodingAsked` |
| `ConcurrencyLimitProofs` | `PermitsAreConserved`, `NoWakeupIsLost`, `NobodyOvertakes`, `RefinesAdmissionControl`, `TypeCorrect` | limit, finite set of requests, place of the timeout, set of hanging handlers |
| `RateLimitProofs` | `AtMostTwiceTheRate`, `KeepsLongRunRate`, `RefusesOnlyWhenFull`, `TypeCorrect` | rate, window, finite set of requests |
| `RetryUnderLoadProofs` | `ShedsOnlyWhenFull`, `SheddingRefinesAdmissionControl`, `RetriesWhenAllowed`, `ComposesItsParts`, `PartsKeepTheirPromises` | number of clients and attempts, retried codes, limit |
| `CallChainProofs` | `CredentialsAreDecisive`, `OneIdForAll`, `CallerLearns`, `LastingFailuresAreFinal` | length of the chain, number of attempts, credentials, interceptors in any order, verdicts of a custom validator |
| `ClientServerProofs` | `LastCallsAreServed`, `TrustDecides` | sequence of setter calls, set of TLS profiles, set of clients |

**Assumptions.**  They are the `ASSUME`s of the modules, which say what kind of
thing a constant is, that a limit the code takes from a positive default may be
any natural number, and that sets the models count are finite.  Four say more.
`ReadingsAssumption`: the ids `CallChain` generates are printable (the code
formats a number in hexadecimal).  `SizesAssumption`: the range of zstd windows
is not empty.  `RetryAssumption`: `"ok"` is not a status code.
`ScenariosAssumption`: a builder's call of `tls` names a profile.
`LabelsAreTrue` and `CompressionIsInvisible` have a hypothesis of their own,
`OneEncodingAsked`: the stub sends plain messages, the call lists at most one
encoding and at most one client layer compresses.  That is not for the proof's
sake: without it the code breaks the first of the two, as the run
`compression_stacked` shows.

**The arguments.**

*Receive limit.*  None of the properties is inductive alone: to know that a
header accepted now is a header of the sender one must know that the scan has
been in step all along.  `InStep` says so: unless an error has been reported,
`HeaderAt` (where the scan will look for the next header, or began the one it
is reading) is in `starts` or beyond the end of the body, the bytes it holds
are those of the body at that place, and every message before it was complete,
admissible and ends at or before it.  The step that accepts a header has to
show that no start lies strictly between the header and the end of its
message; as `starts` is the *least* closed set, that is proved by removing the
interval from it and showing the rest still closed (`NoStartInside`).
`AfterError` keeps what remains true after a rejection, `Chained` that frames
join without gaps, and `AtPrefetch`, `AtPrefix`, `AtScan`, `AtBody` tie the
control state to the data.

*Streaming body.*  `PipelineInv` keeps, besides the types, that the next
message to be cut begins where the sender's does (`CutAtBoundaries`), that each
outcome is the one `TransformOne` gives and a failed one was reported
(`Progress`), that a parked poll holds no whole message (`Parked`), that the
inner body ends only with all bytes delivered or an error handed on (`Source`),
and that nothing the limiter passed holds an oversized header (`WithinLimit`).
Beneath it are lemmas on the layout of a stream (`Start` is increasing by the
length of each frame) and on bit lengths: that the window an encoder picks for
a payload within the cap is one the decoder's ceiling admits follows from the
bit length being monotonic.  `OwnMessagesPass` is a property of steps: only
`GuardRejects` and `EmitMessage` refuse a message, and the one at the head of
the buffer is the sender's next (`HeaderIsOfNext`).

*Negotiation.*  `NotedIsTrue`: what a server layer noted about the client is
still what the request says when it reads the note after its await.
`OneEncoding` says that label and messages agree, `TakenOff` that the label
given by the client layer is gone behind the first server layer that has it.

*Concurrency limit.*  Permits and queue are needed together: a permit released
goes to the first waiter or, only if there is none, back to the pool, so
`QueueOfWaiters` (the queue lists the waiting requests once each, and is empty
while a permit is free) carries `PermitsConserved` through every cancellation.
Both limiters implement `AdmissionControl` by `Phase`; the guard of its `Enter`
is what the conservation of permits gives.

*Rate limit.*  `WindowsApart`: windows start at least one length apart, and
admissions lie between their window's start and the next, although the clock is
read twice and moves in between; `MutexInv`: nobody else changes window or
count between the reads.  Three windows therefore never touch one span of a
window's length, and each has let in at most the quota (`CountInv`).

*Retry under load.*  The composition implements its parts
(`ComposesItsParts`), so that their theorems hold in it.

*Chain of calls.*  `StatusTellsOrigin` follows a failure up the chain: the
status a hop gave, or its caller has just heard, is retriable exactly if the
failure was transient where it began.  `CredentialInv` and `IdInv` rest on what
a chain of interceptors of any length does to a request: whatever is called
after it, a credential once set and an id once readable remain.

*Configuration and TLS.*  `LastCallDecides` proves of the builders that a field
has the value of the last call that names it; `MeetingInv` that a server a
client has met is assembled from that configuration, and that each end's
verdict on the other is `Trusting`.

A recursive function over a list exists only if a function satisfying its
equation does; `FoldExists` shows it by a least counterexample (`LeastNatural`),
and `StaysIn` takes what each step preserves to the end.

**Only model-checked.**  The liveness properties (`Decides`,
`EventuallyAnswered`, `EveryCallEnds`, `EveryRequestSettled`,
`EveryCallReturns`, `ShutdownCompletes`), as TLAPS has no reasoning about
fairness and ENABLED here.  The four expected violations are counterexamples and
need no proof.

## 5. What is not modelled

Encoding of headers and statuses, the bytes of gzip and zstd, TLS records, DNS,
keep-alive and HTTP/2 flow control belong to libraries; they appear only as
environment steps.  Which endpoint a balanced channel picks is any of its list,
and the scheme of an endpoint is taken to match its TLS setting, as tonic
decides what a mismatch does.  The logging and metrics interceptors write log
lines and return their request unchanged; only that is modelled.  The crypto
provider is a single `Once`, and `lib.rs` only re-exports.  Arithmetic that
cannot be reached (2^64 requests in one window, a cap of `usize::MAX`) is not
modelled; `reframe`'s 32-bit limit is, as `MaxFrameLen`.  Nor is the `internal`
status for a compressor that fails (`src/middleware.rs:940`): it writes to
memory, which does not fail.

## 6. Plan

Everything section 1 lists as modelled is modelled and its safety properties
are proved.  What remains worth doing:

1. `RecvLimit` is reduced, in `ServerPipeline`, to the frame in which an
   oversized header becomes whole.  Prove of `RecvLimit` that its scan rejects
   in exactly that frame, which joins the two.
2. The refinement from `ServerPipeline` with `limited` false to
   `CompressionBody`, so that the theorems hold of the adapter alone.
3. The type invariants of `Retry` and `ClientServer`.
