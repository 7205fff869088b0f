-------------------------------- MODULE Retry --------------------------------
(***************************************************************************)
(* GrpcChannel::call_with_retry (src/client.rs) over                       *)
(* RetryMiddleware::call_with_retry (src/middleware.rs), for callers that  *)
(* share a channel.  Here an attempt may end in any way; RetryUnderLoad    *)
(* adds the server the attempts go to.                                     *)
(***************************************************************************)
EXTENDS Naturals

CONSTANTS
    Clients,
    Codes,          \* the error codes a call can fail with
    RetryCodes,     \* retry_codes
    MaxAttempts     \* bound: the largest max_retry_attempts tried

ASSUME RetryAssumption ==
    /\ RetryCodes \subseteq Codes /\ MaxAttempts \in Nat \ {0}
    /\ Codes \cap {"none", "ok"} = {}

VARIABLES
    retry_enabled, max_retry_attempts,   \* the channel's configuration
    client,     \* per client: "idle", "calling", "returned" or "dropped"
    attempt,    \* per client, the attempts made so far
    seen        \* per client and attempt, what make_call() gave it

config == <<retry_enabled, max_retry_attempts>>
retryVars == <<config, client, attempt, seen>>

Outcomes == Codes \cup {"ok"}

max_attempts == IF max_retry_attempts = 0 THEN 1 ELSE max_retry_attempts

RetryInit ==
    /\ retry_enabled \in BOOLEAN
    /\ max_retry_attempts \in 0..MaxAttempts
    /\ client = [c \in Clients |-> "idle"]
    /\ attempt = [c \in Clients |-> 0]
    /\ seen = [c \in Clients |-> [i \in 1..MaxAttempts |-> "none"]]

-----------------------------------------------------------------------------
should_retry(o) == o \in RetryCodes

CallWithRetry(c) ==
    /\ client[c] = "idle"
    /\ client' = [client EXCEPT ![c] = "calling"]
    /\ attempt' = [attempt EXCEPT ![c] = 1]
    /\ UNCHANGED <<config, seen>>

(* make_call().await gave o: the loop goes round, or returns it.           *)
AgainOnceLess(c, o) ==
    retry_enabled /\ attempt[c] < max_attempts - 1 /\ should_retry(o)
Again(c, o) == retry_enabled /\ attempt[c] < max_attempts /\ should_retry(o)

ConcludeUncounted(c, o) ==
    /\ client[c] = "calling"
    /\ seen' = [seen EXCEPT ![c][attempt[c]] = o]
    /\ \/ Again(c, o) /\ UNCHANGED <<attempt, client>>
       \/ ~Again(c, o) /\ client' = [client EXCEPT ![c] = "returned"] /\ UNCHANGED attempt
    /\ UNCHANGED config
Conclude(c, o) ==
    /\ client[c] = "calling"
    /\ seen' = [seen EXCEPT ![c][attempt[c]] = o]
    /\ \/ Again(c, o) /\ attempt' = [attempt EXCEPT ![c] = @ + 1] /\ UNCHANGED client
       \/ ~Again(c, o) /\ client' = [client EXCEPT ![c] = "returned"] /\ UNCHANGED attempt
    /\ UNCHANGED config

(* The caller drops the future.                                            *)
Abandon(c) ==
    /\ client[c] = "calling"
    /\ client' = [client EXCEPT ![c] = "dropped"]
    /\ UNCHANGED <<config, attempt, seen>>

RetryNext ==
    \E c \in Clients :
        CallWithRetry(c) \/ Abandon(c) \/ \E o \in Outcomes : Conclude(c, o)

RetrySpec == RetryInit /\ [][RetryNext]_retryVars

-----------------------------------------------------------------------------
(* Type invariant.                                                         *)
RetryTypeOK ==
    /\ retry_enabled \in BOOLEAN /\ max_retry_attempts \in 0..MaxAttempts
    /\ client \in [Clients -> {"idle", "calling", "returned", "dropped"}]
    /\ attempt \in [Clients -> 0..MaxAttempts]
    /\ seen \in [Clients -> [1..MaxAttempts -> Outcomes \cup {"none"}]]

(* The loop goes on exactly as long as it may: nothing but a retriable     *)
(* failure is followed by another attempt, so no answer is thrown away,    *)
(* there are never more attempts than configured (one when retry is off),  *)
(* and a retriable failure is returned only once they are used up.         *)
RetriesExactlyWhenAllowed ==
    \A c \in Clients :
        /\ \A i \in 1..MaxAttempts : i < attempt[c] => seen[c][i] \in RetryCodes
        /\ attempt[c] <= IF retry_enabled THEN max_attempts ELSE 1
        /\ client[c] = "returned" /\ retry_enabled /\ seen[c][attempt[c]] \in RetryCodes =>
              attempt[c] = max_attempts

=============================================================================
