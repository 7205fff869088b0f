------------------------------ MODULE CallChain ------------------------------
(***************************************************************************)
(* One call through a chain of services: the client of hop 1 calls server  *)
(* 1, whose handler calls server 2, and so on.  Every client prepares its  *)
(* request with interceptors and retries it (call_with_retry); every       *)
(* server authenticates it with server_interceptor; every handler makes    *)
(* sure of a request id, hands it to the request of the next hop, and      *)
(* answers its own failures and those of the next hop with `?`, through    *)
(* GrpcError::to_status.  Nothing runs concurrently: each waits for the    *)
(* next.                                                                   *)
(***************************************************************************)
EXTENDS Interceptors, FiniteSets

CONSTANTS
    Hops,           \* how many services in a row
    Settings,       \* sets of services, per hop what its client and its server
                    \* are set up with: [chain, client, server]
    IdHeaders,      \* the header names the request id may be configured with
    OwnIds,         \* the caller's own request id, or Absent
    Readings,       \* the ids generated from the clock
    MaxAttempts     \* max_retry_attempts

ASSUME ChainAssumption == Hops \in Nat \ {0} /\ MaxAttempts \in Nat \ {0}
ASSUME SettingsAssumption ==
    /\ Settings \subseteq [1..Hops -> [chain  : Seq(Interceptor),
                                       client : AuthType, server : AuthType]]
    /\ IdHeaders \subseteq Headers
    /\ OwnIds \subseteq Value
(* The generated ids are hexadecimal numbers.                              *)
ASSUME ReadingsAssumption ==
    \A id \in Readings : id \in Value /\ id # Absent /\ Printable(id)

VARIABLES
    setting,
    idHeader, ownId,
    hop, pc,        \* whose turn it is: "send", "admit", "handle", "return"
    attempt,        \* per hop, the attempts its client has made for this request
    md,             \* per hop, the metadata of the request it is working on
    status,         \* per hop, how its last request ended
    admitted,       \* history: requests that got past server_interceptor
    seenIds,        \* history: <<attempt of the first hop, id some handler saw>>
    origin          \* history: what the last handler or interceptor to fail said

fixed == <<setting, idHeader, ownId>>
vars == <<fixed, hop, pc, attempt, md, status, admitted, seenIds, origin>>

-----------------------------------------------------------------------------
RetryCodes == {"Unavailable", "ResourceExhausted", "Aborted", "DeadlineExceeded"}

ErrorKinds ==
    {"Transport", "Connection", "Config", "Timeout", "Auth", "Interceptor", "Server"}

to_status(kind) ==
    CASE kind \in {"Transport", "Connection"} -> "Unavailable"
      [] kind = "Config"                      -> "InvalidArgument"
      [] kind = "Timeout"                     -> "DeadlineExceeded"
      [] kind = "Auth"                        -> "Unauthenticated"
      [] kind \in {"Interceptor", "Server"}   -> "Internal"

(* A status received from the next hop is GrpcError::Status, and converts  *)
(* back to itself.                                                         *)
PassOnAsInternal(s) == IF s = "ok" THEN s ELSE "Internal"
PassOn(s) == s

Init ==
    /\ setting \in Settings
    /\ idHeader \in IdHeaders /\ ownId \in OwnIds
    /\ hop = 1 /\ pc = "send"
    /\ attempt = [h \in 1..Hops |-> 0]
    /\ md = [h \in 1..Hops |-> NoMetadata]
    /\ status = [h \in 1..Hops |-> "none"]
    /\ admitted = {} /\ seenIds = {} /\ origin = "none"

-----------------------------------------------------------------------------
(* make_call(): a fresh request with the id that came with the request in  *)
(* hand, or the caller's own, through the client's interceptors.           *)
Inherited ==
    IF hop = 1 THEN ownId ELSE extract_request_id(md[hop - 1], idHeader)

NewRequest ==
    IF Inherited = Absent THEN NoMetadata ELSE [NoMetadata EXCEPT ![idHeader] = Inherited]

Send ==
    /\ pc = "send"
    /\ \E fresh \in Readings :
          md' = [md EXCEPT ![hop] =
                    Intercept(setting[hop].chain, setting[hop].client, idHeader,
                              fresh, NewRequest)]
    /\ attempt' = [attempt EXCEPT ![hop] = @ + 1]
    /\ pc' = "admit"
    /\ UNCHANGED <<fixed, hop, status, admitted, seenIds, origin>>

(* The attempt does not reach the server, and tonic reports it.            *)
Lost ==
    /\ pc = "admit"
    /\ status' = [status EXCEPT ![hop] = "Unavailable"]
    /\ origin' = "Unavailable"
    /\ pc' = "return"
    /\ UNCHANGED <<fixed, hop, attempt, md, admitted, seenIds>>

Reject ==
    /\ pc = "admit" /\ Validate(setting[hop].server, md[hop]) # "ok"
    /\ status' = [status EXCEPT ![hop] = Validate(setting[hop].server, md[hop])]
    /\ origin' = Validate(setting[hop].server, md[hop])
    /\ pc' = "return"
    /\ UNCHANGED <<fixed, hop, attempt, md, admitted, seenIds>>

(* The handler begins by calling RequestIdInterceptor::intercept.          *)
Admit ==
    /\ pc = "admit" /\ Validate(setting[hop].server, md[hop]) = "ok"
    /\ \E fresh \in Readings :
          md' = [md EXCEPT ![hop] = EnsureRequestId(@, idHeader, fresh)]
    /\ admitted' = admitted \cup {[hop |-> hop, md |-> md[hop]]}
    /\ seenIds' =
          LET id == extract_request_id(md'[hop], idHeader)
          IN  IF id = Absent THEN seenIds ELSE seenIds \cup {<<attempt[1], id>>}
    /\ pc' = "handle"
    /\ UNCHANGED <<fixed, hop, attempt, status, origin>>

-----------------------------------------------------------------------------
(* The handler needs the next service.                                     *)
Descend ==
    /\ pc = "handle" /\ hop < Hops /\ attempt[hop + 1] = 0
    /\ hop' = hop + 1 /\ pc' = "send"
    /\ UNCHANGED <<fixed, attempt, md, status, admitted, seenIds, origin>>

(* It answers on its own account.                                          *)
Succeed ==
    /\ pc = "handle" /\ (hop < Hops => attempt[hop + 1] = 0 \/ status[hop + 1] = "ok")
    /\ status' = [status EXCEPT ![hop] = "ok"]
    /\ pc' = "return"
    /\ UNCHANGED <<fixed, hop, attempt, md, admitted, seenIds, origin>>

FailItself ==
    /\ pc = "handle" /\ (hop < Hops => attempt[hop + 1] = 0 \/ status[hop + 1] = "ok")
    /\ \E kind \in ErrorKinds :
          /\ status' = [status EXCEPT ![hop] = to_status(kind)]
          /\ origin' = kind
    /\ pc' = "return"
    /\ UNCHANGED <<fixed, hop, attempt, md, admitted, seenIds>>

(* `?` on the result of the next hop.                                      *)
FailWithNext ==
    /\ pc = "handle" /\ hop < Hops /\ attempt[hop + 1] > 0 /\ status[hop + 1] # "ok"
    /\ status' = [status EXCEPT ![hop] = PassOn(status[hop + 1])]
    /\ pc' = "return"
    /\ UNCHANGED <<fixed, hop, attempt, md, admitted, seenIds, origin>>

(* call_with_retry of this hop's client goes round.                        *)
MayRetryUnasked == status[hop] # "ok" /\ attempt[hop] < MaxAttempts
MayRetry == status[hop] \in RetryCodes /\ attempt[hop] < MaxAttempts

RetryHop ==
    /\ pc = "return" /\ MayRetry
    /\ attempt' = [h \in 1..Hops |-> IF h > hop THEN 0 ELSE attempt[h]]
    /\ pc' = "send"
    /\ UNCHANGED <<fixed, hop, md, status, admitted, seenIds, origin>>

(* It returns to the handler that waits for it, or to the caller.          *)
ReturnUp ==
    /\ pc = "return" /\ ~MayRetry /\ hop > 1
    /\ hop' = hop - 1 /\ pc' = "handle"
    /\ UNCHANGED <<fixed, attempt, md, status, admitted, seenIds, origin>>

Deliver ==
    /\ pc = "return" /\ ~MayRetry /\ hop = 1
    /\ pc' = "done"
    /\ UNCHANGED <<fixed, hop, attempt, md, status, admitted, seenIds, origin>>

Next ==
    \/ Send \/ Lost \/ Reject \/ Admit \/ Descend \/ Succeed \/ FailItself
    \/ FailWithNext \/ RetryHop \/ ReturnUp \/ Deliver

Spec == Init /\ [][Next]_vars

-----------------------------------------------------------------------------
(* The header and the value a server looks for, and whether a client can   *)
(* send them at all.                                                       *)
HeaderOf(auth) == IF auth.type = "bearer" THEN "authorization" ELSE auth.header
CredentialOf(auth) ==
    IF auth.type = "bearer" THEN WithBearer(auth.text) ELSE Plain(auth.text)
Sendable(auth) == HeaderKind[HeaderOf(auth)] = "ascii" /\ Printable(CredentialOf(auth))

AuthHeaders ==
    {HeaderOf(a) : a \in {x \in {setting[h].client : h \in 1..Hops} : x.type # "custom"}}

(* A handler only ever sees requests with exactly the credential its       *)
(* server asks for, and a client set up with that credential is let in,    *)
(* whatever other interceptors it calls, in whatever order.                *)
CredentialsDecide ==
    /\ \A a \in admitted :
          LET server == setting[a.hop].server
          IN  server.type # "custom" =>
                  a.md[HeaderOf(server)] = CredentialOf(server) /\ Sendable(server)
    /\ LET s == setting[hop]
       IN  pc = "admit" /\ s.server.type # "custom" /\ s.client = s.server
             /\ Sendable(s.server) /\ "auth" \in {s.chain[i] : i \in 1..Len(s.chain)} =>
               Validate(s.server, md[hop]) = "ok"

(* All handlers that work for one attempt of the caller see the same       *)
(* request id, retries between the services included; and it is the        *)
(* caller's own id on every attempt, if it can be read.  This takes a      *)
(* header the credentials do not use.                                      *)
OneIdPerCall ==
    idHeader \notin AuthHeaders =>
        /\ \A p, q \in seenIds : p[1] = q[1] => p[2] = q[2]
        /\ ownId # Absent /\ Printable(ownId) => \A p \in seenIds : p[2] = ownId

(* Failures that trying again may cure, as their authors see them: the     *)
(* kinds of error that say so, and the statuses retried by default.        *)
Transient == {"Transport", "Connection", "Timeout"} \cup RetryCodes

(* After any other failure, however deep, no client along the chain sends  *)
(* another attempt.                                                        *)
PermanentFailureIsFinal ==
    [][(origin \notin Transient \cup {"none"}) => UNCHANGED attempt]_vars

(* The caller can tell from its status whether the failure behind it was   *)
(* a passing one.                                                          *)
CallerLearnsWhetherTransient ==
    pc = "done" /\ status[1] # "ok" => (status[1] \in RetryCodes <=> origin \in Transient)

=============================================================================
