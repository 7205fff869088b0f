--------------------------- MODULE RetryUnderLoad ---------------------------
(***************************************************************************)
(* Callers that retry (Retry) against a server that sheds load             *)
(* (LoadShedding).  Attempt i of client c is the request <<c, i>>.  A      *)
(* client that gives an attempt up does not take it back: it may reach the *)
(* server, run or be answered during later ones, and hold a permit then.   *)
(***************************************************************************)
EXTENDS Retry, LoadShedding

CONSTANTS
    FailCodes,      \* how an attempt can fail on the client's side
    Answers         \* what handlers answer

ASSUME LoadAssumption ==
    /\ Requests = Clients \X (1..MaxAttempts)
    /\ FailCodes \cup {"Unavailable"} \subseteq Codes /\ Answers \subseteq Outcomes

VARIABLE result     \* per attempt, what the server answered, or "none"

server == <<vars, result>>
sysVars == <<retryVars, server>>

SysInit ==
    /\ RetryInit /\ Init
    /\ result = [r \in Requests |-> "none"]

-----------------------------------------------------------------------------
(* A client's steps.                                                       *)
Begin(c) == CallWithRetry(c) /\ UNCHANGED server

(* make_call().await gives the answer to the attempt it was called for.    *)
Receive(c) ==
    /\ attempt[c] > 0 /\ result[<<c, attempt[c]>>] # "none"
    /\ Conclude(c, result[<<c, attempt[c]>>])
    /\ UNCHANGED server

(* The attempt fails on the client's side: the endpoint's timeout, a lost  *)
(* connection.                                                             *)
Fail(c) ==
    /\ \E o \in FailCodes : Conclude(c, o)
    /\ UNCHANGED server

GiveUp(c) == Abandon(c) /\ UNCHANGED server

-----------------------------------------------------------------------------
(* The server's steps.                                                     *)
Sent(r) == r[2] <= attempt[r[1]]

Arrive(r) ==
    /\ Sent(r) /\ Call(r)
    /\ UNCHANGED <<retryVars, result>>

Work(r) ==
    /\ Start(r) \/ HandlerFinishes(r)
    /\ UNCHANGED <<retryVars, result>>

Answer(r) ==
    /\ Respond(r)
    /\ \E o \in Answers : result' = [result EXCEPT ![r] = o]
    /\ UNCHANGED retryVars

(* A refusal is answered with `unavailable`.                               *)
Refuse(r) ==
    /\ state[r] = "shed" /\ Close(r)
    /\ result' = [result EXCEPT ![r] = "Unavailable"]
    /\ UNCHANGED retryVars

EndBody(r) ==
    /\ state[r] = "body" /\ Close(r)
    /\ UNCHANGED <<retryVars, result>>

(* The stream of the attempt is reset: its client gave up, or the          *)
(* connection broke.                                                       *)
Reset(r) ==
    /\ Drop(r)
    /\ UNCHANGED <<retryVars, result>>

-----------------------------------------------------------------------------
SysNext ==
    \/ \E c \in Clients : Begin(c) \/ Receive(c) \/ Fail(c) \/ GiveUp(c)
    \/ \E r \in Requests :
          Arrive(r) \/ Work(r) \/ Answer(r) \/ Refuse(r) \/ EndBody(r) \/ Reset(r)

(* Every attempt ends, by an answer or by the endpoint's timeout, which    *)
(* configure_endpoint always sets; futures are polled and handlers finish. *)
SysFairness ==
    /\ \A c \in Clients : WF_sysVars(Receive(c) \/ Fail(c))
    /\ \A r \in Requests : WF_sysVars(Work(r) \/ Answer(r))

SysSpec == SysInit /\ [][SysNext]_sysVars
SysFairSpec == SysSpec /\ SysFairness

-----------------------------------------------------------------------------
(* Immediate retries cannot keep a call going: even while the server       *)
(* refuses every attempt and the client gives others up, each call returns.*)
EveryCallReturns ==
    \A c \in Clients : client[c] = "calling" ~> client[c] \in {"returned", "dropped"}

=============================================================================
