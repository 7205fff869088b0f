---------------------------- MODULE ClientServer ----------------------------
(***************************************************************************)
(* A GrpcServer and clients that reach it, from their configurations to    *)
(* the server's end.  Each client has one connection and makes one call at *)
(* a time.  The handshake, HTTP/2 and the drain are tonic's, hyper's and   *)
(* rustls's, modelled by what the two sides have configured of them.       *)
(***************************************************************************)
EXTENDS GrpcServer, GrpcClient

CONSTANTS
    Scenarios,  \* the configurations that meet: of the server asked, entry
                \* and timeout_layer, and the clients' orders
    Foreign,    \* clients of another make, which have no deadline
    MaxCalls    \* bound: the calls of each client

ASSUME ForeignAssumption == Foreign \subseteq Clients

(* A builder's calls; those of tls name a profile, or no TLS.              *)
Calls(profiles) ==
    Seq([setter : STRING \ {"tls"}, value : STRING]
            \cup [setter : {"tls"}, value : profiles \cup {"unset"}])
ASSUME ScenariosAssumption ==
    /\ "unset" \notin DOMAIN ServerTls \cup DOMAIN ClientTls
    /\ \A s \in Scenarios :
          /\ s.asked \in Calls(DOMAIN ServerTls)
          /\ \A c \in Clients : s.order[c].calls \in Calls(DOMAIN ClientTls)

VARIABLES
    conn,       \* each client's connection
    call,       \* where its call is
    kind,       \* how its call goes
    calls       \* how many it has made

peers == <<conn, call, kind, calls>>
sysVars == <<serverVars, clientVars, peers>>

SysInit ==
    /\ \E s \in Scenarios :
          /\ ServerInit(s.asked, s.entry, s.timeout_layer)
          /\ ClientInit(s.order)
    /\ conn = [c \in Clients |-> "down"]
    /\ call = [c \in Clients |-> "idle"]
    /\ kind = [c \in Clients |-> "plain"]
    /\ calls = [c \in Clients |-> 0]

InFlight(c) == call[c] \in {"prefix", "handler", "stream"}
Reachable(url) == stage = "listening" /\ url = Config.bind_address

-----------------------------------------------------------------------------
(* The handshake, from what both sides gave tonic.                         *)

Offered == build_server_tls_config(server_tls)
Presented(c) ==
    IF ConfigOf(c).tls = "unset" THEN "unset" ELSE apply_tls(ConfigOf(c).tls).identity

(* A plaintext client finds out only when the server hangs up.             *)
ClientAccepts(c) ==
    ConfigOf(c).tls # "unset" =>
        /\ server_tls # "unset"
        /\ apply_tls(ConfigOf(c).tls).roots = Offered.issuer
        /\ apply_tls(ConfigOf(c).tls).domain \in {"unset", "localhost"}

ServerAccepts(c) ==
    server_tls # "unset" =>
        /\ ConfigOf(c).tls # "unset"
        /\ Offered.client_ca_cert_pem # "unset" =>
              \/ Presented(c) = Offered.client_ca_cert_pem
              \/ Presented(c) = "unset" /\ Offered.client_auth_optional

Wants(c) == channel[c] = "connecting" \/ call[c] = "sent"

Connect(c) ==
    /\ Wants(c) /\ conn[c] = "down"
    /\ \E url \in Urls(c) : Reachable(url)
    /\ IF ClientAccepts(c)
         THEN /\ conn' = [conn EXCEPT ![c] = "up"]
              /\ channel' = [channel EXCEPT ![c] = "ready"]
         ELSE /\ conn' = [conn EXCEPT ![c] = "refused"]
              /\ channel' = [channel EXCEPT ![c] =
                               IF @ = "connecting" THEN "transport_error" ELSE @]
    /\ UNCHANGED <<serverVars, order, endpoint, call, kind, calls>>

ConnectFails(c) ==
    /\ Wants(c) /\ conn[c] = "down"
    /\ \E url \in Urls(c) : ~Reachable(url)
    /\ channel' = [channel EXCEPT ![c] =
                     IF @ = "connecting" THEN "transport_error" ELSE @]
    /\ call' = [call EXCEPT ![c] = IF @ = "sent" THEN "failed" ELSE @]
    /\ UNCHANGED <<serverVars, order, endpoint, conn, kind, calls>>

(* The server's verdict reaches the client after its own handshake is      *)
(* done; a handshake that has begun is assumed to end.                     *)
Verify(c) ==
    /\ conn[c] = "up"
    /\ conn' = [conn EXCEPT ![c] = IF ServerAccepts(c) THEN "open" ELSE "refused"]
    /\ UNCHANGED <<serverVars, clientVars, call, kind, calls>>

-----------------------------------------------------------------------------
(* Calls.  A "plain" one runs through; the client of a "stalling" one      *)
(* never sends its first message; the handler of a "hanging" one never     *)
(* answers; a "watch" streams until its client closes it.                  *)

Send(c, k) ==
    /\ channel[c] = "ready" /\ call[c] \in {"idle", "done", "failed"}
    /\ calls[c] < MaxCalls
    /\ call' = [call EXCEPT ![c] = "sent"]
    /\ kind' = [kind EXCEPT ![c] = k]
    /\ calls' = [calls EXCEPT ![c] = @ + 1]
    /\ UNCHANGED <<serverVars, clientVars, conn>>

(* The receive limit's prefetch takes a request of the user's service; the *)
(* health service beside it has no such wrapper.                           *)
Arrive(c) ==
    /\ call[c] = "sent" /\ conn[c] = "open" /\ stage = "listening"
    /\ call' = [call EXCEPT ![c] =
                  IF kind[c] # "watch" THEN "prefix"
                  ELSE IF health = "absent" THEN "failed" ELSE "stream"]
    /\ UNCHANGED <<serverVars, clientVars, conn, kind, calls>>

(* Once the server drains or the connection is refused, a call that has    *)
(* not arrived fails.                                                      *)
Unserved(c) ==
    /\ call[c] = "sent"
    /\ conn[c] = "refused" \/ (conn[c] = "open" /\ stage \in {"draining", "stopped"})
    /\ call' = [call EXCEPT ![c] = "failed"]
    /\ UNCHANGED <<serverVars, clientVars, conn, kind, calls>>

HeaderArrives(c) ==
    /\ call[c] = "prefix" /\ kind[c] # "stalling"
    /\ call' = [call EXCEPT ![c] = "handler"]
    /\ UNCHANGED <<serverVars, clientVars, conn, kind, calls>>

(* The handler's answer, or the timeout layer's in its place.              *)
Answer(c) ==
    /\ call[c] = "handler" /\ (kind[c] # "hanging" \/ timeout_layer)
    /\ call' = [call EXCEPT ![c] = "done"]
    /\ UNCHANGED <<serverVars, clientVars, conn, kind, calls>>

(* Endpoint::timeout runs until the response head.                         *)
DeadlineOf(c) == c \notin Foreign /\ "timeout" \in DOMAIN endpoint[c]
ClientTimesOut(c) ==
    /\ call[c] \in {"sent", "prefix", "handler"} /\ DeadlineOf(c)
    /\ call' = [call EXCEPT ![c] = "failed"]
    /\ UNCHANGED <<serverVars, clientVars, conn, kind, calls>>

(* The user drops the call or the stream.                                  *)
Abandon(c) ==
    /\ InFlight(c)
    /\ call' = [call EXCEPT ![c] = "failed"]
    /\ UNCHANGED <<serverVars, clientVars, conn, kind, calls>>

Server == Starting \/ Drain \/ Stop(\A c \in Clients : ~InFlight(c))

Progress(c) ==
    \/ Connect(c) \/ ConnectFails(c) \/ Verify(c)
    \/ Arrive(c) \/ Unserved(c) \/ HeaderArrives(c) \/ Answer(c)

SysNext ==
    \/ (Server \/ Signal) /\ UNCHANGED <<clientVars, peers>>
    \/ \E c \in Clients :
          \/ Create(c) /\ UNCHANGED <<serverVars, peers>>
          \/ Progress(c)
          \/ \E k \in order[c].kinds : Send(c, k)
          \/ ClientTimesOut(c) \/ Abandon(c)

(* The server's task and each call go on while they can, and deadlines     *)
(* pass.  Nothing makes a user signal, call or abandon.                    *)
SysFairness ==
    /\ WF_sysVars(Server /\ UNCHANGED <<clientVars, peers>>)
    /\ \A c \in Clients : WF_sysVars(Progress(c)) /\ WF_sysVars(ClientTimesOut(c))

SysSpec == SysInit /\ [][SysNext]_sysVars /\ SysFairness

-----------------------------------------------------------------------------
(* Type invariant.                                                         *)
SysTypeOK ==
    /\ stage \in {"configured", "config_error", "built", "transport_error",
                  "assembled", "registered", "listening", "server_error",
                  "draining", "stopped"}
    /\ health \in {"absent", "SERVING"}
    /\ channel \in [Clients -> {"none", "connecting", "ready", "config_error",
                                "transport_error"}]
    /\ conn \in [Clients -> {"down", "up", "open", "refused"}]
    /\ call \in [Clients -> {"idle", "sent", "prefix", "handler", "stream",
                             "done", "failed"}]
    /\ calls \in [Clients -> 0..MaxCalls]

(* Whoever gets through to a server finds it as its caller asked: at the   *)
(* address last bound, with the receive limit and every transport setting  *)
(* that the last call to name it gave, or its default.  Health checks      *)
(* answer SERVING from the first connection on unless turned off, and      *)
(* reflection is served only if turned on (it may fail to build).  A       *)
(* malformed address stops the server exactly if no later one replaced it. *)
(* max_send_message_size is not among what is promised: it has no effect.  *)
(* For tls, see ServedExactlyIfTrusting.                                   *)
BoundLast == LastValue(asked, {"bind_address", "bind_socket_addr"}, "50051")
ServesAsAsked ==
    /\ stage = "config_error" => BoundLast \in Malformed
    /\ (\E c \in Clients : conn[c] \in {"up", "open"}) =>
        /\ BoundLast = Config.bind_address
        /\ recv_limit = LastValue(asked, {"max_recv_message_size"}, "4MB")
        /\ \A f \in TransportSettings :
              /\ f \in DOMAIN transport
              /\ transport[f] = LastValue(asked, Naming(f), ServerDefault[f])
        /\ health = IF LastValue(asked, {"enable_health_check"}, "on") = "on"
                      THEN "SERVING" ELSE "absent"
        /\ reflection = "served" => LastValue(asked, {"enable_reflection"}, "off") = "on"

(* A request reaches the receive limit or a handler only between peers     *)
(* that their configurations let trust each other, and such peers never    *)
(* refuse one another: half an identity is none, an optional one may be    *)
(* missing but not wrong, and the last tls call replaces the one before.   *)
Trusting(c) ==
    LET s == LastValue(asked, {"tls"}, "unset")
        t == LastValue(order[c].calls, {"tls"}, "unset")
    IN  IF "unset" \in {s, t} THEN s = t
        ELSE /\ ClientTls[t].ca_cert_pem = ServerTls[s].issuer
             /\ ClientTls[t].domain_name \in {"unset", "localhost"}
             /\ LET whole == "unset" \notin {ClientTls[t].client_cert_pem,
                                             ClientTls[t].client_key_pem}
                    ca == ServerTls[s].client_ca_cert_pem
                IN  ca # "unset" =>
                      IF whole THEN ClientTls[t].client_cert_pem = ca
                               ELSE ServerTls[s].client_auth_optional
ServedExactlyIfTrusting ==
    \A c \in Clients :
        /\ InFlight(c) => Trusting(c)
        /\ conn[c] = "refused" => ~Trusting(c)

(* After the signal the server stops, unless it is held for ever by a      *)
(* stream, or by a client without a deadline: inside the first header,     *)
(* where no layer's timeout runs yet, or behind a handler that has none.   *)
(* Of the kinds of calls there are here, nothing else delays it for ever;  *)
(* a handshake that stalls and a response that is not read are taken not   *)
(* to hold tonic's drain.                                                  *)
Holds(c) ==
    \/ call[c] = "stream"
    \/ c \in Foreign /\ call[c] = "prefix"
    \/ c \in Foreign /\ call[c] = "handler" /\ ~timeout_layer
ShutdownCompletes ==
    \/ (stage = "listening" /\ signalled) ~> (stage = "stopped")
    \/ <>[](\E c \in Clients : Holds(c))

=============================================================================
