----------------------------- MODULE GrpcClient -----------------------------
(***************************************************************************)
(* GrpcClient (src/client.rs): the three ways to a GrpcChannel.  connect   *)
(* waits for a connection; lazy and connect_balanced leave connecting to   *)
(* the first call.                                                         *)
(***************************************************************************)
EXTENDS Configuration

CONSTANT Clients

VARIABLES
    order,      \* what each client asks for: its configuration calls, the
                \* constructor, and the list given to connect_balanced
    channel,    \* what its constructor has come to
    endpoint    \* what configure_endpoint has given tonic

clientVars == <<order, channel, endpoint>>

ConfigOf(c) == ClientBuilder(order[c].calls)

(* connect_balanced has its own list, and ignores config.endpoint.         *)
Urls(c) ==
    IF order[c].how = "connect_balanced" THEN order[c].list
                                         ELSE {ConfigOf(c).endpoint}

ClientInit(orders) ==
    /\ order = orders
    /\ channel = [c \in Clients |-> "none"]
    /\ endpoint = [c \in Clients |-> << >>]

(* One malformed URL fails the whole list.                                 *)
UrlFails(c) ==
    /\ channel[c] = "none" /\ Urls(c) \cap Malformed # {}
    /\ channel' = [channel EXCEPT ![c] = "config_error"]
    /\ UNCHANGED <<order, endpoint>>

TlsRejected(c) == ConfigOf(c).tls # "unset" /\ ~ClientTls[ConfigOf(c).tls].valid

ApplyTlsFails(c) ==
    /\ channel[c] = "none" /\ Urls(c) \cap Malformed = {} /\ TlsRejected(c)
    /\ channel' = [channel EXCEPT ![c] = "transport_error"]
    /\ UNCHANGED <<order, endpoint>>

Configure(c) ==
    /\ channel[c] = "none" /\ Urls(c) \cap Malformed = {} /\ ~TlsRejected(c)
    /\ endpoint' = [endpoint EXCEPT ![c] = configure_endpoint(ConfigOf(c))]
    /\ channel' = [channel EXCEPT ![c] =
                     IF order[c].how = "connect" THEN "connecting" ELSE "ready"]
    /\ UNCHANGED order

Create(c) == UrlFails(c) \/ ApplyTlsFails(c) \/ Configure(c)

=============================================================================
