--------------------------- MODULE Configuration ---------------------------
(***************************************************************************)
(* The configuration builders (src/config.rs) and what server and client   *)
(* make of a configuration before they hand it to tonic: build_transport   *)
(* and build_server_tls_config (src/server.rs), configure_endpoint and     *)
(* apply_tls (src/client.rs).                                              *)
(*                                                                         *)
(* A builder is the sequence of its setters' calls, a call the setter's    *)
(* name and a value named by a string.  A value of "tls" names a profile.  *)
(* The fields are public: assigning one is a call of the field's name.     *)
(***************************************************************************)
EXTENDS Naturals, Sequences

CONSTANTS
    Malformed,      \* addresses and URLs that do not parse
    ServerTls,      \* GrpcServerTlsConfig by name
    ClientTls       \* GrpcClientTlsConfig by name

ServerTlsConfig ==
    [valid : BOOLEAN,                \* cert_pem and key_pem parse
     issuer : STRING,                \* the CA that signed cert_pem
     client_ca_cert_pem : STRING,    \* "unset" or a CA
     client_auth_optional : BOOLEAN]

ClientTlsConfig ==
    [valid : BOOLEAN,
     ca_cert_pem : STRING,
     domain_name : STRING,
     client_cert_pem : STRING,       \* "unset" or the CA that signed it
     client_key_pem : STRING]

ASSUME ServerTlsAssumption == \A p \in DOMAIN ServerTls : ServerTls[p] \in ServerTlsConfig
ASSUME ClientTlsAssumption == \A p \in DOMAIN ClientTls : ClientTls[p] \in ClientTlsConfig

-----------------------------------------------------------------------------
(* The fields and their defaults.  initial_connection_window_size and      *)
(* initial_stream_window_size have no setter.                              *)

ServerDefault ==
    [bind_address |-> "50051",
     max_recv_message_size |-> "4MB", max_send_message_size |-> "4MB",
     http2_keepalive_interval |-> "default", http2_keepalive_timeout |-> "default",
     tcp_keepalive |-> "60s", tcp_nodelay |-> "on",
     enable_health_check |-> "on", enable_reflection |-> "off",
     concurrency_limit_per_connection |-> "unset",
     initial_connection_window_size |-> "unset",
     initial_stream_window_size |-> "unset",
     tls |-> "unset"]

ClientDefault ==
    [endpoint |-> "50051", timeout |-> "30s", connect_timeout |-> "10s",
     http2_keepalive_interval |-> "default", http2_keepalive_timeout |-> "default",
     tcp_keepalive |-> "60s", tcp_nodelay |-> "on",
     concurrency_limit |-> "unset", rate_limit |-> "unset",
     initial_connection_window_size |-> "unset",
     initial_stream_window_size |-> "unset",
     retry_enabled |-> "on", max_retry_attempts |-> "3",
     tls |-> "unset"]

(* The fields a setter assigns, where they are not the one of its name.    *)
Fields(setter) ==
    CASE setter = "http2_keepalive" ->
            {"http2_keepalive_interval", "http2_keepalive_timeout"}
      [] setter = "bind_socket_addr" -> {"bind_address"}
      [] setter = "retry" -> {"retry_enabled"}
      [] OTHER -> {setter}

ServerFields(setter) ==
    IF setter = "concurrency_limit" THEN {"concurrency_limit_per_connection"}
                                    ELSE Fields(setter)

Assign(config, fields, value) ==
    [f \in DOMAIN config |-> IF f \in fields THEN value ELSE config[f]]

(* A malformed bind address is remembered until a later one parses.        *)
BadAddress(call) == call.setter = "bind_address" /\ call.value \in Malformed
ErrorAfterSticky(b, call) == b.bind_address_error \/ BadAddress(call)
ErrorAfter(b, call) ==
    IF "bind_address" \in ServerFields(call.setter) THEN BadAddress(call)
                                                    ELSE b.bind_address_error
ServerCall(b, call) ==
    [config |-> IF BadAddress(call) THEN b.config
                ELSE Assign(b.config, ServerFields(call.setter), call.value),
     bind_address_error |-> ErrorAfter(b, call)]

ServerBuilder(calls) ==
    LET after[k \in 0..Len(calls)] ==
            IF k = 0 THEN [config |-> ServerDefault, bind_address_error |-> FALSE]
                     ELSE ServerCall(after[k - 1], calls[k])
    IN  after[Len(calls)]

ClientCall(config, call) == Assign(config, Fields(call.setter), call.value)
ClientBuilder(calls) ==
    LET after[k \in 0..Len(calls)] ==
            IF k = 0 THEN ClientDefault ELSE ClientCall(after[k - 1], calls[k])
    IN  after[Len(calls)]

-----------------------------------------------------------------------------
(* What tonic is given.  A field that is "unset" leaves tonic's default.   *)

build_server_tls_configRequiring(p) ==
    [ServerTls[p] EXCEPT !.client_auth_optional = FALSE]
build_server_tls_config(p) ==
    IF ServerTls[p].client_ca_cert_pem = "unset"
      THEN [ServerTls[p] EXCEPT !.client_auth_optional = FALSE]
      ELSE ServerTls[p]

TransportFieldsForgettingInterval ==
    {"tcp_nodelay", "tcp_keepalive", "http2_keepalive_timeout",
     "initial_connection_window_size", "initial_stream_window_size",
     "concurrency_limit_per_connection"}
TransportFields ==
    {"tcp_nodelay", "tcp_keepalive",
     "http2_keepalive_interval", "http2_keepalive_timeout",
     "initial_connection_window_size", "initial_stream_window_size",
     "concurrency_limit_per_connection"}

build_transport(config) == [f \in TransportFields |-> config[f]]

(* The identity counts only with both of its halves.                       *)
apply_tls(p) ==
    [roots |-> ClientTls[p].ca_cert_pem,
     domain |-> ClientTls[p].domain_name,
     identity |-> IF "unset" \in {ClientTls[p].client_cert_pem,
                                  ClientTls[p].client_key_pem}
                    THEN "unset" ELSE ClientTls[p].client_cert_pem]

EndpointFieldsForgettingTimeout ==
    {"connect_timeout", "tcp_nodelay", "tcp_keepalive",
     "http2_keepalive_interval", "http2_keepalive_timeout",
     "initial_connection_window_size", "initial_stream_window_size",
     "concurrency_limit", "rate_limit"}
EndpointFields ==
    {"timeout", "connect_timeout", "tcp_nodelay", "tcp_keepalive",
     "http2_keepalive_interval", "http2_keepalive_timeout",
     "initial_connection_window_size", "initial_stream_window_size",
     "concurrency_limit", "rate_limit"}

configure_endpoint(config) == [f \in EndpointFields |-> config[f]]

-----------------------------------------------------------------------------
(* The reference the builders are checked against: the last call that      *)
(* names a field decides it.                                               *)
LastValue(calls, setters, default) ==
    LET naming == {i \in DOMAIN calls : calls[i].setter \in setters}
    IN  IF naming = {} THEN default
                       ELSE calls[CHOOSE i \in naming : \A j \in naming : j <= i].value

(* The settings meant for the transport: all but the address, those of the *)
(* services and their messages, and tls.                                   *)
TransportSettings ==
    DOMAIN ServerDefault \
        {"bind_address", "max_recv_message_size", "max_send_message_size",
         "enable_health_check", "enable_reflection", "tls"}

(* The setters that name one of them.                                      *)
Naming(f) ==
    CASE f \in {"http2_keepalive_interval", "http2_keepalive_timeout"} ->
            {f, "http2_keepalive"}
      [] f = "concurrency_limit_per_connection" -> {f, "concurrency_limit"}
      [] OTHER -> {f}

=============================================================================
