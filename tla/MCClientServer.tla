--------------------------- MODULE MCClientServer ---------------------------
(***************************************************************************)
(* Three families of scenarios: every two calls of the server's builder    *)
(* against a client that asks for nothing, every pair of TLS profiles in   *)
(* every constructor, and a shutdown with two clients in every situation.  *)
(***************************************************************************)
EXTENDS ClientServer

Server_(ca, lax) ==
    [valid |-> TRUE, issuer |-> "ca", client_ca_cert_pem |-> ca,
     client_auth_optional |-> lax]
MCServerTls ==
    [tls |-> Server_("unset", FALSE), lenient |-> Server_("unset", TRUE),
     mutual |-> Server_("users", FALSE), optional |-> Server_("users", TRUE),
     bad |-> [Server_("unset", FALSE) EXCEPT !.valid = FALSE]]

Client_(ca, domain, cert, key) ==
    [valid |-> TRUE, ca_cert_pem |-> ca, domain_name |-> domain,
     client_cert_pem |-> cert, client_key_pem |-> key]
MCClientTls ==
    [anonymous |-> Client_("ca", "unset", "unset", "unset"),
     user |-> Client_("ca", "localhost", "users", "users"),
     keyless |-> Client_("ca", "localhost", "users", "unset"),
     stranger |-> Client_("ca", "unset", "others", "others"),
     mistaken |-> Client_("others", "unset", "users", "users"),
     misnamed |-> Client_("ca", "elsewhere", "users", "users"),
     bad |-> [Client_("ca", "unset", "unset", "unset") EXCEPT !.valid = FALSE]]

MCMalformed == {"malformed"}

Setter(name, value) == [setter |-> name, value |-> value]
ServerCalls == {
    Setter("bind_address", "a"), Setter("bind_address", "malformed"),
    Setter("bind_socket_addr", "50051"),
    Setter("max_recv_message_size", "1KB"), Setter("http2_keepalive", "10s"),
    Setter("http2_keepalive_timeout", "2s"), Setter("http2_keepalive_interval", "unset"),
    Setter("tcp_keepalive", "5s"), Setter("tcp_nodelay", "off"),
    Setter("initial_stream_window_size", "1MB"), Setter("concurrency_limit", "5"),
    Setter("enable_health_check", "off"), Setter("enable_reflection", "on") }
Tls(p) == Setter("tls", p)
UpToTwo(S) == UNION {[1..n -> S] : n \in 0..2}

Order(asks, how, urls, kinds) ==
    [calls |-> asks, how |-> how, list |-> urls, kinds |-> kinds]
Absent == Order(<<Setter("endpoint", "malformed")>>, "connect", {}, {})
Two(a, b) == [c \in Clients |-> IF c \in Foreign THEN b ELSE a]
Scenario(asks, how, layered, orders) ==
    [asked |-> asks, entry |-> how, timeout_layer |-> layered, order |-> orders]

Configured == {
    Scenario(asks, "serve", FALSE,
             Two(Order(<<Setter("endpoint", u)>>, "connect", {}, {"plain"}), Absent)) :
    asks \in UpToTwo(ServerCalls), u \in {"a", "50051"} }

Trusts == {
    Scenario(s, "serve", FALSE,
             Two(Order(t, how, {"50051", "nowhere"}, {"plain", "watch"}), Absent)) :
    s \in {<<Tls(p), Tls(q)>> : p \in {"mutual", "tls"}, q \in DOMAIN MCServerTls}
          \cup {<< >>},
    t \in {<<Tls(p)>> : p \in DOMAIN MCClientTls} \cup {<< >>},
    how \in {"connect", "lazy", "connect_balanced"} }

AllKinds == {"plain", "stalling", "hanging", "watch"}
Shutdowns == {
    Scenario(asks, "serve_with_shutdown", layered,
             Two(Order(<<Setter("timeout", "1s")>>, how, {}, AllKinds),
                 Order(<< >>, "lazy", {}, AllKinds))) :
    asks \in {<< >>, <<Setter("enable_health_check", "off")>>},
    how \in {"connect", "lazy"}, layered \in BOOLEAN }

MCScenarios == Configured \cup Trusts \cup Shutdowns

=============================================================================
