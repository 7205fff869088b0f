----------------------------- MODULE GrpcServer -----------------------------
(***************************************************************************)
(* The life of one server (src/server.rs): from the configuration's        *)
(* builder through serve, serve_with_middleware or serve_with_shutdown to  *)
(* the end of its drain.  tonic binds, listens and drains.                 *)
(***************************************************************************)
EXTENDS Configuration

VARIABLES
    asked,          \* the calls that made the configuration
    entry,          \* the entry point, "serve" or "serve_with_shutdown"
    timeout_layer,  \* the service was wrapped by TimeoutMiddleware
    stage,          \* how far the server is
    transport,      \* what build_transport has given tonic
    server_tls,     \* its ServerTlsConfig, or "unset"
    recv_limit,     \* max_recv_message_size of the wrapper
    health,         \* what the health service says of the user's service
    reflection,     \* "served" or "absent"
    signalled       \* the caller's shutdown signal has fired

request == <<asked, entry, timeout_layer>>
assembly == <<transport, server_tls, recv_limit>>
services == <<health, reflection>>
serverVars == <<request, stage, assembly, services, signalled>>

Config == ServerBuilder(asked).config

ServerInit(calls, how, layered) ==
    /\ asked = calls /\ entry = how /\ timeout_layer = layered
    /\ stage = "configured"
    /\ transport = << >> /\ server_tls = "unset" /\ recv_limit = "unset"
    /\ health = "absent" /\ reflection = "absent"
    /\ signalled = FALSE

(* GrpcServerConfigBuilder::build reports a malformed bind address.        *)
Build ==
    /\ stage = "configured"
    /\ stage' = IF ServerBuilder(asked).bind_address_error THEN "config_error"
                                                          ELSE "built"
    /\ UNCHANGED <<request, assembly, services, signalled>>

TlsFails == Config.tls # "unset" /\ ~ServerTls[Config.tls].valid

BuildTransportFails ==
    /\ stage = "built" /\ TlsFails
    /\ stage' = "transport_error"
    /\ UNCHANGED <<request, assembly, services, signalled>>

BuildTransport ==
    /\ stage = "built" /\ ~TlsFails
    /\ transport' = build_transport(Config)
    /\ server_tls' = Config.tls
    /\ recv_limit' = Config.max_recv_message_size
    /\ stage' = "assembled"
    /\ UNCHANGED <<request, services, signalled>>

(* A reflection service that does not build is logged and left out.        *)
RegisterOptionalServices ==
    /\ stage = "assembled"
    /\ health' = IF Config.enable_health_check = "on" THEN "SERVING" ELSE "absent"
    /\ reflection' \in IF Config.enable_reflection = "on" THEN {"served", "absent"}
                                                        ELSE {"absent"}
    /\ stage' = "registered"
    /\ UNCHANGED <<request, assembly, signalled>>

(* The address may be taken: GrpcError::Server.                            *)
Bind ==
    /\ stage = "registered"
    /\ stage' \in {"listening", "server_error"}
    /\ UNCHANGED <<request, assembly, services, signalled>>

(* The signal is awaited only by serve_with_shutdown, and may have fired   *)
(* before the server listens.                                              *)
Signal ==
    /\ entry = "serve_with_shutdown" /\ ~signalled
    /\ signalled' = TRUE
    /\ UNCHANGED <<request, stage, assembly, services>>

Drain ==
    /\ stage = "listening" /\ signalled
    /\ stage' = "draining"
    /\ UNCHANGED <<request, assembly, services, signalled>>

(* idle: no request is in flight on any connection.                        *)
Stop(idle) ==
    /\ stage = "draining" /\ idle
    /\ stage' = "stopped"
    /\ UNCHANGED <<request, assembly, services, signalled>>

Starting ==
    \/ Build \/ BuildTransportFails \/ BuildTransport
    \/ RegisterOptionalServices \/ Bind

=============================================================================
