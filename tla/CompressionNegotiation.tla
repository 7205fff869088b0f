----------------------- MODULE CompressionNegotiation -----------------------
(***************************************************************************)
(* One call through CompressionClientService and CompressionService        *)
(* (src/middleware.rs): a stub, a stack of client layers, the wire, a      *)
(* stack of server layers, a handler, and the way back.  Every layer       *)
(* decides from headers what it does to the body, and a server layer       *)
(* decides about the response by what it read from the request.            *)
(*                                                                         *)
(* CompressionBody has a module of its own: here a body is its sequence of *)
(* messages, of which only the flag and the codec are told apart.          *)
(***************************************************************************)
EXTENDS Naturals, Sequences

CONSTANTS
    Encodings,      \* the wire names: gzip, zstd
    ClientStacks,   \* client layers, outermost first; "None" compresses not
    ServerStacks,   \* server layers, likewise
    StubCodecs,     \* what the stub itself may send with: "plain" if nothing
    StubAccepts,    \* the grpc-accept-encoding sets it may send
    Shapes          \* per message of a body, whether its sender, if it
                    \* compresses at all, compresses this one

ASSUME NegotiationAssumption ==
    /\ {"plain", "corrupt", "absent", "None"} \cap Encodings = {}
    /\ ClientStacks \cup ServerStacks \subseteq Seq(Encodings \cup {"None"})
    /\ StubCodecs \subseteq Encodings \cup {"plain"}
    /\ StubAccepts \subseteq SUBSET Encodings
    /\ Shapes \subseteq Seq(BOOLEAN)

VARIABLES
    client, server, \* the two stacks
    leg,            \* "request", "response" or "returned"
    hop,            \* the layer whose turn it is, counted from the stub
    label,          \* the grpc-encoding header of what is under way
    accept,         \* the grpc-accept-encoding header of the request
    noted,          \* per layer, client_accepts_our_encoding
    body            \* its messages

stacks == <<client, server>>
vars == <<client, server, leg, hop, label, accept, noted, body>>

Path == client \o server
OnClient(i) == i <= Len(client)

Message(codec, yes) ==
    IF yes /\ codec # "plain" THEN [flag |-> 1, codec |-> codec]
                              ELSE [flag |-> 0, codec |-> "plain"]
BodyOf(shape, codec) == [i \in DOMAIN shape |-> Message(codec, shape[i])]
LabelOf(codec) == IF codec = "plain" THEN "absent" ELSE codec

Init ==
    /\ client \in ClientStacks /\ server \in ServerStacks
    /\ leg = "request" /\ hop = 1
    /\ \E codec \in StubCodecs, shape \in Shapes :
          label = LabelOf(codec) /\ body = BodyOf(shape, codec)
    /\ accept \in StubAccepts
    /\ noted = [i \in 1..Len(Path) |-> FALSE]

-----------------------------------------------------------------------------
(* compression_body over each message: frames with the other flag go by.   *)
CompressAgain(e, m) == [flag |-> 1, codec |-> IF m.flag = 0 THEN e ELSE "corrupt"]
Compress(e, m) == IF m.flag = 0 THEN [flag |-> 1, codec |-> e] ELSE m
Decompress(e, m) ==
    IF m.flag = 0 THEN m
    ELSE [flag |-> 0, codec |-> IF m.codec = e THEN "plain" ELSE "corrupt"]

CompressBody(e) == body' = [i \in DOMAIN body |-> Compress(e, body[i])]
DecompressBody(e) == body' = [i \in DOMAIN body |-> Decompress(e, body[i])]

Inward == hop' = hop + 1
Outward == hop' = hop - 1

(* A layer configured with CompressionEncoding::None steps aside.          *)
StepAside ==
    /\ hop \in 1..Len(Path) /\ Path[hop] = "None"
    /\ leg \in {"request", "response"}
    /\ IF leg = "request" THEN Inward ELSE Outward
    /\ UNCHANGED <<stacks, leg, label, accept, noted, body>>

AtLayer(l) == leg = l /\ hop \in 1..Len(Path) /\ Path[hop] # "None"

(* The client layer overwrites both headers, whatever they said.           *)
ClientRequest ==
    /\ AtLayer("request") /\ OnClient(hop)
    /\ label' = Path[hop]
    /\ accept' = {Path[hop]}
    /\ CompressBody(Path[hop])
    /\ Inward
    /\ UNCHANGED <<stacks, leg, noted>>

(* The server layer decompresses what is labelled with its own encoding,   *)
(* and notes whether the client can take it back.                          *)
ServerRequest ==
    /\ AtLayer("request") /\ ~OnClient(hop)
    /\ noted' = [noted EXCEPT ![hop] = Path[hop] \in accept]
    /\ IF label = Path[hop]
         THEN label' = "absent" /\ DecompressBody(Path[hop])
         ELSE UNCHANGED <<label, body>>
    /\ Inward
    /\ UNCHANGED <<stacks, leg, accept>>

(* The handler answers without compressing anything itself; a refusal has  *)
(* an empty body.                                                          *)
Handle ==
    /\ leg = "request" /\ hop = Len(Path) + 1
    /\ leg' = "response" /\ hop' = Len(Path)
    /\ label' = "absent"
    /\ \E shape \in Shapes : body' = BodyOf(shape, "plain")
    /\ UNCHANGED <<stacks, accept, noted>>

ServerResponseUnasked ==
    /\ AtLayer("response") /\ ~OnClient(hop)
    /\ label' = Path[hop] /\ CompressBody(Path[hop])
    /\ Outward
    /\ UNCHANGED <<stacks, leg, accept, noted>>
ServerResponse ==
    /\ AtLayer("response") /\ ~OnClient(hop)
    /\ IF noted[hop]
         THEN label' = Path[hop] /\ CompressBody(Path[hop])
         ELSE UNCHANGED <<label, body>>
    /\ Outward
    /\ UNCHANGED <<stacks, leg, accept, noted>>

(* The client layer undoes what is labelled with its own encoding.         *)
ClientResponseKeepingLabel ==
    /\ AtLayer("response") /\ OnClient(hop)
    /\ IF label = Path[hop]
         THEN DecompressBody(Path[hop]) ELSE UNCHANGED body
    /\ Outward
    /\ UNCHANGED <<stacks, leg, label, accept, noted>>
ClientResponse ==
    /\ AtLayer("response") /\ OnClient(hop)
    /\ IF label = Path[hop]
         THEN label' = "absent" /\ DecompressBody(Path[hop])
         ELSE UNCHANGED <<label, body>>
    /\ Outward
    /\ UNCHANGED <<stacks, leg, accept, noted>>

Return ==
    /\ leg = "response" /\ hop = 0
    /\ leg' = "returned"
    /\ UNCHANGED <<stacks, hop, label, accept, noted, body>>

Next ==
    \/ StepAside \/ ClientRequest \/ ServerRequest \/ Handle
    \/ ServerResponse \/ ClientResponse \/ Return

Spec == Init /\ [][Next]_vars

-----------------------------------------------------------------------------
(* Between any two layers a compressed message is compressed with exactly  *)
(* the encoding the headers name, and no message is damaged on the way.    *)
LabelsTellTheTruth ==
    \A i \in DOMAIN body :
        body[i].codec = IF body[i].flag = 1 THEN label ELSE "plain"

(* Where both sides carry the encoding the client layer uses, compression  *)
(* is invisible: handler and stub see plain messages without a label.      *)
Shared ==
    \E i \in 1..Len(client), j \in 1..Len(server) :
        client[i] = server[j] /\ client[i] # "None"
Invisible ==
    Shared /\ (leg = "returned" \/ (leg = "request" /\ hop = Len(Path) + 1)) =>
        label = "absent" /\ \A i \in DOMAIN body : body[i].codec = "plain"

(* No response crosses the wire in an encoding the request that crossed it *)
(* did not list, although server layers behind others see it later.        *)
OnlyAcceptedEncodings ==
    leg = "response" /\ hop = Len(client) => label \in accept \cup {"absent"}

(* What the doc comment of wrap_server says: a response is compressed with *)
(* the layer's encoding when the request lists it, which is what the       *)
(* grpc-encoding header it inserts then claims.                            *)
ResponseUsesItsEncoding ==
    leg = "response" /\ hop = Len(client) =>
        \A i \in DOMAIN body : body[i].flag = 1 => body[i].codec = label

=============================================================================
