-------------------- MODULE CompressionNegotiationProofs --------------------
(***************************************************************************)
(* Proofs for CompressionNegotiation, for stacks of any height.  That no   *)
(* response crosses the wire in an encoding the client did not list holds  *)
(* for every client.  Labels match messages, and compression is invisible, *)
(* if the call asks for one encoding at most: the run compression_stacked  *)
(* shows what becomes of it otherwise.                                     *)
(***************************************************************************)
EXTENDS CompressionNegotiation, TLAPS

(* The stub sends plain messages and lists one encoding at most, and at    *)
(* most one client layer compresses for it.                                *)
OneEncodingAsked ==
    /\ StubCodecs \subseteq {"plain"}
    /\ \A A \in StubAccepts : \A e, f \in A : e = f
    /\ \A s \in ClientStacks : Len(s) <= 1

-----------------------------------------------------------------------------
(* The inductive invariants.                                               *)

Layer == Encodings \cup {"None"}

Typed ==
    /\ client \in Seq(Layer) /\ server \in Seq(Layer)
    /\ leg \in {"request", "response", "returned"}
    /\ hop \in 0..(Len(Path) + 1)
    /\ leg = "request" => hop >= 1
    /\ leg = "response" => hop <= Len(Path)
    /\ leg = "returned" => hop = 0
    /\ label \in Encodings \cup {"absent"}
    /\ accept \subseteq Encodings
    /\ noted \in [1..Len(Path) -> BOOLEAN]

(* What a server layer noted is still what the request says.               *)
NotedIsTrue ==
    \A i \in 1..Len(Path) : noted[i] =>
        i > Len(client) /\ Path[i] \in accept /\ (leg = "request" => i < hop)

AcceptedOnWire ==
    leg = "response" /\ hop >= Len(client) => label \in accept \cup {"absent"}

WireInv == Typed /\ NotedIsTrue /\ AcceptedOnWire

(* One encoding at most is under way, and it is what the label says.       *)
Truthful(m) ==
    \/ m.flag = 0 /\ m.codec = "plain"
    \/ m.flag = 1 /\ m.codec = label /\ label \in Encodings
TruthfulBody == \A i \in DOMAIN body : Truthful(body[i])
OneEncoding ==
    /\ Len(client) <= 1
    /\ \A e, f \in accept : e = f
    /\ TruthfulBody
    /\ leg = "request" /\ hop <= Len(client) => label = "absent"
    /\ leg = "response" => label \in accept \cup {"absent"}

(* The client layer's encoding is on until the first server layer that has *)
(* it, and off again behind the client layer.                              *)
TakenOff ==
    Len(client) = 1 /\ client[1] # "None" =>
        /\ (leg = "request" /\ hop <= 1) \/ accept = {client[1]}
        /\ leg = "request" /\ hop > 1 =>
              /\ label \in {client[1], "absent"}
              /\ \A j \in 1..Len(server) :
                    label = client[1] /\ server[j] = client[1] => hop <= j + 1
        /\ leg # "request" /\ hop = 0 => label = "absent"

TruthInv == WireInv /\ OneEncoding /\ TakenOff

-----------------------------------------------------------------------------
(* The path of a call runs through the client's layers, then the server's. *)
LEMMA PathIs ==
    ASSUME client \in Seq(Layer), server \in Seq(Layer)
    PROVE  /\ Path \in Seq(Layer)
           /\ Len(Path) = Len(client) + Len(server)
           /\ Len(client) \in Nat /\ Len(server) \in Nat /\ Len(Path) \in Nat
           /\ \A i \in 1..Len(client) : Path[i] = client[i]
           /\ \A j \in 1..Len(server) : Path[Len(client) + j] = server[j]
           /\ \A i \in 1..Len(Path) : Path[i] \in Layer
<1>1. Path \in Seq(Layer) /\ Len(Path) = Len(client) + Len(server)
  BY DEF Path
<1>2. Len(client) \in Nat /\ Len(server) \in Nat
  OBVIOUS
<1>3. \A i \in 1..Len(client) : Path[i] = client[i]
  BY DEF Path
<1>4. \A j \in 1..Len(server) : Path[Len(client) + j] = server[j]
  BY DEF Path
<1> QED
  BY <1>1, <1>2, <1>3, <1>4

(* Between one and at most one there is one.                               *)
LEMMA OnlyOne ==
    ASSUME NEW k \in Nat, NEW n \in Nat, k >= 1, k <= n, n <= 1 PROVE k = 1 /\ n = 1
OBVIOUS

(* A call goes through the same layers both ways.                           *)
LEMMA PathStays == ASSUME UNCHANGED stacks PROVE Path' = Path
BY DEF stacks, Path

(* A call starts at the stub, with nothing noted.                           *)
LEMMA WireInitially == Init => WireInv
<1> SUFFICES ASSUME Init PROVE WireInv
  OBVIOUS
<1>1. client \in Seq(Layer) /\ server \in Seq(Layer)
  BY NegotiationAssumption DEF Init, Layer
<1>2. Len(Path) \in Nat
  BY <1>1, PathIs
<1>3. label \in Encodings \cup {"absent"}
  BY NegotiationAssumption DEF Init, LabelOf
<1>4. accept \subseteq Encodings
  BY NegotiationAssumption DEF Init
<1>5. Typed
  BY <1>1, <1>2, <1>3, <1>4 DEF Init, Typed
<1> QED
  BY <1>5 DEF Init, WireInv, NotedIsTrue, AcceptedOnWire

(* No layer disturbs what the server layers noted about the client.         *)
LEMMA WireStep == WireInv /\ [Next]_vars => WireInv'
<1> SUFFICES ASSUME WireInv, [Next]_vars PROVE WireInv'
  OBVIOUS
<1>t. /\ Typed /\ NotedIsTrue /\ AcceptedOnWire
      /\ client \in Seq(Layer) /\ server \in Seq(Layer)
  BY DEF WireInv, Typed
<1>q. /\ Len(Path) = Len(client) + Len(server)
      /\ Len(Path) \in Nat /\ Len(client) \in Nat /\ Len(server) \in Nat
      /\ \A i \in 1..Len(Path) : Path[i] \in Layer
  BY <1>t, PathIs
<1>l. Len(client) <= Len(Path)
  BY <1>q
<1>0. /\ Typed /\ NotedIsTrue /\ AcceptedOnWire
      /\ client \in Seq(Layer) /\ server \in Seq(Layer)
      /\ Len(Path) \in Nat /\ Len(client) \in Nat /\ Len(client) <= Len(Path)
      /\ \A i \in 1..Len(Path) : Path[i] \in Layer
  BY <1>t, <1>q, <1>l
<1>u. UNCHANGED stacks
  BY DEF Next, StepAside, ClientRequest, ServerRequest, Handle, ServerResponse,
         ClientResponse, Return, vars, stacks
<1>p. Path' = Path /\ client' = client /\ server' = server
  BY <1>u, PathStays DEF stacks
<1> USE DEF Inward, Outward, OnClient
<1>1. CASE StepAside
  <2>1. Typed'
    BY <1>0, <1>p, <1>1 DEF StepAside, Typed
  <2>2. NotedIsTrue' /\ AcceptedOnWire'
    BY <1>0, <1>p, <1>1 DEF StepAside, Typed, NotedIsTrue, AcceptedOnWire
  <2> QED
    BY <2>1, <2>2 DEF WireInv
<1>2. CASE ClientRequest
  <2>1. Path[hop] \in Encodings
    BY <1>0, <1>2 DEF ClientRequest, AtLayer, Layer
  <2>2. Typed'
    BY <1>0, <1>p, <1>2, <2>1 DEF ClientRequest, AtLayer, Typed
  <2>3. NotedIsTrue' /\ AcceptedOnWire'
    BY <1>0, <1>p, <1>2 DEF ClientRequest, AtLayer, Typed, NotedIsTrue, AcceptedOnWire
  <2> QED
    BY <2>2, <2>3 DEF WireInv
<1>3. CASE ServerRequest
  <2>1. Typed'
    BY <1>0, <1>p, <1>3 DEF ServerRequest, AtLayer, Typed
  <2>2. NotedIsTrue' /\ AcceptedOnWire'
    BY <1>0, <1>p, <1>3 DEF ServerRequest, AtLayer, Typed, NotedIsTrue, AcceptedOnWire
  <2> QED
    BY <2>1, <2>2 DEF WireInv
<1>4. CASE Handle
  <2>1. Typed'
    BY <1>0, <1>p, <1>4 DEF Handle, Typed
  <2>2. NotedIsTrue' /\ AcceptedOnWire'
    BY <1>0, <1>p, <1>4 DEF Handle, Typed, NotedIsTrue, AcceptedOnWire
  <2> QED
    BY <2>1, <2>2 DEF WireInv
<1>5. CASE ServerResponse
  <2>1. noted[hop] => Path[hop] \in accept
    BY <1>0, <1>5 DEF ServerResponse, AtLayer, NotedIsTrue
  <2>2. Typed'
    BY <1>0, <1>p, <1>5, <2>1 DEF ServerResponse, AtLayer, Typed
  <2>3. NotedIsTrue' /\ AcceptedOnWire'
    BY <1>0, <1>p, <1>5, <2>1
       DEF ServerResponse, AtLayer, Typed, NotedIsTrue, AcceptedOnWire
  <2> QED
    BY <2>2, <2>3 DEF WireInv
<1>6. CASE ClientResponse
  <2>1. Typed'
    BY <1>0, <1>p, <1>6 DEF ClientResponse, AtLayer, Typed
  <2>2. NotedIsTrue' /\ AcceptedOnWire'
    BY <1>0, <1>p, <1>6 DEF ClientResponse, AtLayer, Typed, NotedIsTrue, AcceptedOnWire
  <2> QED
    BY <2>1, <2>2 DEF WireInv
<1>7. CASE Return \/ UNCHANGED vars
  <2>1. Typed'
    BY <1>0, <1>p, <1>7 DEF Return, vars, Typed
  <2>2. NotedIsTrue' /\ AcceptedOnWire'
    BY <1>0, <1>p, <1>7 DEF Return, vars, Typed, NotedIsTrue, AcceptedOnWire
  <2> QED
    BY <2>1, <2>2 DEF WireInv
<1> QED
  BY <1>1, <1>2, <1>3, <1>4, <1>5, <1>6, <1>7 DEF Next

(* What is noted about the client is true in every state.                   *)
LEMMA WireHolds == Spec => []WireInv
<1> QED
  BY WireInitially, WireStep, PTL DEF Spec

(* No response crosses the wire in an encoding that the request which      *)
(* crossed it did not list, whatever the stacks.                           *)
THEOREM OnlyAcceptedEncodingsSent == Spec => []OnlyAcceptedEncodings
<1>1. WireInv => OnlyAcceptedEncodings
  BY PathIs DEF WireInv, Typed, AcceptedOnWire, OnlyAcceptedEncodings
<1> QED
  BY <1>1, WireHolds, PTL

-----------------------------------------------------------------------------
(* One encoding.                                                           *)

(* The stub's message is plain and unlabelled.                              *)
LEMMA TruthInitially == OneEncodingAsked /\ Init => TruthInv
<1> SUFFICES ASSUME OneEncodingAsked, Init PROVE TruthInv
  OBVIOUS
<1>1. WireInv
  BY WireInitially
<1>2. label = "absent"
  BY DEF OneEncodingAsked, Init, LabelOf
<1>3. \A i \in DOMAIN body : body[i].flag = 0 /\ body[i].codec = "plain"
  BY DEF OneEncodingAsked, Init, BodyOf, Message
<1>4. OneEncoding
  BY <1>2, <1>3 DEF OneEncodingAsked, Init, OneEncoding, TruthfulBody, Truthful
<1>5. TakenOff
  BY DEF Init, TakenOff
<1> QED
  BY <1>1, <1>4, <1>5 DEF TruthInv

(* Whatever a layer does to the body it says in the label.                  *)
LEMMA TruthStep == TruthInv /\ [Next]_vars => TruthInv'
<1> SUFFICES ASSUME TruthInv, [Next]_vars PROVE TruthInv'
  OBVIOUS
<1>t. /\ Typed /\ NotedIsTrue /\ OneEncoding /\ TakenOff
      /\ client \in Seq(Layer) /\ server \in Seq(Layer) /\ hop \in 0..(Len(Path) + 1)
  BY DEF TruthInv, WireInv, Typed
<1>q. /\ Len(Path) = Len(client) + Len(server)
      /\ Len(Path) \in Nat /\ Len(client) \in Nat /\ Len(server) \in Nat
      /\ \A i \in 1..Len(client) : Path[i] = client[i]
      /\ \A j \in 1..Len(server) : Path[Len(client) + j] = server[j]
      /\ \A i \in 1..Len(Path) : Path[i] \in Layer
  BY <1>t, PathIs
<1>h. hop \in Nat
  BY <1>t, <1>q
<1>w. WireInv'
  BY WireStep DEF TruthInv
<1>0. /\ WireInv' /\ Typed /\ NotedIsTrue /\ OneEncoding /\ TakenOff
      /\ client \in Seq(Layer) /\ server \in Seq(Layer)
      /\ Len(Path) = Len(client) + Len(server)
      /\ Len(Path) \in Nat /\ Len(client) \in Nat /\ Len(server) \in Nat
      /\ \A i \in 1..Len(client) : Path[i] = client[i]
      /\ \A j \in 1..Len(server) : Path[Len(client) + j] = server[j]
      /\ \A i \in 1..Len(Path) : Path[i] \in Layer
      /\ hop \in Nat
  BY <1>t, <1>q, <1>h, <1>w
<1>n. "absent" \notin Encodings /\ "None" \notin Encodings
  BY NegotiationAssumption
<1>u. UNCHANGED stacks
  BY DEF Next, StepAside, ClientRequest, ServerRequest, Handle, ServerResponse,
         ClientResponse, Return, vars, stacks
<1>p. Path' = Path /\ client' = client /\ server' = server
  BY <1>u, PathStays DEF stacks
<1> USE DEF Inward, Outward, OnClient
<1>1. CASE StepAside
  <2>1. OneEncoding'
    BY <1>0, <1>p, <1>1 DEF StepAside, OneEncoding, TruthfulBody, Truthful
  <2>2. TakenOff'
    BY <1>0, <1>p, <1>1 DEF StepAside, TakenOff
  <2> QED
    BY <1>0, <2>1, <2>2 DEF TruthInv
<1>2. CASE ClientRequest
  <2>1. hop = 1 /\ Len(client) = 1 /\ label = "absent" /\ Path[hop] \in Encodings
          /\ Path[hop] = client[1]
    <3>1. hop <= Len(client) /\ leg = "request" /\ Path[hop] # "None" /\ hop \in 1..Len(Path)
      BY <1>2 DEF ClientRequest, AtLayer
    <3>2. Len(client) <= 1 /\ label = "absent"
      BY <1>0, <3>1 DEF OneEncoding
    <3>n. hop >= 1 /\ hop \in Nat /\ Len(client) \in Nat
      BY <1>q, <1>h, <3>1
    <3>3. hop = 1 /\ Len(client) = 1
      BY <3>1, <3>2, <3>n, OnlyOne
    <3> QED
      BY <1>0, <3>1, <3>2, <3>3 DEF Layer
  <2>2. label' = client[1] /\ accept' = {client[1]} /\ leg' = "request" /\ hop' = 2
          /\ body' = [i \in DOMAIN body |-> Compress(client[1], body[i])]
    BY <1>2, <2>1 DEF ClientRequest, AtLayer, CompressBody
  <2>3. \A i \in DOMAIN body : body[i].flag = 0
    BY <1>0, <1>n, <2>1 DEF OneEncoding, TruthfulBody, Truthful
  <2>4. OneEncoding'
    BY <1>0, <1>p, <2>1, <2>2, <2>3 DEF OneEncoding, TruthfulBody, Truthful, Compress
  <2>5. TakenOff'
    BY <1>0, <1>p, <2>1, <2>2 DEF TakenOff
  <2> QED
    BY <1>0, <2>4, <2>5 DEF TruthInv
<1>3. CASE ServerRequest
  <2>1. OneEncoding'
    <3>1. CASE label = Path[hop]
      <4>1. label' = "absent" /\ body' = [i \in DOMAIN body |-> Decompress(label, body[i])]
        BY <1>3, <3>1 DEF ServerRequest, DecompressBody
      <4>2. TruthfulBody
        BY <1>0 DEF OneEncoding
      <4>3. TruthfulBody'
        BY <4>1, <4>2 DEF TruthfulBody, Truthful, Decompress
      <4> QED
        BY <1>0, <1>p, <1>3, <4>1, <4>3 DEF ServerRequest, AtLayer, OneEncoding, TruthfulBody, Truthful
    <3>2. CASE label # Path[hop]
      BY <1>0, <1>p, <1>3, <3>2 DEF ServerRequest, AtLayer, OneEncoding, TruthfulBody, Truthful
    <3> QED
      BY <3>1, <3>2
  <2>2. TakenOff'
    BY <1>0, <1>p, <1>n, <1>3 DEF ServerRequest, AtLayer, TakenOff, Layer
  <2> QED
    BY <1>0, <2>1, <2>2 DEF TruthInv
<1>4. CASE Handle
  <2>1. \A i \in DOMAIN body' : body'[i].flag = 0 /\ body'[i].codec = "plain"
    BY <1>4 DEF Handle, BodyOf, Message
  <2>2. OneEncoding'
    BY <1>0, <1>p, <1>4, <2>1 DEF Handle, OneEncoding, TruthfulBody, Truthful
  <2>3. TakenOff'
    BY <1>0, <1>p, <1>4 DEF Handle, TakenOff
  <2> QED
    BY <1>0, <2>2, <2>3 DEF TruthInv
<1>5. CASE ServerResponse
  <2>1. CASE noted[hop]
    <3>1. Path[hop] \in accept /\ Path[hop] \in Encodings
      BY <1>0, <1>5, <2>1 DEF ServerResponse, AtLayer, NotedIsTrue, Typed
    <3>2. label' = Path[hop] /\ body' = [i \in DOMAIN body |-> Compress(Path[hop], body[i])]
            /\ accept' = accept /\ leg = "response" /\ leg' = leg /\ hop' = hop - 1
      BY <1>5, <2>1 DEF ServerResponse, AtLayer, CompressBody
    <3>3. \A i \in DOMAIN body : Truthful(body[i]) /\ (body[i].flag = 1 => label = Path[hop])
      BY <1>0, <1>n, <3>1, <3>2 DEF OneEncoding, TruthfulBody, Truthful
    <3>4. TruthfulBody'
      BY <3>1, <3>2, <3>3 DEF TruthfulBody, Truthful, Compress
    <3>5. OneEncoding'
      BY <1>0, <1>p, <3>1, <3>2, <3>4 DEF OneEncoding, TruthfulBody, Truthful
    <3> QED
      BY <1>0, <1>p, <1>5, <3>2, <3>5
         DEF TruthInv, TakenOff, ServerResponse, AtLayer
  <2>2. CASE ~noted[hop]
    <3>1. OneEncoding'
      BY <1>0, <1>p, <1>5, <2>2 DEF ServerResponse, AtLayer, OneEncoding, TruthfulBody, Truthful
    <3>2. TakenOff'
      BY <1>0, <1>p, <1>5, <2>2 DEF ServerResponse, AtLayer, TakenOff
    <3> QED
      BY <1>0, <3>1, <3>2 DEF TruthInv
  <2> QED
    BY <2>1, <2>2
<1>6. CASE ClientResponse
  <2>1. hop = 1 /\ Len(client) = 1 /\ Path[hop] = client[1] /\ client[1] # "None"
          /\ leg = "response" /\ leg' = leg /\ hop' = 0 /\ accept' = accept
    <3>1. /\ hop <= Len(client) /\ leg = "response" /\ Path[hop] # "None"
          /\ hop \in 1..Len(Path) /\ leg' = leg /\ hop' = hop - 1 /\ accept' = accept
      BY <1>6 DEF ClientResponse, AtLayer
    <3>2. Len(client) <= 1
      BY <1>0 DEF OneEncoding
    <3>n. hop >= 1 /\ hop \in Nat /\ Len(client) \in Nat
      BY <1>q, <1>h, <3>1
    <3>3. hop = 1 /\ Len(client) = 1
      BY <3>1, <3>2, <3>n, OnlyOne
    <3> QED
      BY <1>0, <3>1, <3>3
  <2>2. CASE label = Path[hop]
    <3>1. label' = "absent" /\ body' = [i \in DOMAIN body |-> Decompress(label, body[i])]
      BY <1>6, <2>2 DEF ClientResponse, DecompressBody
    <3>2. TruthfulBody
      BY <1>0 DEF OneEncoding
    <3>3. TruthfulBody'
      BY <3>1, <3>2 DEF TruthfulBody, Truthful, Decompress
    <3>4. OneEncoding'
      BY <1>0, <1>p, <2>1, <3>1, <3>3 DEF OneEncoding, TruthfulBody, Truthful
    <3> QED
      BY <1>0, <1>p, <2>1, <3>1, <3>4 DEF TruthInv, TakenOff
  <2>3. CASE label # Path[hop]
    <3>1. UNCHANGED <<label, body>>
      BY <1>6, <2>3 DEF ClientResponse
    <3>2. label = "absent"
      BY <1>0, <2>1, <2>3 DEF OneEncoding, TakenOff
    <3>3. OneEncoding'
      BY <1>0, <1>p, <2>1, <3>1 DEF OneEncoding, TruthfulBody, Truthful
    <3> QED
      BY <1>0, <1>p, <2>1, <3>1, <3>2, <3>3 DEF TruthInv, TakenOff
  <2> QED
    BY <2>2, <2>3
<1>7. CASE Return \/ UNCHANGED vars
  <2>1. OneEncoding'
    BY <1>0, <1>p, <1>7 DEF Return, vars, OneEncoding, TruthfulBody, Truthful
  <2>2. TakenOff'
    BY <1>0, <1>p, <1>7 DEF Return, vars, TakenOff
  <2> QED
    BY <1>0, <2>1, <2>2 DEF TruthInv
<1> QED
  BY <1>1, <1>2, <1>3, <1>4, <1>5, <1>6, <1>7 DEF Next

(* With one encoding asked for, label and body agree in every state.        *)
LEMMA TruthHolds == ASSUME OneEncodingAsked PROVE Spec => []TruthInv
<1>1. Init => TruthInv
  BY TruthInitially
<1> QED
  BY <1>1, TruthStep, PTL DEF Spec

(* Between any two layers compressed messages are compressed with exactly  *)
(* the encoding the headers name, and none is damaged, if the call asks    *)
(* for one encoding at most.                                               *)
THEOREM LabelsAreTrue ==
    ASSUME OneEncodingAsked PROVE Spec => []LabelsTellTheTruth
<1>1. TruthInv => LabelsTellTheTruth
  BY DEF TruthInv, OneEncoding, TruthfulBody, Truthful, LabelsTellTheTruth
<1> QED
  BY <1>1, TruthHolds, PTL

(* Where some server layer carries the client layer's encoding, handler    *)
(* and stub see plain messages without a label.                            *)
THEOREM CompressionIsInvisible ==
    ASSUME OneEncodingAsked PROVE Spec => []Invisible
<1>1. TruthInv => Invisible
  <2> SUFFICES ASSUME TruthInv, Shared,
                      leg = "returned" \/ (leg = "request" /\ hop = Len(Path) + 1)
               PROVE  label = "absent" /\ \A i \in DOMAIN body : body[i].codec = "plain"
    BY DEF Invisible
  <2>1. /\ Typed /\ OneEncoding /\ TakenOff
        /\ Len(Path) = Len(client) + Len(server)
        /\ Len(client) \in Nat /\ Len(server) \in Nat
    BY PathIs DEF TruthInv, WireInv, Typed
  <2>2. PICK i \in 1..Len(client), j \in 1..Len(server) :
           client[i] = server[j] /\ client[i] # "None"
    BY DEF Shared
  <2>0. Len(client) <= 1
    BY <2>1 DEF OneEncoding
  <2>3. i = 1 /\ Len(client) = 1
    <3>1. Len(client) \in Nat
      BY <2>1
    <3>2. i \in Nat /\ i >= 1 /\ i <= Len(client)
      BY <2>2, <3>1
    <3> QED
      BY <2>0, <3>1, <3>2, OnlyOne
  <2>4. label = "absent"
    <3>1. CASE leg = "returned"
      BY <2>1, <2>2, <2>3, <3>1 DEF TakenOff, Typed
    <3>2. CASE leg = "request" /\ hop = Len(Path) + 1
      <4>1. ~(hop <= j + 1) /\ hop > 1
        BY <2>1, <2>2, <2>3, <3>2
      <4>2. label \in {client[1], "absent"} /\ label # client[1]
        BY <2>1, <2>2, <2>3, <3>2, <4>1 DEF TakenOff
      <4> QED
        BY <4>2
    <3> QED
      BY <3>1, <3>2
  <2>5. "absent" \notin Encodings
    BY NegotiationAssumption
  <2> QED
    BY <2>1, <2>4, <2>5 DEF OneEncoding, TruthfulBody, Truthful
<1> QED
  BY <1>1, TruthHolds, PTL

=============================================================================
