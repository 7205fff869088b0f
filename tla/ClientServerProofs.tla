-------------------------- MODULE ClientServerProofs --------------------------
(***************************************************************************)
(* Proofs for Configuration and ClientServer: that the builders give every *)
(* field the value of the last call that names it, whatever the calls and  *)
(* however many, that a server serves what was asked of it, and that the   *)
(* two sides' TLS settings decide who is served.                           *)
(***************************************************************************)
EXTENDS ClientServer, WellFoundedInduction, TLAPS

-----------------------------------------------------------------------------
(* Folds.                                                                  *)

(* Every non-empty set of naturals has a least element.                    *)
LEMMA LeastNatural ==
    ASSUME NEW T, T \subseteq Nat, T # {}
    PROVE  \E n \in T : \A m \in T : n <= m
<1> DEFINE R == {ss \in Nat \X Nat : ss[1] < ss[2]}
<1>1. IsWellFoundedOn(R, Nat)
  BY NatLessThanWellFounded DEF OpToRel
<1>2. \E n \in T : \A m \in T : <<m, n>> \notin R
  <2> HIDE DEF R
  <2> QED
    BY <1>1, WFMin
<1>3. PICK n \in T : \A m \in T : <<m, n>> \notin R
  BY <1>2
<1>4. ASSUME NEW m \in T PROVE n <= m
  <2>1. m \in Nat /\ n \in Nat /\ <<m, n>> \notin R
    BY <1>3
  <2>2. ~(m < n)
    BY <2>1
  <2> QED
    BY <2>1, <2>2
<1> QED
  BY <1>3, <1>4

(* A sequence of values that, once in a set, no step takes out of it.      *)
LEMMA StaysIn ==
    ASSUME NEW n \in Nat, NEW j \in 0..n, NEW f, NEW S, f[j] \in S,
           \A k \in 1..n : j < k /\ f[k - 1] \in S => f[k] \in S
    PROVE  f[n] \in S
<1> DEFINE T == {k \in j..n : f[k] \notin S}
<1>1. SUFFICES ASSUME T # {} PROVE FALSE
  OBVIOUS
<1>2. PICK k \in T : \A i \in T : k <= i
  <2>1. T \subseteq Nat
    OBVIOUS
  <2> HIDE DEF T
  <2> QED
    BY <1>1, <2>1, LeastNatural
<1>3. k \in j..n /\ f[k] \notin S /\ \A i \in T : k <= i
  BY <1>2
<1>4. k # j
  BY <1>3
<1>5. k - 1 \in j..n /\ k \in 1..n /\ j < k /\ ~(k <= k - 1)
  BY <1>3, <1>4
<1>6. k - 1 \notin T
  <2> HIDE DEF T
  <2> QED
    BY <1>3, <1>5
<1>7. f[k - 1] \in S
  BY <1>5, <1>6
<1> QED
  BY <1>3, <1>5, <1>7

(* What the steps 1 .. n of a fold make of the values in V.                *)
Steps(n, V) == [(1..n) \X V -> V]

(* Steps that stay within a set can be taken one after the other.          *)
LEMMA FoldExists ==
    ASSUME NEW n \in Nat, NEW V, NEW base \in V, NEW G \in Steps(n, V)
    PROVE  \E f \in [0..n -> V] :
              f[0] = base /\ \A k \in 1..n : f[k] = G[<<k, f[k - 1]>>]
<1> DEFINE Good(m, f) == /\ f \in [0..m -> V]
                         /\ f[0] = base
                         /\ \A k \in 1..m : f[k] = G[<<k, f[k - 1]>>]
           T == {m \in 0..n : ~ \E f : Good(m, f)}
<1>1. T = {}
  <2>1. SUFFICES ASSUME T # {} PROVE FALSE
    OBVIOUS
  <2>2. PICK m \in T : \A j \in T : m <= j
    <3>1. T \subseteq Nat
      OBVIOUS
    <3> HIDE DEF T
    <3> QED
      BY <2>1, <3>1, LeastNatural
  <2>3. m # 0
    <3>1. Good(0, [k \in 0..0 |-> base])
      OBVIOUS
    <3>2. 0 \notin T
      BY <3>1
    <3> QED
      BY <3>2, <2>2
  <2>4. m \in 1..n /\ m - 1 \in 0..n /\ m - 1 \notin T
    <3>1. m \in 0..n /\ \A j \in T : m <= j
      BY <2>2
    <3> HIDE DEF T
    <3> QED
      BY <3>1, <2>3
  <2>5. PICK f : Good(m - 1, f)
    <3> HIDE DEF Good
    <3> QED
      BY <2>4
  <2> DEFINE g == [k \in 0..m |-> IF k = m THEN G[<<m, f[m - 1]>>] ELSE f[k]]
  <2>6. f \in [0..(m - 1) -> V] /\ f[0] = base
          /\ \A k \in 1..(m - 1) : f[k] = G[<<k, f[k - 1]>>]
    BY <2>5
  <2>7. f[m - 1] \in V /\ G[<<m, f[m - 1]>>] \in V
    BY <2>4, <2>6 DEF Steps
  <2>8. g \in [0..m -> V] /\ g[0] = base
    BY <2>4, <2>6, <2>7
  <2>9. ASSUME NEW k \in 1..m PROVE g[k] = G[<<k, g[k - 1]>>]
    <3>1. g[k - 1] = f[k - 1]
      BY <2>4
    <3>2. CASE k = m
      <4>1. g[k] = G[<<k, f[k - 1]>>]
        BY <3>2, <2>4
      <4> HIDE DEF g
      <4> QED
        BY <4>1, <3>1
    <3>3. CASE k # m
      <4>1. k \in 1..(m - 1) /\ g[k] = f[k]
        BY <3>3, <2>4
      <4> HIDE DEF g
      <4> QED
        BY <4>1, <3>1, <2>6
    <3> QED
      BY <3>2, <3>3
  <2>10. Good(m, g)
    BY <2>8, <2>9
  <2>11. m \notin T
    BY <2>10
  <2> QED
    BY <2>11, <2>2
<1>2. PICK f : Good(n, f)
  <2>1. n \notin T
    BY <1>1
  <2> QED
    BY <2>1
<1> QED
  BY <1>2

-----------------------------------------------------------------------------
(* The builders.                                                           *)

(* A sequence of calls names the setters last, or not at all.              *)
LEMMA LastNaming ==
    ASSUME NEW asks, NEW n \in Nat, DOMAIN asks = 1..n, NEW setters, NEW default
    PROVE  \/ /\ \A i \in 1..n : asks[i].setter \notin setters
              /\ LastValue(asks, setters, default) = default
           \/ \E m \in 1..n :
                 /\ asks[m].setter \in setters
                 /\ LastValue(asks, setters, default) = asks[m].value
                 /\ \A i \in 1..n : m < i => asks[i].setter \notin setters
<1> DEFINE naming == {i \in 1..n : asks[i].setter \in setters}
           last == CHOOSE i \in naming : \A j \in naming : j <= i
<1>1. LastValue(asks, setters, default) =
         IF naming = {} THEN default ELSE asks[last].value
  BY DEF LastValue
<1>2. CASE naming = {}
  <2>1. \A i \in 1..n : asks[i].setter \notin setters
    BY <1>2
  <2> HIDE DEF naming, last
  <2> QED
    BY <1>1, <1>2, <2>1
<1>3. CASE naming # {}
  <2> DEFINE T == {k \in 0..n : n - k \in naming}
  <2>1. T \subseteq Nat /\ T # {}
    <3>1. PICK i \in 1..n : i \in naming
      BY <1>3
    <3>2. n - i \in 0..n /\ n - (n - i) = i
      BY <3>1
    <3>3. n - (n - i) \in naming
      BY <3>1, <3>2
    <3>4. n - i \in T
      <4> HIDE DEF naming
      <4> QED
        BY <3>2, <3>3
    <3>5. T \subseteq Nat
      OBVIOUS
    <3> HIDE DEF T
    <3> QED
      BY <3>4, <3>5
  <2>2. PICK k \in T : \A j \in T : k <= j
    <3> HIDE DEF T
    <3> QED
      BY <2>1, LeastNatural
  <2>3. ASSUME NEW j \in naming PROVE j <= n - k
    <3>1. j \in 1..n /\ n - j \in 0..n /\ n - (n - j) = j
      BY <2>3
    <3>2. n - j \in T
      BY <3>1, <2>3
    <3>3. k <= n - j /\ k \in 0..n
      BY <3>2, <2>2
    <3> QED
      BY <3>1, <3>3
  <2>4. n - k \in naming /\ \A j \in naming : j <= n - k
    BY <2>2, <2>3
  <2>5. last \in naming /\ \A j \in naming : j <= last
    <3> HIDE DEF naming
    <3> QED
      BY <2>4
  <2>6. \A i \in 1..n : last < i => asks[i].setter \notin setters
    <3> SUFFICES ASSUME NEW i \in 1..n, last < i, asks[i].setter \in setters PROVE FALSE
      OBVIOUS
    <3>1. i \in naming
      OBVIOUS
    <3>2. i <= last /\ last \in 1..n
      BY <3>1, <2>5
    <3> HIDE DEF last, naming
    <3> QED
      BY <3>2
  <2>7. last \in 1..n /\ asks[last].setter \in setters
    BY <2>5
  <2> HIDE DEF last, naming
  <2> QED
    BY <1>1, <1>3, <2>6, <2>7
<1> QED
  BY <1>2, <1>3

Follows(g, asks, setters, n) ==
    \A k \in 1..n : g[k] = IF asks[k].setter \in setters THEN asks[k].value
                                                          ELSE g[k - 1]

(* A field that each call naming it assigns, and no other call touches,    *)
(* ends up with the value of the last one.                                 *)
LEMMA LastCallDecides ==
    ASSUME NEW asks, NEW n \in Nat, DOMAIN asks = 1..n, NEW setters, NEW g,
           Follows(g, asks, setters, n)
    PROVE  g[n] = LastValue(asks, setters, g[0])
<1> USE DEF Follows
<1>1. CASE \A i \in 1..n : asks[i].setter \notin setters
  <2>1. LastValue(asks, setters, g[0]) = g[0]
    BY <1>1, LastNaming
  <2> DEFINE S == {g[0]}
  <2>2. \A k \in 1..n : 0 < k /\ g[k - 1] \in S => g[k] \in S
    BY <1>1
  <2>3. g[0] \in S /\ 0 \in 0..n
    OBVIOUS
  <2>4. g[n] \in S
    <3> HIDE DEF S
    <3> QED
      BY <2>2, <2>3, StaysIn
  <2> QED
    BY <2>1, <2>4
<1>2. CASE \E i \in 1..n : asks[i].setter \in setters
  <2>1. PICK m \in 1..n :
           /\ asks[m].setter \in setters
           /\ LastValue(asks, setters, g[0]) = asks[m].value
           /\ \A i \in 1..n : m < i => asks[i].setter \notin setters
    BY <1>2, LastNaming
  <2>2. g[m] = asks[m].value
    BY <2>1
  <2> DEFINE S == {asks[m].value}
  <2>3. \A k \in 1..n : m < k /\ g[k - 1] \in S => g[k] \in S
    BY <2>1
  <2>4. m \in 0..n /\ g[m] \in S
    BY <2>2
  <2>5. g[n] \in S
    <3> HIDE DEF S
    <3> QED
      BY <2>3, <2>4, StaysIn
  <2> QED
    BY <2>1, <2>5
<1> QED
  BY <1>1, <1>2

DefaultValues == {"50051", "4MB", "default", "60s", "30s", "10s", "3", "on", "off", "unset"}
ServerValue == STRING \cup DefaultValues \cup DOMAIN ServerTls
SetterName == STRING \cup {"tls"}
ServerSetterCall == [setter : SetterName, value : ServerValue]
ServerStates ==
    [config : [DOMAIN ServerDefault -> ServerValue], bind_address_error : BOOLEAN]
ServerBlank == [config |-> ServerDefault, bind_address_error |-> FALSE]

ClientValue == STRING \cup DefaultValues \cup DOMAIN ClientTls
ClientSetterCall == [setter : SetterName, value : ClientValue]
ClientStates == [DOMAIN ClientDefault -> ClientValue]

(* The builder's states are closed under its setters.                      *)
LEMMA ServerStatesClosed ==
    /\ ServerBlank \in ServerStates
    /\ \A b \in ServerStates, ask \in ServerSetterCall :
          ServerCall(b, ask) \in ServerStates
<1>1. ServerDefault \in [DOMAIN ServerDefault -> ServerValue]
  <2>1. \A x \in DOMAIN ServerDefault : ServerDefault[x] \in DefaultValues
    BY DEF ServerDefault, DefaultValues
  <2>2. ServerDefault = [x \in DOMAIN ServerDefault |-> ServerDefault[x]]
    BY DEF ServerDefault
  <2> QED
    BY <2>1, <2>2 DEF ServerValue
<1>2. ASSUME NEW b \in ServerStates, NEW ask \in ServerSetterCall
      PROVE  ServerCall(b, ask) \in ServerStates
  <2>1. /\ b.config \in [DOMAIN ServerDefault -> ServerValue]
        /\ b.bind_address_error \in BOOLEAN /\ ask.value \in ServerValue
    BY <1>2 DEF ServerStates, ServerSetterCall
  <2>2. \A F : Assign(b.config, F, ask.value) \in [DOMAIN ServerDefault -> ServerValue]
    BY <2>1 DEF Assign
  <2>3. BadAddress(ask) \in BOOLEAN /\ ErrorAfter(b, ask) \in BOOLEAN
    BY <2>1 DEF ErrorAfter, BadAddress
  <2> QED
    BY <2>1, <2>2, <2>3 DEF ServerCall, ServerStates
<1> QED
  BY <1>1, <1>2 DEF ServerStates, ServerBlank

(* ServerBuilder takes the calls one after the other.                      *)
LEMMA ServerBuilderInSteps ==
    ASSUME NEW asks \in Seq(ServerSetterCall)
    PROVE  \E f \in [0..Len(asks) -> ServerStates] :
              /\ f[0] = ServerBlank
              /\ \A k \in 1..Len(asks) : f[k] = ServerCall(f[k - 1], asks[k])
              /\ ServerBuilder(asks) = f[Len(asks)]
<1> DEFINE n == Len(asks)
           G == [p \in (1..n) \X ServerStates |-> ServerCall(p[2], asks[p[1]])]
<1>1. n \in Nat /\ \A k \in 1..n : asks[k] \in ServerSetterCall
  OBVIOUS
<1>2. G \in Steps(n, ServerStates)
  <2>1. ASSUME NEW p \in (1..n) \X ServerStates
        PROVE  ServerCall(p[2], asks[p[1]]) \in ServerStates
    BY <1>1, ServerStatesClosed
  <2> QED
    BY <2>1 DEF Steps
<1>3. PICK e \in [0..n -> ServerStates] :
         e[0] = ServerBlank /\ \A k \in 1..n : e[k] = G[<<k, e[k - 1]>>]
  <2>1. n \in Nat
    BY <1>1
  <2>2. ServerBlank \in ServerStates
    BY ServerStatesClosed
  <2> HIDE DEF G, n
  <2> QED
    BY <2>1, <2>2, <1>2, FoldExists
<1>4. e = [k \in 0..n |-> IF k = 0 THEN ServerBlank ELSE ServerCall(e[k - 1], asks[k])]
  <2>1. ASSUME NEW k \in 0..n, k # 0
        PROVE  G[<<k, e[k - 1]>>] = ServerCall(e[k - 1], asks[k])
    <3>1. <<k, e[k - 1]>> \in (1..n) \X ServerStates
      BY <2>1, <1>1
    <3> QED
      BY <3>1
  <2> HIDE DEF G
  <2>2. \A k \in 0..n :
           e[k] = IF k = 0 THEN ServerBlank ELSE ServerCall(e[k - 1], asks[k])
    <3> TAKE k \in 0..n
    <3>1. CASE k # 0
      <4>1. k \in 1..n
        BY <3>1
      <4> QED
        BY <4>1, <3>1, <1>3, <2>1
    <3> QED
      BY <3>1, <1>3
  <2> QED
    BY <1>3, <2>2
<1> DEFINE f == CHOOSE g : g = [k \in 0..n |->
                    IF k = 0 THEN ServerBlank ELSE ServerCall(g[k - 1], asks[k])]
<1>5. f = [k \in 0..n |-> IF k = 0 THEN ServerBlank ELSE ServerCall(f[k - 1], asks[k])]
  BY <1>4
<1>6. ServerBuilder(asks) = f[n]
  BY DEF ServerBuilder, ServerBlank
<1> HIDE DEF f
<1>7. f[0] = ServerBlank /\ \A k \in 1..n : f[k] = ServerCall(f[k - 1], asks[k])
  BY <1>1, <1>5
<1>8. \A k \in 0..n : f[k] \in ServerStates
  <2> SUFFICES ASSUME NEW k \in 0..n PROVE f[k] \in ServerStates
    OBVIOUS
  <2>1. \A i \in 1..k : f[i - 1] \in ServerStates => f[i] \in ServerStates
    BY <1>1, <1>7, ServerStatesClosed
  <2>2. k \in Nat /\ 0 \in 0..k
    BY <1>1
  <2> HIDE DEF n
  <2> QED
    BY <1>7, <2>1, <2>2, StaysIn, ServerStatesClosed
<1>9. f \in [0..n -> ServerStates]
  BY <1>5, <1>8
<1> QED
  BY <1>6, <1>7, <1>9

(* The last of the calls that name a field of the server's configuration,  *)
(* the address apart, decides it.                                          *)
LEMMA ServerFieldIsLast ==
    ASSUME NEW asks \in Seq(ServerSetterCall),
           NEW field \in DOMAIN ServerDefault \ {"bind_address"}, NEW setters,
           \A s \in SetterName : field \in ServerFields(s) <=> s \in setters
    PROVE  ServerBuilder(asks).config[field]
              = LastValue(asks, setters, ServerDefault[field])
<1> DEFINE n == Len(asks)
<1>1. PICK f \in [0..n -> ServerStates] :
         /\ f[0] = ServerBlank
         /\ \A k \in 1..n : f[k] = ServerCall(f[k - 1], asks[k])
         /\ ServerBuilder(asks) = f[n]
  BY ServerBuilderInSteps
<1>2. n \in Nat /\ DOMAIN asks = 1..n /\ \A k \in 1..n : asks[k] \in ServerSetterCall
  OBVIOUS
<1> DEFINE g == [k \in 0..n |-> f[k].config[field]]
<1>3. ASSUME NEW k \in 1..n
      PROVE  g[k] = IF asks[k].setter \in setters THEN asks[k].value ELSE g[k - 1]
  <2>1. k \in 0..n /\ k - 1 \in 0..n
    BY <1>2
  <2>2. g[k] = f[k].config[field] /\ g[k - 1] = f[k - 1].config[field]
    BY <2>1
  <2>3. f[k - 1] \in ServerStates /\ asks[k] \in ServerSetterCall
    BY <1>2, <2>1
  <2>4. ASSUME NEW b \in ServerStates, NEW ask \in ServerSetterCall
        PROVE  ServerCall(b, ask).config[field]
                  = IF ask.setter \in setters THEN ask.value ELSE b.config[field]
    <3>1. field \in DOMAIN b.config
      BY <2>4 DEF ServerStates
    <3>2. ask.setter \in setters <=> field \in ServerFields(ask.setter)
      BY <2>4 DEF ServerSetterCall
    <3>3. BadAddress(ask) => field \notin ServerFields(ask.setter)
      BY DEF BadAddress, ServerFields, Fields
    <3> QED
      BY <3>1, <3>2, <3>3 DEF ServerCall, Assign
  <2>5. f[k] = ServerCall(f[k - 1], asks[k])
    BY <1>1
  <2> HIDE DEF g
  <2> QED
    BY <2>2, <2>3, <2>4, <2>5
<1>4. g[n] = ServerBuilder(asks).config[field] /\ g[0] = ServerDefault[field]
  BY <1>1, <1>2 DEF ServerBlank
<1> HIDE DEF g, n
<1>5. g[n] = LastValue(asks, setters, g[0])
  <2>1. Follows(g, asks, setters, n)
    BY <1>3 DEF Follows
  <2> QED
    BY <1>2, <2>1, LastCallDecides
<1> QED
  BY <1>4, <1>5

(* Every transport setting is handed to the transport, and Naming lists    *)
(* exactly the setters that assign it.                                     *)
LEMMA NamingIsAssigning ==
    ASSUME NEW f \in TransportSettings
    PROVE  /\ f \in TransportFields
           /\ f \in DOMAIN ServerDefault \ {"bind_address"}
           /\ \A s \in SetterName : f \in ServerFields(s) <=> s \in Naming(f)
<1>1. f \in TransportFields /\ f \in DOMAIN ServerDefault \ {"bind_address"}
  BY DEF TransportSettings, TransportFields, ServerDefault
<1>2. ASSUME NEW s \in SetterName PROVE f \in ServerFields(s) <=> s \in Naming(f)
  BY <1>1 DEF TransportFields, ServerFields, Fields, Naming
<1> QED
  BY <1>1, <1>2

(* The last call that names the address decides it, and whether build()    *)
(* reports an error.                                                       *)
LEMMA AddressIsLast ==
    ASSUME NEW asks \in Seq(ServerSetterCall)
    PROVE  LET b == ServerBuilder(asks)
               last == LastValue(asks, {"bind_address", "bind_socket_addr"}, "50051")
           IN  /\ b.bind_address_error => last \in Malformed
               /\ ~b.bind_address_error => last = b.config.bind_address
<1> DEFINE n == Len(asks)
           setters == {"bind_address", "bind_socket_addr"}
           last == LastValue(asks, setters, "50051")
           Good(b) == /\ b.bind_address_error => last \in Malformed
                      /\ ~b.bind_address_error => last = b.config.bind_address
           S == {b \in ServerStates : Good(b)}
<1>1. PICK f \in [0..n -> ServerStates] :
         /\ f[0] = ServerBlank
         /\ \A k \in 1..n : f[k] = ServerCall(f[k - 1], asks[k])
         /\ ServerBuilder(asks) = f[n]
  BY ServerBuilderInSteps
<1>2. n \in Nat /\ DOMAIN asks = 1..n /\ \A k \in 1..n : asks[k] \in ServerSetterCall
  OBVIOUS
<1>3. ASSUME NEW k \in 1..n, asks[k].setter \notin setters, f[k - 1] \in S
      PROVE  f[k] \in S
  <2>1. "bind_address" \notin ServerFields(asks[k].setter) /\ ~BadAddress(asks[k])
    BY <1>3 DEF ServerFields, Fields, BadAddress
  <2>2. f[k - 1] \in ServerStates /\ Good(f[k - 1]) /\ f[k] \in ServerStates
    BY <1>1, <1>2, <1>3
  <2>3. "bind_address" \in DOMAIN f[k - 1].config
    BY <2>2 DEF ServerStates, ServerDefault
  <2>4. f[k] = ServerCall(f[k - 1], asks[k])
    BY <1>1
  <2>5. /\ f[k].bind_address_error = f[k - 1].bind_address_error
        /\ f[k].config.bind_address = f[k - 1].config.bind_address
    BY <2>1, <2>3, <2>4 DEF ServerCall, ErrorAfter, Assign
  <2> HIDE DEF last
  <2> QED
    BY <2>2, <2>5
<1>4. ASSUME NEW k \in 1..n, asks[k].setter \in setters, last = asks[k].value
      PROVE  f[k] \in S
  <2>1. "bind_address" \in ServerFields(asks[k].setter)
    BY <1>4 DEF ServerFields, Fields
  <2>2. f[k - 1] \in ServerStates /\ f[k] \in ServerStates
    BY <1>1, <1>2
  <2>3. "bind_address" \in DOMAIN f[k - 1].config
    BY <2>2 DEF ServerStates, ServerDefault
  <2>4. f[k] = ServerCall(f[k - 1], asks[k])
    BY <1>1
  <2>5. /\ f[k].bind_address_error = BadAddress(asks[k])
        /\ ~BadAddress(asks[k]) => f[k].config.bind_address = asks[k].value
    BY <2>1, <2>3, <2>4 DEF ServerCall, ErrorAfter, Assign
  <2>6. BadAddress(asks[k]) => asks[k].value \in Malformed
    BY DEF BadAddress
  <2> HIDE DEF last
  <2> QED
    BY <1>4, <2>2, <2>5, <2>6
<1>5. \E j \in 0..n : f[j] \in S /\ \A k \in 1..n : j < k => asks[k].setter \notin setters
  <2>1. CASE \A i \in 1..n : asks[i].setter \notin setters
    <3>1. last = "50051"
      <4> HIDE DEF n
      <4> QED
        BY <1>2, <2>1, LastNaming
    <3>2. Good(ServerBlank)
      BY <3>1 DEF ServerBlank, ServerDefault
    <3>3. f[0] \in S
      BY <1>1, <3>2, ServerStatesClosed
    <3> HIDE DEF S
    <3> QED
      BY <1>2, <2>1, <3>3, 0 \in 0..n
  <2>2. CASE \E i \in 1..n : asks[i].setter \in setters
    <3>1. PICK m \in 1..n :
             /\ asks[m].setter \in setters
             /\ last = asks[m].value
             /\ \A i \in 1..n : m < i => asks[i].setter \notin setters
      <4> HIDE DEF n, setters
      <4> QED
        BY <1>2, <2>2, LastNaming
    <3>2. f[m] \in S
      <4> HIDE DEF S, last, n
      <4> QED
        BY <1>4, <3>1
    <3> HIDE DEF S
    <3> QED
      BY <1>2, <3>1, <3>2
  <2> QED
    BY <2>1, <2>2
<1>6. f[n] \in S
  <2>1. PICK j \in 0..n : f[j] \in S /\ \A k \in 1..n : j < k => asks[k].setter \notin setters
    BY <1>5
  <2>2. \A k \in 1..n : j < k /\ f[k - 1] \in S => f[k] \in S
    <3> HIDE DEF S, n, setters
    <3> QED
      BY <1>3, <2>1
  <2> HIDE DEF S, n
  <2> QED
    BY <1>2, <2>1, <2>2, StaysIn
<1> QED
  BY <1>1, <1>6

(* The client's builder has no state but the configuration.                *)
LEMMA ClientStatesClosed ==
    /\ ClientDefault \in ClientStates
    /\ \A b \in ClientStates, ask \in ClientSetterCall :
          ClientCall(b, ask) \in ClientStates
<1>1. ClientDefault \in ClientStates
  <2>1. \A x \in DOMAIN ClientDefault : ClientDefault[x] \in DefaultValues
    BY DEF ClientDefault, DefaultValues
  <2>2. ClientDefault = [x \in DOMAIN ClientDefault |-> ClientDefault[x]]
    BY DEF ClientDefault
  <2> QED
    BY <2>1, <2>2 DEF ClientValue, ClientStates
<1>2. ASSUME NEW b \in ClientStates, NEW ask \in ClientSetterCall
      PROVE  ClientCall(b, ask) \in ClientStates
  BY <1>2 DEF ClientCall, Assign, ClientStates, ClientSetterCall
<1> QED
  BY <1>1, <1>2

(* ClientBuilder takes the calls one after the other.                      *)
LEMMA ClientBuilderInSteps ==
    ASSUME NEW asks \in Seq(ClientSetterCall)
    PROVE  \E f \in [0..Len(asks) -> ClientStates] :
              /\ f[0] = ClientDefault
              /\ \A k \in 1..Len(asks) : f[k] = ClientCall(f[k - 1], asks[k])
              /\ ClientBuilder(asks) = f[Len(asks)]
<1> DEFINE n == Len(asks)
           G == [p \in (1..n) \X ClientStates |-> ClientCall(p[2], asks[p[1]])]
<1>1. n \in Nat /\ \A k \in 1..n : asks[k] \in ClientSetterCall
  OBVIOUS
<1>2. G \in Steps(n, ClientStates)
  <2>1. ASSUME NEW p \in (1..n) \X ClientStates
        PROVE  ClientCall(p[2], asks[p[1]]) \in ClientStates
    BY <1>1, ClientStatesClosed
  <2> QED
    BY <2>1 DEF Steps
<1>3. PICK e \in [0..n -> ClientStates] :
         e[0] = ClientDefault /\ \A k \in 1..n : e[k] = G[<<k, e[k - 1]>>]
  <2>1. n \in Nat
    BY <1>1
  <2>2. ClientDefault \in ClientStates
    BY ClientStatesClosed
  <2> HIDE DEF G, n
  <2> QED
    BY <2>1, <2>2, <1>2, FoldExists
<1>4. e = [k \in 0..n |-> IF k = 0 THEN ClientDefault ELSE ClientCall(e[k - 1], asks[k])]
  <2>1. ASSUME NEW k \in 0..n, k # 0
        PROVE  G[<<k, e[k - 1]>>] = ClientCall(e[k - 1], asks[k])
    <3>1. <<k, e[k - 1]>> \in (1..n) \X ClientStates
      BY <2>1, <1>1
    <3> QED
      BY <3>1
  <2> HIDE DEF G
  <2>2. \A k \in 0..n :
           e[k] = IF k = 0 THEN ClientDefault ELSE ClientCall(e[k - 1], asks[k])
    <3> TAKE k \in 0..n
    <3>1. CASE k # 0
      <4>1. k \in 1..n
        BY <3>1
      <4> QED
        BY <4>1, <3>1, <1>3, <2>1
    <3> QED
      BY <3>1, <1>3
  <2> QED
    BY <1>3, <2>2
<1> DEFINE f == CHOOSE g : g = [k \in 0..n |->
                    IF k = 0 THEN ClientDefault ELSE ClientCall(g[k - 1], asks[k])]
<1>5. f = [k \in 0..n |-> IF k = 0 THEN ClientDefault ELSE ClientCall(f[k - 1], asks[k])]
  BY <1>4
<1>6. ClientBuilder(asks) = f[n]
  BY DEF ClientBuilder
<1> HIDE DEF f
<1>7. f[0] = ClientDefault /\ \A k \in 1..n : f[k] = ClientCall(f[k - 1], asks[k])
  BY <1>1, <1>5
<1>8. \A k \in 0..n : f[k] \in ClientStates
  <2> SUFFICES ASSUME NEW k \in 0..n PROVE f[k] \in ClientStates
    OBVIOUS
  <2>1. \A i \in 1..k : f[i - 1] \in ClientStates => f[i] \in ClientStates
    BY <1>1, <1>7, ClientStatesClosed
  <2>2. k \in Nat /\ 0 \in 0..k
    BY <1>1
  <2> HIDE DEF n
  <2> QED
    BY <1>7, <2>1, <2>2, StaysIn, ClientStatesClosed
<1>9. f \in [0..n -> ClientStates]
  BY <1>5, <1>8
<1> QED
  BY <1>6, <1>7, <1>9

(* The last call of tls decides the client's.                              *)
LEMMA ClientTlsIsLast ==
    ASSUME NEW asks \in Seq(ClientSetterCall)
    PROVE  ClientBuilder(asks).tls = LastValue(asks, {"tls"}, "unset")
<1> DEFINE n == Len(asks)
<1>1. PICK f \in [0..n -> ClientStates] :
         /\ f[0] = ClientDefault
         /\ \A k \in 1..n : f[k] = ClientCall(f[k - 1], asks[k])
         /\ ClientBuilder(asks) = f[n]
  BY ClientBuilderInSteps
<1>2. n \in Nat /\ DOMAIN asks = 1..n /\ \A k \in 1..n : asks[k] \in ClientSetterCall
  OBVIOUS
<1> DEFINE g == [k \in 0..n |-> f[k].tls]
<1>3. ASSUME NEW k \in 1..n
      PROVE  g[k] = IF asks[k].setter \in {"tls"} THEN asks[k].value ELSE g[k - 1]
  <2>1. k \in 0..n /\ k - 1 \in 0..n
    BY <1>2
  <2>2. g[k] = f[k].tls /\ g[k - 1] = f[k - 1].tls
    BY <2>1
  <2>3. f[k - 1] \in ClientStates
    BY <2>1
  <2>4. "tls" \in DOMAIN f[k - 1]
    BY <2>3 DEF ClientStates, ClientDefault
  <2>5. f[k] = ClientCall(f[k - 1], asks[k])
    BY <1>1
  <2>6. "tls" \in Fields(asks[k].setter) <=> asks[k].setter = "tls"
    BY DEF Fields
  <2>7. f[k].tls = IF asks[k].setter = "tls" THEN asks[k].value ELSE f[k - 1].tls
    BY <2>4, <2>5, <2>6 DEF ClientCall, Assign
  <2> HIDE DEF g
  <2> QED
    BY <2>2, <2>7
<1>4. g[n] = ClientBuilder(asks).tls /\ g[0] = "unset"
  BY <1>1, <1>2 DEF ClientDefault
<1> HIDE DEF g, n
<1>5. g[n] = LastValue(asks, {"tls"}, g[0])
  <2>1. Follows(g, asks, {"tls"}, n)
    BY <1>3 DEF Follows
  <2> QED
    BY <1>2, <2>1, LastCallDecides
<1> QED
  BY <1>4, <1>5

-----------------------------------------------------------------------------
(* What server and clients are, before and after they meet.                *)

(* The scenarios' calls are calls of the builders' setters, and those of   *)
(* tls name a profile.                                                     *)
LEMMA CallsAreSetterCalls ==
    ASSUME NEW profiles, NEW asks \in Calls(profiles)
    PROVE  /\ profiles = DOMAIN ServerTls => asks \in Seq(ServerSetterCall)
           /\ profiles = DOMAIN ClientTls => asks \in Seq(ClientSetterCall)
           /\ LastValue(asks, {"tls"}, "unset") \in profiles \cup {"unset"}
<1> DEFINE n == Len(asks)
<1>1. /\ n \in Nat /\ asks \in [1..n -> [setter : STRING \ {"tls"}, value : STRING]
                          \cup [setter : {"tls"}, value : profiles \cup {"unset"}]]
  BY DEF Calls
<1>2. ASSUME NEW i \in 1..n
      PROVE  /\ profiles = DOMAIN ServerTls => asks[i] \in ServerSetterCall
             /\ profiles = DOMAIN ClientTls => asks[i] \in ClientSetterCall
             /\ asks[i].setter = "tls" => asks[i].value \in profiles \cup {"unset"}
  <2>1. \/ asks[i] \in [setter : STRING \ {"tls"}, value : STRING]
        \/ asks[i] \in [setter : {"tls"}, value : profiles \cup {"unset"}]
    BY <1>1
  <2>2. CASE asks[i] \in [setter : STRING \ {"tls"}, value : STRING]
    BY <2>2 DEF ServerSetterCall, ClientSetterCall, SetterName, ServerValue, ClientValue
  <2>3. CASE asks[i] \in [setter : {"tls"}, value : profiles \cup {"unset"}]
    BY <2>3 DEF ServerSetterCall, ClientSetterCall, SetterName, ServerValue, ClientValue,
                DefaultValues
  <2> QED
    BY <2>1, <2>2, <2>3
<1>3. LastValue(asks, {"tls"}, "unset") \in profiles \cup {"unset"}
  <2>1. DOMAIN asks = 1..n
    BY <1>1
  <2> HIDE DEF n
  <2>2. CASE \A i \in 1..n : asks[i].setter \notin {"tls"}
    BY <1>1, <2>1, <2>2, LastNaming
  <2>3. CASE \E i \in 1..n : asks[i].setter \in {"tls"}
    <3>1. PICK m \in 1..n : /\ asks[m].setter \in {"tls"}
                            /\ LastValue(asks, {"tls"}, "unset") = asks[m].value
      BY <1>1, <2>1, <2>3, LastNaming
    <3> QED
      BY <3>1, <1>2
  <2> QED
    BY <2>2, <2>3
<1>4. profiles = DOMAIN ServerTls => asks \in Seq(ServerSetterCall)
  BY <1>1, <1>2
<1>5. profiles = DOMAIN ClientTls => asks \in Seq(ClientSetterCall)
  BY <1>1, <1>2
<1> QED
  BY <1>3, <1>4, <1>5

Ordered ==
    /\ asked \in Calls(DOMAIN ServerTls)
    /\ \A c \in Clients : order[c].calls \in Calls(DOMAIN ClientTls)

Ready == stage \in {"assembled", "registered", "listening", "server_error",
                    "draining", "stopped"}
Up == stage \in {"listening", "draining", "stopped"}

Health(config) == IF config.enable_health_check = "on" THEN "SERVING" ELSE "absent"

(* The server is what its configuration says, and the handshake what both  *)
(* sides' settings say.                                                    *)
Assembled ==
    /\ stage = "config_error" => ServerBuilder(asked).bind_address_error
    /\ stage \in {"configured", "config_error"} \/ ~ServerBuilder(asked).bind_address_error
    /\ Ready => /\ transport = build_transport(Config)
                /\ server_tls = Config.tls
                /\ recv_limit = Config.max_recv_message_size
    /\ Ready /\ stage # "assembled" =>
          /\ health = Health(Config)
          /\ reflection = "served" => Config.enable_reflection = "on"

Met(c) ==
    /\ conn[c] # "down" => Up
    /\ conn[c] \in {"up", "open"} => ClientAccepts(c)
    /\ conn[c] = "open" => ServerAccepts(c)
    /\ conn[c] = "refused" => ~(ClientAccepts(c) /\ ServerAccepts(c))
    /\ InFlight(c) => conn[c] = "open"

MeetingInv ==
    /\ Ordered /\ Assembled
    /\ conn \in [Clients -> {"down", "up", "open", "refused"}]
    /\ DOMAIN call = Clients
    /\ \A c \in Clients : Met(c)

(* No scenario has met anybody yet.                                        *)
LEMMA MeetingInitially == SysInit => MeetingInv
<1> SUFFICES ASSUME SysInit PROVE MeetingInv
  OBVIOUS
<1>1. PICK s \in Scenarios :
         ServerInit(s.asked, s.entry, s.timeout_layer) /\ ClientInit(s.order)
  BY DEF SysInit
<1>2. Ordered
  BY <1>1, ScenariosAssumption DEF Ordered, ServerInit, ClientInit
<1>3. Assembled
  BY <1>1 DEF ServerInit, Assembled, Ready
<1> QED
  BY <1>2, <1>3 DEF SysInit, MeetingInv, Met, InFlight

(* Starting, draining and stopping keep the server as configured.          *)
LEMMA ServerStep ==
    ASSUME MeetingInv, Server \/ Signal, UNCHANGED <<clientVars, peers>>
    PROVE  MeetingInv'
<1>0. /\ Ordered /\ Assembled
      /\ UNCHANGED <<asked, order, conn, call>>
      /\ \A c \in Clients : Met(c)
  BY DEF MeetingInv, clientVars, peers, Server, Signal, Starting, Build,
         BuildTransportFails, BuildTransport, RegisterOptionalServices, Bind, Drain,
         Stop, request
<1>1. Config' = Config /\ ServerBuilder(asked)' = ServerBuilder(asked)
  BY <1>0 DEF Config
<1>2. Assembled'
  <2>1. CASE Build
    BY <1>0, <1>1, <2>1 DEF Build, Assembled, Ready
  <2>2. CASE BuildTransportFails
    BY <1>0, <1>1, <2>2 DEF BuildTransportFails, Assembled, Ready
  <2>3. CASE BuildTransport
    BY <1>0, <1>1, <2>3 DEF BuildTransport, Assembled, Ready
  <2>4. CASE RegisterOptionalServices
    BY <1>0, <1>1, <2>4
       DEF RegisterOptionalServices, Assembled, Ready, Health, assembly
  <2>5. CASE Bind \/ Drain \/ Stop(\A c \in Clients : ~InFlight(c)) \/ Signal
    BY <1>0, <1>1, <2>5
       DEF Bind, Drain, Stop, Signal, Assembled, Ready, assembly, services
  <2> QED
    BY <2>1, <2>2, <2>3, <2>4, <2>5 DEF Server, Starting
<1>3. Up => Up' /\ server_tls' = server_tls
  BY DEF Up, Server, Signal, Starting, Build, BuildTransportFails, BuildTransport,
         RegisterOptionalServices, Bind, Drain, Stop, assembly
<1>4. ASSUME NEW c \in Clients PROVE Met(c)'
  <2>1. Met(c) /\ conn' = conn /\ InFlight(c)' = InFlight(c)
    BY <1>0 DEF InFlight
  <2>2. CASE conn[c] = "down"
    BY <2>1, <2>2 DEF Met
  <2>3. CASE conn[c] # "down"
    <3>1. Up' /\ server_tls' = server_tls /\ order' = order
      BY <1>0, <1>3, <2>1, <2>3 DEF Met
    <3>2. ClientAccepts(c)' = ClientAccepts(c) /\ ServerAccepts(c)' = ServerAccepts(c)
      BY <3>1 DEF ClientAccepts, ServerAccepts, ConfigOf, Offered, Presented
    <3> QED
      BY <2>1, <3>1, <3>2 DEF Met
  <2> QED
    BY <2>2, <2>3
<1> QED
  BY <1>0, <1>2, <1>4 DEF MeetingInv, Ordered

(* A client that leaves the server, its settings and the connections as    *)
(* they are and puts no call in flight disturbs nobody.                    *)
LEMMA QuietStep ==
    ASSUME MeetingInv, UNCHANGED <<serverVars, order, conn>>, DOMAIN call' = Clients,
           \A c \in Clients : InFlight(c)' => conn[c] = "open"
    PROVE  MeetingInv'
<1>0. UNCHANGED <<asked, stage, transport, server_tls, recv_limit, health, reflection,
                  order, conn>>
  BY DEF serverVars, request, assembly, services
<1>1. \A c \in Clients :
         ClientAccepts(c)' = ClientAccepts(c) /\ ServerAccepts(c)' = ServerAccepts(c)
  BY <1>0 DEF ClientAccepts, ServerAccepts, ConfigOf, Offered, Presented
<1>2. \A c \in Clients : Met(c)'
  BY <1>0, <1>1 DEF MeetingInv, Met, Up
<1> QED
  BY <1>0, <1>2 DEF MeetingInv, Ordered, Assembled, Ready, Config

(* A handshake ends as the settings of the two sides say.                  *)
LEMMA HandshakeStep ==
    ASSUME MeetingInv, NEW c \in Clients, Connect(c) \/ Verify(c)
    PROVE  MeetingInv'
<1>0. /\ UNCHANGED <<asked, stage, transport, server_tls, recv_limit, health, reflection,
                     order, call>>
      /\ conn \in [Clients -> {"down", "up", "open", "refused"}]
      /\ conn' \in [Clients -> {"down", "up", "open", "refused"}]
  BY DEF MeetingInv, Connect, Verify, serverVars, request, assembly, services, clientVars
<1>1. \A d \in Clients :
         /\ ClientAccepts(d)' = ClientAccepts(d) /\ ServerAccepts(d)' = ServerAccepts(d)
         /\ InFlight(d)' = InFlight(d) /\ Up' = Up
  BY <1>0 DEF ClientAccepts, ServerAccepts, ConfigOf, Offered, Presented, InFlight, Up
<1>2. Met(c)'
  <2>1. CASE Connect(c)
    <3>1. Up /\ conn[c] = "down" /\ conn'[c] = IF ClientAccepts(c) THEN "up" ELSE "refused"
      BY <2>1, <1>0 DEF Connect, Reachable, Up
    <3> QED
      BY <1>1, <3>1 DEF Met, MeetingInv
  <2>2. CASE Verify(c)
    <3>1. conn[c] = "up" /\ conn'[c] = IF ServerAccepts(c) THEN "open" ELSE "refused"
      BY <2>2, <1>0 DEF Verify
    <3> QED
      BY <1>1, <3>1 DEF Met, MeetingInv
  <2> QED
    BY <2>1, <2>2
<1>3. ASSUME NEW d \in Clients, d # c PROVE Met(d)'
  <2>1. conn'[d] = conn[d]
    BY <1>0, <1>3 DEF Connect, Verify
  <2> QED
    BY <1>1, <2>1 DEF Met, MeetingInv
<1> QED
  BY <1>0, <1>2, <1>3 DEF MeetingInv, Ordered, Assembled, Ready, Config

(* Every step of server and clients keeps the invariant.                   *)
LEMMA MeetingStep == MeetingInv /\ [SysNext]_sysVars => MeetingInv'
<1> SUFFICES ASSUME MeetingInv, [SysNext]_sysVars PROVE MeetingInv'
  OBVIOUS
<1>0. DOMAIN call = Clients /\ \A c \in Clients : InFlight(c) => conn[c] = "open"
  BY DEF MeetingInv, Met
<1>1. CASE UNCHANGED sysVars
  BY <1>0, <1>1, QuietStep DEF sysVars, clientVars, peers, InFlight
<1>2. CASE (Server \/ Signal) /\ UNCHANGED <<clientVars, peers>>
  BY <1>2, ServerStep
<1>3. ASSUME NEW c \in Clients, Create(c) /\ UNCHANGED <<serverVars, peers>>
      PROVE  MeetingInv'
  <2>1. UNCHANGED <<serverVars, order, conn, call>>
    BY <1>3 DEF Create, UrlFails, ApplyTlsFails, Configure, peers
  <2> QED
    BY <1>0, <2>1, QuietStep DEF InFlight
<1>4. ASSUME NEW c \in Clients, Connect(c) \/ Verify(c) PROVE MeetingInv'
  BY <1>4, HandshakeStep
<1>5. ASSUME NEW c \in Clients,
             \/ ConnectFails(c) \/ Arrive(c) \/ Unserved(c) \/ HeaderArrives(c)
             \/ Answer(c) \/ ClientTimesOut(c) \/ Abandon(c)
             \/ \E k \in order[c].kinds : Send(c, k)
      PROVE  MeetingInv'
  <2>1. UNCHANGED <<serverVars, order, conn>>
    BY <1>5 DEF ConnectFails, Arrive, Unserved, HeaderArrives, Answer, ClientTimesOut,
                Abandon, Send, clientVars
  <2>2. DOMAIN call' = Clients /\ \A d \in Clients : d # c => call'[d] = call[d]
    BY <1>0, <1>5 DEF ConnectFails, Arrive, Unserved, HeaderArrives, Answer,
                      ClientTimesOut, Abandon, Send
  <2>3. InFlight(c)' => conn[c] = "open"
    BY <1>0, <1>5 DEF ConnectFails, Arrive, Unserved, HeaderArrives, Answer,
                      ClientTimesOut, Abandon, Send, InFlight
  <2>4. \A d \in Clients : InFlight(d)' => conn[d] = "open"
    BY <1>0, <2>2, <2>3 DEF InFlight
  <2> QED
    BY <2>1, <2>2, <2>4, QuietStep
<1> QED
  BY <1>1, <1>2, <1>3, <1>4, <1>5 DEF SysNext, Progress

(* Whoever meets meets as configured, in every state.                      *)
LEMMA MeetingHolds == SysSpec => []MeetingInv
<1> QED
  BY MeetingInitially, MeetingStep, PTL DEF SysSpec

-----------------------------------------------------------------------------
(* For every sequence of calls of the builder: a malformed address stops   *)
(* the server exactly if no later call replaced it, and whoever gets       *)
(* through finds the address, the receive limit, every transport setting,  *)
(* health and reflection as the last call to name each one asked.          *)
THEOREM LastCallsAreServed == SysSpec => []ServesAsAsked
<1>1. MeetingInv => ServesAsAsked
  <2> SUFFICES ASSUME MeetingInv PROVE ServesAsAsked
    OBVIOUS
  <2>1. asked \in Seq(ServerSetterCall)
    BY CallsAreSetterCalls DEF MeetingInv, Ordered
  <2>2. /\ ServerBuilder(asked).bind_address_error => BoundLast \in Malformed
        /\ ~ServerBuilder(asked).bind_address_error => BoundLast = Config.bind_address
    BY <2>1, AddressIsLast DEF BoundLast, Config
  <2>3. Config.max_recv_message_size = LastValue(asked, {"max_recv_message_size"}, "4MB")
    <3>1. \A s \in SetterName : "max_recv_message_size" \in ServerFields(s)
                               <=> s \in {"max_recv_message_size"}
      BY DEF ServerFields, Fields
    <3>2. "max_recv_message_size" \in DOMAIN ServerDefault \ {"bind_address"}
      BY DEF ServerDefault
    <3>3. ServerDefault["max_recv_message_size"] = "4MB"
      BY DEF ServerDefault
    <3>4. ServerBuilder(asked).config["max_recv_message_size"]
             = LastValue(asked, {"max_recv_message_size"}, ServerDefault["max_recv_message_size"])
      BY <2>1, <3>1, <3>2, ServerFieldIsLast
    <3> QED
      BY <3>3, <3>4 DEF Config
  <2>4. Config.enable_health_check = LastValue(asked, {"enable_health_check"}, "on")
    <3>1. \A s \in SetterName : "enable_health_check" \in ServerFields(s)
                               <=> s \in {"enable_health_check"}
      BY DEF ServerFields, Fields
    <3>2. "enable_health_check" \in DOMAIN ServerDefault \ {"bind_address"}
      BY DEF ServerDefault
    <3>3. ServerDefault["enable_health_check"] = "on"
      BY DEF ServerDefault
    <3>4. ServerBuilder(asked).config["enable_health_check"]
             = LastValue(asked, {"enable_health_check"}, ServerDefault["enable_health_check"])
      BY <2>1, <3>1, <3>2, ServerFieldIsLast
    <3> QED
      BY <3>3, <3>4 DEF Config
  <2>5. Config.enable_reflection = LastValue(asked, {"enable_reflection"}, "off")
    <3>1. \A s \in SetterName : "enable_reflection" \in ServerFields(s)
                               <=> s \in {"enable_reflection"}
      BY DEF ServerFields, Fields
    <3>2. "enable_reflection" \in DOMAIN ServerDefault \ {"bind_address"}
      BY DEF ServerDefault
    <3>3. ServerDefault["enable_reflection"] = "off"
      BY DEF ServerDefault
    <3>4. ServerBuilder(asked).config["enable_reflection"]
             = LastValue(asked, {"enable_reflection"}, ServerDefault["enable_reflection"])
      BY <2>1, <3>1, <3>2, ServerFieldIsLast
    <3> QED
      BY <3>3, <3>4 DEF Config
  <2>6. ASSUME NEW f \in TransportSettings
        PROVE  /\ f \in DOMAIN build_transport(Config)
               /\ build_transport(Config)[f] = LastValue(asked, Naming(f), ServerDefault[f])
    <3>1. ServerBuilder(asked).config[f] = LastValue(asked, Naming(f), ServerDefault[f])
      BY <2>1, NamingIsAssigning, ServerFieldIsLast
    <3> QED
      BY <3>1, NamingIsAssigning DEF Config, build_transport
  <2>7. stage = "config_error" => BoundLast \in Malformed
    BY <2>2 DEF MeetingInv, Assembled
  <2>8. ASSUME NEW c \in Clients, conn[c] \in {"up", "open"}
        PROVE  /\ BoundLast = Config.bind_address
               /\ transport = build_transport(Config)
               /\ recv_limit = Config.max_recv_message_size
               /\ health = Health(Config)
               /\ reflection = "served" => Config.enable_reflection = "on"
    <3>1. Up
      BY <2>8 DEF MeetingInv, Met
    <3>2. /\ Ready /\ stage # "assembled" /\ stage \notin {"configured", "config_error"}
      BY <3>1 DEF Up, Ready
    <3> QED
      BY <2>2, <3>2 DEF MeetingInv, Assembled
  <2> QED
    BY <2>3, <2>4, <2>5, <2>6, <2>7, <2>8 DEF ServesAsAsked, Health
<1> QED
  BY <1>1, MeetingHolds, PTL

(* What either side checks in the handshake is what the configurations     *)
(* mean by trust.                                                          *)
LEMMA HandshakeIsTrust ==
    ASSUME MeetingInv, Ready, NEW c \in Clients
    PROVE  (ClientAccepts(c) /\ ServerAccepts(c)) <=> Trusting(c)
<1> DEFINE s == LastValue(asked, {"tls"}, "unset")
           t == LastValue(order[c].calls, {"tls"}, "unset")
<1>1. server_tls = s
  <2>1. asked \in Seq(ServerSetterCall)
    BY CallsAreSetterCalls DEF MeetingInv, Ordered
  <2>2. \A x \in SetterName : "tls" \in ServerFields(x) <=> x \in {"tls"}
    BY DEF ServerFields, Fields
  <2>3. "tls" \in DOMAIN ServerDefault \ {"bind_address"}
    BY DEF ServerDefault
  <2>4. ServerDefault["tls"] = "unset"
    BY DEF ServerDefault
  <2>5. ServerBuilder(asked).config["tls"] = LastValue(asked, {"tls"}, ServerDefault["tls"])
    BY <2>1, <2>2, <2>3, ServerFieldIsLast
  <2> QED
    BY <2>4, <2>5 DEF MeetingInv, Assembled, Config
<1>2. ConfigOf(c).tls = t
  <2>1. order[c].calls \in Seq(ClientSetterCall)
    BY CallsAreSetterCalls DEF MeetingInv, Ordered
  <2> QED
    BY <2>1, ClientTlsIsLast DEF ConfigOf
<1>3. s \in DOMAIN ServerTls \cup {"unset"} /\ t \in DOMAIN ClientTls \cup {"unset"}
  BY CallsAreSetterCalls DEF MeetingInv, Ordered
<1> HIDE DEF s, t
<1>4. CASE s = "unset" \/ t = "unset"
  <2>1. Trusting(c) <=> s = t
    BY <1>4 DEF Trusting, s, t
  <2> QED
    BY <1>1, <1>2, <1>4, <2>1 DEF ClientAccepts, ServerAccepts
<1>5. CASE s # "unset" /\ t # "unset"
  <2>1. ServerTls[s] \in ServerTlsConfig
    BY <1>3, <1>5, ServerTlsAssumption
  <2>2. /\ Offered.issuer = ServerTls[s].issuer
        /\ Offered.client_ca_cert_pem = ServerTls[s].client_ca_cert_pem
        /\ ServerTls[s].client_ca_cert_pem # "unset" =>
              Offered.client_auth_optional = ServerTls[s].client_auth_optional
    BY <1>1, <2>1 DEF Offered, build_server_tls_config, ServerTlsConfig
  <2>3. ClientAccepts(c) <=> /\ ClientTls[t].ca_cert_pem = ServerTls[s].issuer
                             /\ ClientTls[t].domain_name \in {"unset", "localhost"}
    BY <1>1, <1>2, <1>5, <2>2 DEF ClientAccepts, apply_tls
  <2>4. ServerAccepts(c) <=>
           (ServerTls[s].client_ca_cert_pem # "unset" =>
               \/ Presented(c) = ServerTls[s].client_ca_cert_pem
               \/ Presented(c) = "unset" /\ ServerTls[s].client_auth_optional)
    BY <1>1, <1>2, <1>5, <2>2 DEF ServerAccepts
  <2>5. Presented(c) = IF "unset" \in {ClientTls[t].client_cert_pem,
                                       ClientTls[t].client_key_pem}
                         THEN "unset" ELSE ClientTls[t].client_cert_pem
    BY <1>2, <1>5 DEF Presented, apply_tls
  <2>6. Trusting(c) <=>
           /\ ClientTls[t].ca_cert_pem = ServerTls[s].issuer
           /\ ClientTls[t].domain_name \in {"unset", "localhost"}
           /\ ServerTls[s].client_ca_cert_pem # "unset" =>
                 IF "unset" \notin {ClientTls[t].client_cert_pem,
                                    ClientTls[t].client_key_pem}
                   THEN ClientTls[t].client_cert_pem = ServerTls[s].client_ca_cert_pem
                   ELSE ServerTls[s].client_auth_optional
    BY <1>5 DEF Trusting, s, t
  <2> QED
    BY <2>3, <2>4, <2>5, <2>6
<1> QED
  BY <1>4, <1>5

(* A request reaches the receive limit or a handler only between peers     *)
(* whose configurations let them trust each other, and such peers never    *)
(* refuse one another, whatever profiles they name.                        *)
THEOREM TrustDecides == SysSpec => []ServedExactlyIfTrusting
<1>1. MeetingInv => ServedExactlyIfTrusting
  <2> SUFFICES ASSUME MeetingInv, NEW c \in Clients
               PROVE  (InFlight(c) => Trusting(c)) /\ (conn[c] = "refused" => ~Trusting(c))
    BY DEF ServedExactlyIfTrusting
  <2>1. Met(c)
    BY DEF MeetingInv
  <2>2. conn[c] # "down" => ((ClientAccepts(c) /\ ServerAccepts(c)) <=> Trusting(c))
    <3> SUFFICES ASSUME conn[c] # "down"
                 PROVE  (ClientAccepts(c) /\ ServerAccepts(c)) <=> Trusting(c)
      OBVIOUS
    <3>1. Ready
      BY <2>1 DEF Met, Up, Ready
    <3> QED
      BY <3>1, HandshakeIsTrust
  <2>3. InFlight(c) => conn[c] # "down" /\ ClientAccepts(c) /\ ServerAccepts(c)
    BY <2>1 DEF Met
  <2>4. conn[c] = "refused" => conn[c] # "down" /\ ~(ClientAccepts(c) /\ ServerAccepts(c))
    BY <2>1 DEF Met
  <2> HIDE DEF Trusting
  <2> QED
    BY <2>2, <2>3, <2>4
<1> QED
  BY <1>1, MeetingHolds, PTL

=============================================================================
