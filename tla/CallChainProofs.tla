-------------------------- MODULE CallChainProofs --------------------------
(***************************************************************************)
(* Proofs for Interceptors and CallChain: what a chain of interceptors, of *)
(* any length and in any order, does to a credential and to a request id,  *)
(* and from the inductive invariants of the chain of calls, of any number  *)
(* of hops, the properties the run checks.                                 *)
(***************************************************************************)
EXTENDS CallChain, WellFoundedInduction, TLAPS

-----------------------------------------------------------------------------
(* Folds.                                                                  *)

(* Every non-empty set of naturals has a least element.                    *)
LEMMA LeastNatural ==
    ASSUME NEW T, T \subseteq Nat, T # {}
    PROVE  \E n \in T : \A m \in T : n <= m
<1> DEFINE R == {ss \in Nat \X Nat : ss[1] < ss[2]}
<1>1. IsWellFoundedOn(R, Nat)
  BY NatLessThanWellFounded DEF OpToRel
<1>2. \E n \in T : \A m \in T : <<m, n>> \notin R
  <2> HIDE DEF R
  <2> QED
    BY <1>1, WFMin
<1>3. PICK n \in T : \A m \in T : <<m, n>> \notin R
  BY <1>2
<1>4. ASSUME NEW m \in T PROVE n <= m
  <2>1. m \in Nat /\ n \in Nat /\ <<m, n>> \notin R
    BY <1>3
  <2>2. ~(m < n)
    BY <2>1
  <2> QED
    BY <2>1, <2>2
<1> QED
  BY <1>3, <1>4

(* A sequence of values that, once in a set, no step takes out of it.      *)
LEMMA StaysIn ==
    ASSUME NEW n \in Nat, NEW j \in 0..n, NEW f, NEW S, f[j] \in S,
           \A k \in 1..n : j < k /\ f[k - 1] \in S => f[k] \in S
    PROVE  f[n] \in S
<1> DEFINE T == {k \in j..n : f[k] \notin S}
<1>1. SUFFICES ASSUME T # {} PROVE FALSE
  OBVIOUS
<1>2. PICK k \in T : \A i \in T : k <= i
  <2>1. T \subseteq Nat
    OBVIOUS
  <2> HIDE DEF T
  <2> QED
    BY <1>1, <2>1, LeastNatural
<1>3. k \in j..n /\ f[k] \notin S /\ \A i \in T : k <= i
  BY <1>2
<1>4. k # j
  BY <1>3
<1>5. k - 1 \in j..n /\ k \in 1..n /\ j < k /\ ~(k <= k - 1)
  BY <1>3, <1>4
<1>6. k - 1 \notin T
  <2> HIDE DEF T
  <2> QED
    BY <1>3, <1>5
<1>7. f[k - 1] \in S
  BY <1>5, <1>6
<1> QED
  BY <1>3, <1>5, <1>7

(* What the steps 1 .. n of a fold make of the values in V.                *)
Steps(n, V) == [(1..n) \X V -> V]

(* Steps that stay within a set can be taken one after the other.          *)
LEMMA FoldExists ==
    ASSUME NEW n \in Nat, NEW V, NEW base \in V, NEW G \in Steps(n, V)
    PROVE  \E f \in [0..n -> V] :
              f[0] = base /\ \A k \in 1..n : f[k] = G[<<k, f[k - 1]>>]
<1> DEFINE Good(m, f) == /\ f \in [0..m -> V]
                         /\ f[0] = base
                         /\ \A k \in 1..m : f[k] = G[<<k, f[k - 1]>>]
           T == {m \in 0..n : ~ \E f : Good(m, f)}
<1>1. T = {}
  <2>1. SUFFICES ASSUME T # {} PROVE FALSE
    OBVIOUS
  <2>2. PICK m \in T : \A j \in T : m <= j
    <3>1. T \subseteq Nat
      OBVIOUS
    <3> HIDE DEF T
    <3> QED
      BY <2>1, <3>1, LeastNatural
  <2>3. m # 0
    <3>1. Good(0, [k \in 0..0 |-> base])
      OBVIOUS
    <3>2. 0 \notin T
      BY <3>1
    <3> QED
      BY <3>2, <2>2
  <2>4. m \in 1..n /\ m - 1 \in 0..n /\ m - 1 \notin T
    <3>1. m \in 0..n /\ \A j \in T : m <= j
      BY <2>2
    <3> HIDE DEF T
    <3> QED
      BY <3>1, <2>3
  <2>5. PICK f : Good(m - 1, f)
    <3> HIDE DEF Good
    <3> QED
      BY <2>4
  <2> DEFINE g == [k \in 0..m |-> IF k = m THEN G[<<m, f[m - 1]>>] ELSE f[k]]
  <2>6. f \in [0..(m - 1) -> V] /\ f[0] = base
          /\ \A k \in 1..(m - 1) : f[k] = G[<<k, f[k - 1]>>]
    BY <2>5
  <2>7. f[m - 1] \in V /\ G[<<m, f[m - 1]>>] \in V
    BY <2>4, <2>6 DEF Steps
  <2>8. g \in [0..m -> V] /\ g[0] = base
    BY <2>4, <2>6, <2>7
  <2>9. ASSUME NEW k \in 1..m PROVE g[k] = G[<<k, g[k - 1]>>]
    <3>1. g[k - 1] = f[k - 1]
      BY <2>4
    <3>2. CASE k = m
      <4>1. g[k] = G[<<k, f[k - 1]>>]
        BY <3>2, <2>4
      <4> HIDE DEF g
      <4> QED
        BY <4>1, <3>1
    <3>3. CASE k # m
      <4>1. k \in 1..(m - 1) /\ g[k] = f[k]
        BY <3>3, <2>4
      <4> HIDE DEF g
      <4> QED
        BY <4>1, <3>1, <2>6
    <3> QED
      BY <3>2, <3>3
  <2>10. Good(m, g)
    BY <2>8, <2>9
  <2>11. m \notin T
    BY <2>10
  <2> QED
    BY <2>11, <2>2
<1>2. PICK f : Good(n, f)
  <2>1. n \notin T
    BY <1>1
  <2> QED
    BY <2>1
<1> QED
  BY <1>2

-----------------------------------------------------------------------------
(* Interceptors.                                                           *)

(* The values the code builds itself are metadata values.                   *)
LEMMA ValuesAreTyped ==
    /\ Absent \in Value
    /\ \A t \in Seq(Byte) : Plain(t) \in Value /\ WithBearer(t) \in Value
    /\ NoMetadata \in Metadata
<1>1. Absent \in Value
  BY DEF Absent, Value
<1>2. \A t \in Seq(Byte) : Plain(t) \in Value /\ WithBearer(t) \in Value
  BY DEF Plain, WithBearer, Value
<1> QED
  BY <1>1, <1>2 DEF NoMetadata, Metadata

(* What can be read back can be inserted.                                  *)
LEMMA ReadableIsParsable ==
    ASSUME NEW v, Printable(v)
    PROVE  Parsable(v)
BY HeaderAssumption DEF Printable, Parsable

(* An interceptor hands on well typed metadata.                            *)
LEMMA CallIsTyped ==
    ASSUME NEW i \in Interceptor, NEW auth \in AuthType, NEW h \in Headers,
           NEW fresh \in Value, NEW m \in Metadata
    PROVE  Call(i, auth, h, fresh, m) \in Metadata
<1>1. ASSUME NEW g \in Headers, NEW v \in Value PROVE Attach(m, g, v) \in Metadata
  BY <1>1 DEF Attach, Metadata
<1>2. AddAuth(auth, m) \in Metadata
  <2>1. CASE auth \in [type : {"bearer"}, text : Seq(Byte)]
    BY <2>1, <1>1, ValuesAreTyped, HeaderAssumption DEF AddAuth
  <2>2. CASE auth \in [type : {"api_key"}, header : Headers, text : Seq(Byte)]
    BY <2>2, <1>1, ValuesAreTyped DEF AddAuth
  <2>3. CASE auth \in [type : {"custom"}, verdict : StatusCodes]
    BY <2>3 DEF AddAuth
  <2> QED
    BY <2>1, <2>2, <2>3 DEF AuthType
<1>3. EnsureRequestId(m, h, fresh) \in Metadata
  BY <1>1, ValuesAreTyped DEF EnsureRequestId, extract_request_id, Get, Metadata
<1> QED
  BY <1>2, <1>3 DEF Call, Interceptor

(* Intercept calls the interceptors of a chain one after the other.        *)
LEMMA InterceptInSteps ==
    ASSUME NEW chain \in Seq(Interceptor), NEW auth \in AuthType, NEW h \in Headers,
           NEW fresh \in Value, NEW m \in Metadata
    PROVE  \E f \in [0..Len(chain) -> Metadata] :
              /\ f[0] = m
              /\ \A k \in 1..Len(chain) :
                    f[k] = Call(chain[k], auth, h, fresh, f[k - 1])
              /\ Intercept(chain, auth, h, fresh, m) = f[Len(chain)]
<1> DEFINE n == Len(chain)
           G == [p \in (1..n) \X Metadata |-> Call(chain[p[1]], auth, h, fresh, p[2])]
<1>1. n \in Nat /\ \A k \in 1..n : chain[k] \in Interceptor
  OBVIOUS
<1>2. G \in Steps(n, Metadata)
  <2>1. ASSUME NEW p \in (1..n) \X Metadata
        PROVE  Call(chain[p[1]], auth, h, fresh, p[2]) \in Metadata
    BY <1>1, CallIsTyped
  <2> QED
    BY <2>1 DEF Steps
<1>3. PICK e \in [0..n -> Metadata] :
         e[0] = m /\ \A k \in 1..n : e[k] = G[<<k, e[k - 1]>>]
  <2>1. n \in Nat
    BY <1>1
  <2>2. m \in Metadata
    OBVIOUS
  <2> HIDE DEF G, n
  <2>3. \A g \in Steps(n, Metadata) :
           \E f \in [0..n -> Metadata] :
              f[0] = m /\ \A k \in 1..n : f[k] = g[<<k, f[k - 1]>>]
    <3> SUFFICES ASSUME NEW g \in Steps(n, Metadata)
                 PROVE  \E f \in [0..n -> Metadata] :
                           f[0] = m /\ \A k \in 1..n : f[k] = g[<<k, f[k - 1]>>]
      OBVIOUS
    <3> QED
      BY <2>1, <2>2, FoldExists
  <2> QED
    BY <1>2, <2>3
<1>4. e = [k \in 0..n |-> IF k = 0 THEN m
                            ELSE Call(chain[k], auth, h, fresh, e[k - 1])]
  <2>1. ASSUME NEW k \in 0..n, k # 0
        PROVE  G[<<k, e[k - 1]>>] = Call(chain[k], auth, h, fresh, e[k - 1])
    <3>1. <<k, e[k - 1]>> \in (1..n) \X Metadata
      BY <2>1, <1>1
    <3> QED
      BY <3>1
  <2> HIDE DEF G
  <2>2. \A k \in 0..n : e[k] = IF k = 0 THEN m
                                 ELSE Call(chain[k], auth, h, fresh, e[k - 1])
    <3> TAKE k \in 0..n
    <3>1. CASE k # 0
      <4>1. k \in 1..n
        BY <3>1
      <4> QED
        BY <4>1, <3>1, <1>3, <2>1
    <3> QED
      BY <3>1, <1>3
  <2> QED
    BY <1>3, <2>2
<1> DEFINE f == CHOOSE g : g = [k \in 0..n |->
                    IF k = 0 THEN m ELSE Call(chain[k], auth, h, fresh, g[k - 1])]
<1>5. f = [k \in 0..n |-> IF k = 0 THEN m
                            ELSE Call(chain[k], auth, h, fresh, f[k - 1])]
  BY <1>4
<1>6. Intercept(chain, auth, h, fresh, m) = f[n]
  BY DEF Intercept
<1> HIDE DEF f
<1>7. f[0] = m /\ \A k \in 1..n : f[k] = Call(chain[k], auth, h, fresh, f[k - 1])
  BY <1>1, <1>5
<1>8. \A k \in 0..n : f[k] \in Metadata
  <2> SUFFICES ASSUME NEW k \in 0..n PROVE f[k] \in Metadata
    OBVIOUS
  <2>1. \A i \in 1..k : f[i - 1] \in Metadata => f[i] \in Metadata
    BY <1>1, <1>7, CallIsTyped
  <2>2. k \in Nat /\ 0 \in 0..k
    BY <1>1
  <2> HIDE DEF n
  <2> QED
    BY <1>7, <2>1, <2>2, StaysIn
<1>9. f \in [0..n -> Metadata]
  BY <1>5, <1>8
<1> QED
  BY <1>6, <1>7, <1>9

(* A readable id survives every chain whose credential is elsewhere.       *)
LEMMA IdSurvives ==
    ASSUME NEW chain \in Seq(Interceptor), NEW auth \in AuthType, NEW h \in Headers,
           NEW fresh \in Value, NEW m \in Metadata,
           HeaderKind[h] = "ascii", Printable(m[h]), m[h] # Absent,
           auth.type # "custom" => HeaderOf(auth) # h
    PROVE  Intercept(chain, auth, h, fresh, m)[h] = m[h]
<1> DEFINE S == {x \in Metadata : x[h] = m[h]}
<1>1. PICK f \in [0..Len(chain) -> Metadata] :
         /\ f[0] = m
         /\ \A k \in 1..Len(chain) : f[k] = Call(chain[k], auth, h, fresh, f[k - 1])
         /\ Intercept(chain, auth, h, fresh, m) = f[Len(chain)]
  BY InterceptInSteps
<1>2. ASSUME NEW i \in Interceptor, NEW x \in S
      PROVE  Call(i, auth, h, fresh, x) \in S
  <2>1. Call(i, auth, h, fresh, x) \in Metadata
    BY CallIsTyped
  <2>2. AddAuth(auth, x)[h] = m[h]
    <3>1. CASE auth.type = "bearer"
      BY <3>1 DEF AddAuth, Attach, Metadata, HeaderOf
    <3>2. CASE auth.type = "api_key"
      BY <3>2 DEF AddAuth, Attach, Metadata, HeaderOf
    <3>3. CASE auth.type = "custom"
      BY <3>3 DEF AddAuth
    <3> QED
      BY <3>1, <3>2, <3>3 DEF AuthType
  <2>3. EnsureRequestId(x, h, fresh)[h] = m[h]
    BY DEF EnsureRequestId, extract_request_id, Get, Attach, Metadata
  <2> QED
    BY <2>1, <2>2, <2>3 DEF Call, Interceptor
<1>3. f[Len(chain)] \in S
  <2>1. Len(chain) \in Nat /\ 0 \in 0..Len(chain) /\ f[0] \in S
    BY <1>1
  <2>2. \A k \in 1..Len(chain) : 0 < k /\ f[k - 1] \in S => f[k] \in S
    BY <1>1, <1>2
  <2> HIDE DEF S
  <2> QED
    BY <2>1, <2>2, StaysIn
<1> QED
  BY <1>1, <1>3

(* A credential that can be sent is sent, wherever in the chain it is      *)
(* attached and whatever else is called, even if it shares its header with *)
(* the request id.                                                         *)
LEMMA CredentialIsSent ==
    ASSUME NEW chain \in Seq(Interceptor), NEW auth \in AuthType, NEW h \in Headers,
           NEW fresh \in Value, NEW m \in Metadata,
           auth.type # "custom", Sendable(auth),
           NEW j \in 1..Len(chain), chain[j] = "auth"
    PROVE  Intercept(chain, auth, h, fresh, m)[HeaderOf(auth)] = CredentialOf(auth)
<1> DEFINE g == HeaderOf(auth)
           v == CredentialOf(auth)
           S == {x \in Metadata : x[g] = v}
<1>1. g \in Headers /\ v \in Value /\ v # Absent
  <2>1. CASE auth.type = "bearer"
    BY <2>1, HeaderAssumption, ValuesAreTyped
       DEF AuthType, HeaderOf, CredentialOf, WithBearer, Absent
  <2>2. CASE auth.type = "api_key"
    BY <2>2, ValuesAreTyped DEF AuthType, HeaderOf, CredentialOf, Plain, Absent
  <2> QED
    BY <2>1, <2>2 DEF AuthType
<1>2. HeaderKind[g] = "ascii" /\ Printable(v)
  BY DEF Sendable
<1>3. PICK f \in [0..Len(chain) -> Metadata] :
         /\ f[0] = m
         /\ \A k \in 1..Len(chain) : f[k] = Call(chain[k], auth, h, fresh, f[k - 1])
         /\ Intercept(chain, auth, h, fresh, m) = f[Len(chain)]
  BY InterceptInSteps
<1>4. ASSUME NEW x \in Metadata
      PROVE  AddAuth(auth, x) \in Metadata /\ AddAuth(auth, x)[g] = v
  <2>1. AddAuth(auth, x) \in Metadata
    BY CallIsTyped DEF Call, Interceptor
  <2>2. AddAuth(auth, x) = Attach(x, g, v)
    <3>1. CASE auth.type = "bearer"
      BY <3>1 DEF AddAuth, HeaderOf, CredentialOf
    <3>2. CASE auth.type = "api_key"
      BY <3>2 DEF AddAuth, HeaderOf, CredentialOf
    <3> QED
      BY <3>1, <3>2 DEF AuthType
  <2> HIDE DEF g, v
  <2> QED
    BY <2>1, <2>2, <1>1, <1>2, ReadableIsParsable DEF Attach, Metadata
<1>5. ASSUME NEW i \in Interceptor, NEW x \in S
      PROVE  Call(i, auth, h, fresh, x) \in S
  <2>1. Call(i, auth, h, fresh, x) \in Metadata
    BY CallIsTyped
  <2>2. EnsureRequestId(x, h, fresh)[g] = v
    <3> HIDE DEF g, v
    <3>1. x \in Metadata /\ x[g] = v
      OBVIOUS
    <3> QED
      BY <3>1, <1>1, <1>2 DEF EnsureRequestId, extract_request_id, Get, Attach, Metadata
  <2> QED
    BY <2>1, <2>2, <1>4 DEF Call, Interceptor
<1>6. Len(chain) \in Nat /\ j \in 0..Len(chain) /\ \A k \in 1..Len(chain) : chain[k] \in Interceptor
  OBVIOUS
<1>7. f[j] \in S
  <2>1. f[j] = AddAuth(auth, f[j - 1]) /\ f[j - 1] \in Metadata
    BY <1>3 DEF Call
  <2> QED
    BY <2>1, <1>4
<1>8. f[Len(chain)] \in S
  <2>1. \A k \in 1..Len(chain) : j < k /\ f[k - 1] \in S => f[k] \in S
    BY <1>3, <1>5, <1>6
  <2> HIDE DEF S
  <2> QED
    BY <1>6, <1>7, <2>1, StaysIn
<1> QED
  BY <1>3, <1>8

(* A server accepts exactly the credential it was set up with.             *)
LEMMA AcceptsExactly ==
    ASSUME NEW auth \in AuthType, auth.type # "custom", NEW m \in Metadata
    PROVE  Validate(auth, m) = "ok"
             <=> m[HeaderOf(auth)] = CredentialOf(auth) /\ Sendable(auth)
<1>1. ASSUME NEW a \in Seq(Byte), NEW b \in Seq(Byte)
      PROVE  constant_time_eq(a, b) <=> a = b
  <2>1. ASSUME Len(a) = Len(b), \A i \in 1..Len(a) : a[i] = b[i] PROVE a = b
    BY <2>1
  <2> QED
    BY <2>1 DEF constant_time_eq
<1>2. CASE auth.type = "bearer"
  <2>1. auth.text \in Seq(Byte) /\ m["authorization"] \in Value
    BY <1>2, HeaderAssumption DEF AuthType, Metadata
  <2>2. PICK v : v = m["authorization"]
    OBVIOUS
  <2>3. v \in Value /\ v.text \in Seq(Byte)
    BY <2>1, <2>2 DEF Value
  <2>4. v = WithBearer(auth.text) <=> v.prefix = "Bearer" /\ v.text = auth.text
    BY <2>3 DEF Value, WithBearer
  <2>5. Validate(auth, m) = "ok"
          <=> /\ HeaderKind["authorization"] = "ascii" /\ Printable(v)
              /\ v.prefix = "Bearer" /\ constant_time_eq(v.text, auth.text)
    BY <1>2, <2>2 DEF Validate, Get, Absent
  <2>6. /\ HeaderOf(auth) = "authorization"
        /\ CredentialOf(auth) = WithBearer(auth.text)
    BY <1>2 DEF HeaderOf, CredentialOf
  <2> QED
    BY <1>1, <2>1, <2>2, <2>3, <2>4, <2>5, <2>6 DEF Sendable
<1>3. CASE auth.type = "api_key"
  <2>1. auth.text \in Seq(Byte) /\ m[auth.header] \in Value
    BY <1>3 DEF AuthType, Metadata
  <2>2. PICK v : v = m[auth.header]
    OBVIOUS
  <2>3. v \in Value /\ v.text \in Seq(Byte)
    BY <2>1, <2>2 DEF Value
  <2>4. v = Plain(auth.text) <=> v.prefix = "none" /\ v.text = auth.text
    BY <2>3 DEF Value, Plain
  <2>5. Validate(auth, m) = "ok"
          <=> /\ HeaderKind[auth.header] = "ascii" /\ Printable(v)
              /\ v.prefix = "none" /\ constant_time_eq(v.text, auth.text)
    BY <1>3, <2>2 DEF Validate, Get, Absent
  <2>6. HeaderOf(auth) = auth.header /\ CredentialOf(auth) = Plain(auth.text)
    BY <1>3 DEF HeaderOf, CredentialOf
  <2> QED
    BY <1>1, <2>1, <2>2, <2>3, <2>4, <2>5, <2>6 DEF Sendable
<1> QED
  BY <1>2, <1>3 DEF AuthType

-----------------------------------------------------------------------------
(* The inductive invariants.                                               *)

Typed ==
    /\ setting \in [1..Hops -> [chain  : Seq(Interceptor),
                                client : AuthType, server : AuthType]]
    /\ idHeader \in Headers /\ ownId \in Value
    /\ hop \in 1..Hops
    /\ pc \in {"send", "admit", "handle", "return", "done"}
    /\ pc = "done" => hop = 1
    /\ attempt \in [1..Hops -> Nat]
    /\ md \in [1..Hops -> Metadata]
    /\ status \in [1..Hops -> StatusCodes \cup {"none"}]

(* Only the hops down to the one at work have been tried, and below it one *)
(* whose answer its handler has.                                           *)
OnlyTriedInOrder ==
    /\ pc \in {"send", "admit"} => \A h \in (hop + 1)..Hops : attempt[h] = 0
    /\ pc = "handle" /\ hop < Hops /\ attempt[hop + 1] = 0
         => \A h \in (hop + 1)..Hops : attempt[h] = 0
    /\ \A h \in 1..hop : attempt[h] = 0 => h = hop /\ pc = "send"

(* A status that says of the failure behind it what origin says.           *)
Matches(s) == s # "ok" /\ (s \in RetryCodes <=> origin \in Transient)

(* What the hop at work, or the one it waited for, failed with matches the *)
(* origin; and a failure that is not transient is on its way up.           *)
Answered(h) == pc \in {"return", "done"} /\ h = hop
Heard(h) == pc = "handle" /\ h = hop + 1 /\ h <= Hops /\ attempt[h] > 0
StatusTellsOrigin ==
    /\ \A h \in 1..Hops : Answered(h) \/ Heard(h) => status[h] = "ok" \/ Matches(status[h])
    /\ origin \notin Transient \cup {"none"}
         => \E h \in 1..Hops : (Answered(h) \/ Heard(h)) /\ status[h] # "ok"

FailureInv == Typed /\ OnlyTriedInOrder /\ StatusTellsOrigin

(* Requests in the handlers passed, and one under way carries a credential *)
(* its client was given.                                                   *)
Passed ==
    \A a \in admitted :
        a.hop \in 1..Hops /\ a.md \in Metadata
          /\ Validate(setting[a.hop].server, a.md) = "ok"
Carries(h) ==
    LET s == setting[h]
    IN  s.client.type # "custom" /\ Sendable(s.client)
          /\ "auth" \in {s.chain[i] : i \in 1..Len(s.chain)} =>
            md[h][HeaderOf(s.client)] = CredentialOf(s.client)
CredentialInv == Typed /\ Passed /\ (pc = "admit" => Carries(hop))

(* The hops whose request already carries the id of this attempt: all      *)
(* above the one at work, and that one once its server has let it in, or,  *)
(* its id being handed down, as soon as it is sent.                        *)
HasId(h) == h < hop \/ (h = hop /\ (pc = "handle" \/ (pc = "admit" /\ hop > 1)))
Id(h) == md[h][idHeader]
OwnIdUsable == ownId # Absent /\ Printable(ownId)

IdHandedDown ==
    \A h \in 1..Hops : HasId(h) => Id(h) = Id(1) /\ Id(h) # Absent /\ Printable(Id(h))

SeenAreThisAttempts ==
    /\ \A p \in seenIds : p[1] \in Nat /\ p[1] <= attempt[1]
    /\ pc = "admit" /\ hop = 1 => \A p \in seenIds : p[1] < attempt[1]
    /\ \A p \in seenIds : p[1] = attempt[1] => p[2] = Id(1)
    /\ \A p, q \in seenIds : p[1] = q[1] => p[2] = q[2]

OwnIdKept ==
    OwnIdUsable =>
        /\ ~(pc = "send" /\ hop = 1) => Id(1) = ownId
        /\ \A p \in seenIds : p[2] = ownId

(* A header that no ASCII value can have is never read.                    *)
IdInv ==
    /\ Typed
    /\ idHeader \notin AuthHeaders =>
          IF HeaderKind[idHeader] = "ascii"
            THEN IdHandedDown /\ SeenAreThisAttempts /\ OwnIdKept
            ELSE seenIds = {}

-----------------------------------------------------------------------------
(* Types.                                                                  *)

(* The conversion gives a status code, retried exactly for the transient   *)
(* kinds.                                                                  *)
LEMMA ToStatusTells ==
    ASSUME NEW kind \in ErrorKinds
    PROVE  /\ to_status(kind) \in StatusCodes \ {"ok"}
           /\ to_status(kind) \in RetryCodes <=> kind \in Transient
           /\ kind # "none"
BY DEF ErrorKinds, to_status, StatusCodes, RetryCodes, Transient

(* A validator answers with a status code or with ok.                       *)
LEMMA ValidateTells ==
    ASSUME NEW auth \in AuthType, NEW m
    PROVE  Validate(auth, m) \in StatusCodes
<1>1. CASE auth.type = "bearer"
  BY <1>1 DEF Validate, StatusCodes
<1>2. CASE auth.type = "api_key"
  BY <1>2 DEF Validate, StatusCodes
<1>3. CASE auth.type = "custom"
  BY <1>3 DEF Validate, AuthType
<1> QED
  BY <1>1, <1>2, <1>3 DEF AuthType

(* What a hop starts its request with is well typed.                        *)
LEMMA NewRequestTyped ==
    ASSUME Typed, pc = "send", NEW fresh \in Readings
    PROVE  /\ NewRequest \in Metadata
           /\ Intercept(setting[hop].chain, setting[hop].client, idHeader, fresh,
                        NewRequest) \in Metadata
<1>1. /\ setting[hop].chain \in Seq(Interceptor) /\ setting[hop].client \in AuthType
      /\ fresh \in Value /\ idHeader \in Headers /\ hop \in 1..Hops
  BY ReadingsAssumption DEF Typed
<1>2. Inherited \in Value
  <2>1. CASE hop = 1
    BY <2>1 DEF Inherited, Typed
  <2>2. CASE hop # 1
    <3>1. hop - 1 \in 1..Hops
      BY <2>2, <1>1, ChainAssumption
    <3>2. md[hop - 1][idHeader] \in Value
      BY <3>1, <1>1 DEF Typed, Metadata
    <3> QED
      BY <2>2, <3>2, ValuesAreTyped DEF Inherited, extract_request_id, Get
  <2> QED
    BY <2>1, <2>2
<1>3. NewRequest \in Metadata
  BY <1>1, <1>2, ValuesAreTyped DEF NewRequest, Metadata
<1>4. PICK f \in [0..Len(setting[hop].chain) -> Metadata] :
         Intercept(setting[hop].chain, setting[hop].client, idHeader, fresh, NewRequest)
            = f[Len(setting[hop].chain)]
  BY <1>1, <1>3, InterceptInSteps
<1>5. Len(setting[hop].chain) \in 0..Len(setting[hop].chain)
  BY <1>1
<1> QED
  BY <1>3, <1>4, <1>5

(* Giving a request an id keeps its metadata well typed.                    *)
LEMMA EnsuredTyped ==
    ASSUME NEW m \in Metadata, NEW h \in Headers, NEW fresh \in Value
    PROVE  EnsureRequestId(m, h, fresh) \in Metadata
BY ValuesAreTyped DEF EnsureRequestId, extract_request_id, Get, Attach, Metadata

(* The types hold before the first hop.                                     *)
LEMMA TypedInitially == Init => Typed
BY SettingsAssumption, ChainAssumption, ValuesAreTyped DEF Init, Typed

(* Every step of the chain keeps the types.                                 *)
LEMMA TypedStep == Typed /\ [Next]_vars => Typed'
<1> SUFFICES ASSUME Typed, [Next]_vars PROVE Typed'
  OBVIOUS
<1> USE DEF Typed
<1>0. Hops \in Nat
  BY ChainAssumption
<1>1. CASE Send
  <2>1. PICK fresh \in Readings :
           md' = [md EXCEPT ![hop] =
                    Intercept(setting[hop].chain, setting[hop].client, idHeader,
                              fresh, NewRequest)]
    BY <1>1 DEF Send
  <2>2. md' \in [1..Hops -> Metadata]
    <3>1. pc = "send"
      BY <1>1 DEF Send
    <3>2. Intercept(setting[hop].chain, setting[hop].client, idHeader, fresh,
                    NewRequest) \in Metadata
      BY <3>1, NewRequestTyped
    <3> QED
      BY <2>1, <3>2
  <2> QED
    BY <1>1, <2>2 DEF Send, fixed
<1>2. CASE Lost
  BY <1>2 DEF Lost, fixed, StatusCodes
<1>3. CASE Reject
  <2>1. Validate(setting[hop].server, md[hop]) \in StatusCodes
    BY ValidateTells
  <2> QED
    BY <1>3, <2>1 DEF Reject, fixed
<1>4. CASE Admit
  <2>1. PICK fresh \in Readings :
           md' = [md EXCEPT ![hop] = EnsureRequestId(@, idHeader, fresh)]
    BY <1>4 DEF Admit
  <2>2. md' \in [1..Hops -> Metadata]
    BY <2>1, EnsuredTyped, ReadingsAssumption
  <2> QED
    BY <1>4, <2>2 DEF Admit, fixed
<1>5. CASE Descend
  BY <1>0, <1>5 DEF Descend, fixed
<1>6. CASE Succeed
  BY <1>6 DEF Succeed, fixed, StatusCodes
<1>7. CASE FailItself
  <2>1. PICK kind \in ErrorKinds : status' = [status EXCEPT ![hop] = to_status(kind)]
    BY <1>7 DEF FailItself
  <2>2. to_status(kind) \in StatusCodes
    BY ToStatusTells
  <2> QED
    BY <1>7, <2>1, <2>2 DEF FailItself, fixed
<1>8. CASE FailWithNext
  <2>1. hop + 1 \in 1..Hops
    BY <1>0, <1>8 DEF FailWithNext
  <2>2. PassOn(status[hop + 1]) \in StatusCodes \cup {"none"}
    BY <2>1 DEF PassOn
  <2> QED
    BY <1>8, <2>2 DEF FailWithNext, fixed
<1>9. CASE RetryHop
  BY <1>9 DEF RetryHop, fixed
<1>10. CASE ReturnUp
  BY <1>0, <1>10 DEF ReturnUp, fixed
<1>11. CASE Deliver
  BY <1>11 DEF Deliver, fixed
<1>12. CASE UNCHANGED vars
  BY <1>12 DEF vars, fixed
<1> QED
  BY <1>1, <1>2, <1>3, <1>4, <1>5, <1>6, <1>7, <1>8, <1>9, <1>10, <1>11, <1>12 DEF Next

-----------------------------------------------------------------------------
(* Failures.                                                               *)

(* Nothing has failed before the first hop.                                 *)
LEMMA FailureInitially == Init => FailureInv
<1> SUFFICES ASSUME Init PROVE FailureInv
  OBVIOUS
<1>1. Typed
  BY TypedInitially
<1>2. OnlyTriedInOrder
  BY ChainAssumption DEF Init, OnlyTriedInOrder
<1>3. StatusTellsOrigin
  BY DEF Init, StatusTellsOrigin, Answered, Heard
<1> QED
  BY <1>1, <1>2, <1>3 DEF FailureInv

(* Hops behind the one at work stay untried, those before it tried.         *)
LEMMA OrderStep == Typed /\ OnlyTriedInOrder /\ [Next]_vars => OnlyTriedInOrder'
<1> SUFFICES ASSUME Typed, OnlyTriedInOrder, [Next]_vars PROVE OnlyTriedInOrder'
  OBVIOUS
<1>0. Hops \in Nat /\ hop \in 1..Hops /\ attempt \in [1..Hops -> Nat]
  BY ChainAssumption DEF Typed
<1>1. CASE Send
  BY <1>0, <1>1 DEF Send, OnlyTriedInOrder
<1>2. CASE Lost \/ Reject
  BY <1>0, <1>2 DEF Lost, Reject, OnlyTriedInOrder
<1>3. CASE Admit
  BY <1>0, <1>3 DEF Admit, OnlyTriedInOrder
<1>4. CASE Descend
  BY <1>0, <1>4 DEF Descend, OnlyTriedInOrder
<1>5. CASE Succeed \/ FailItself \/ FailWithNext
  BY <1>0, <1>5 DEF Succeed, FailItself, FailWithNext, OnlyTriedInOrder
<1>6. CASE RetryHop
  BY <1>0, <1>6 DEF RetryHop, OnlyTriedInOrder
<1>7. CASE ReturnUp
  BY <1>0, <1>7 DEF ReturnUp, OnlyTriedInOrder
<1>8. CASE Deliver
  BY <1>0, <1>8 DEF Deliver, OnlyTriedInOrder
<1>9. CASE UNCHANGED vars
  BY <1>9 DEF vars, OnlyTriedInOrder
<1> QED
  BY <1>1, <1>2, <1>3, <1>4, <1>5, <1>6, <1>7, <1>8, <1>9 DEF Next

(* Before a request is answered nothing is on its way up, so the origin is *)
(* no lasting failure.                                                     *)
LEMMA StatusStep == FailureInv /\ [Next]_vars => StatusTellsOrigin'
<1> SUFFICES ASSUME FailureInv, [Next]_vars PROVE StatusTellsOrigin'
  OBVIOUS
<1>0. /\ Hops \in Nat /\ hop \in 1..Hops /\ attempt \in [1..Hops -> Nat]
      /\ status \in [1..Hops -> StatusCodes \cup {"none"}]
      /\ OnlyTriedInOrder /\ StatusTellsOrigin
  BY ChainAssumption DEF FailureInv, Typed
<1> DEFINE Lasting == origin \notin Transient \cup {"none"}
<1>1. ASSUME pc' = "return", hop' = hop, status'[hop] # "ok",
             status'[hop] \in RetryCodes <=> origin' \in Transient
      PROVE  StatusTellsOrigin'
  BY <1>0, <1>1 DEF StatusTellsOrigin, Answered, Heard, Matches
<1>2. CASE Send
  <2>1. ~Lasting
    BY <1>0, <1>2 DEF Send, StatusTellsOrigin, Answered, Heard
  <2> QED
    BY <1>2, <2>1 DEF Send, StatusTellsOrigin, Answered, Heard
<1>3. CASE Lost
  <2>1. status'[hop] = "Unavailable"
    BY <1>0, <1>3 DEF Lost
  <2> QED
    BY <1>1, <1>3, <2>1 DEF Lost, RetryCodes, Transient
<1>4. CASE Reject
  <2> DEFINE v == Validate(setting[hop].server, md[hop])
  <2>1. v \in StatusCodes /\ v # "ok" /\ status'[hop] = v /\ origin' = v
    BY <1>0, <1>4, ValidateTells DEF Reject, FailureInv, Typed
  <2>2. v \in RetryCodes <=> v \in Transient
    BY <2>1 DEF StatusCodes, RetryCodes, Transient
  <2> QED
    BY <1>1, <1>4, <2>1, <2>2 DEF Reject
<1>5. CASE Admit
  <2>1. ~Lasting
    BY <1>0, <1>5 DEF Admit, StatusTellsOrigin, Answered, Heard
  <2>2. hop < Hops => attempt[hop + 1] = 0
    BY <1>0, <1>5 DEF Admit, OnlyTriedInOrder
  <2> QED
    BY <1>0, <1>5, <2>1, <2>2 DEF Admit, StatusTellsOrigin, Answered, Heard
<1>6. CASE Descend
  <2>1. ~Lasting
    BY <1>0, <1>6 DEF Descend, StatusTellsOrigin, Answered, Heard
  <2> QED
    BY <1>6, <2>1 DEF Descend, StatusTellsOrigin, Answered, Heard
<1>7. CASE Succeed
  <2>1. ~Lasting
    BY <1>0, <1>7 DEF Succeed, StatusTellsOrigin, Answered, Heard
  <2>2. status'[hop] = "ok"
    BY <1>0, <1>7 DEF Succeed
  <2> QED
    BY <1>7, <2>1, <2>2 DEF Succeed, StatusTellsOrigin, Answered, Heard
<1>8. CASE FailItself
  <2>1. PICK kind \in ErrorKinds : status' = [status EXCEPT ![hop] = to_status(kind)]
                                     /\ origin' = kind
    BY <1>8 DEF FailItself
  <2>2. status'[hop] = to_status(kind)
    BY <1>0, <2>1
  <2> QED
    BY <1>1, <1>8, <2>1, <2>2, ToStatusTells DEF FailItself
<1>9. CASE FailWithNext
  <2>1. hop + 1 \in 1..Hops /\ Heard(hop + 1)
    BY <1>0, <1>9 DEF FailWithNext, Heard
  <2>2. Matches(status[hop + 1])
    BY <1>0, <1>9, <2>1 DEF FailWithNext, StatusTellsOrigin
  <2>3. status'[hop] = status[hop + 1] /\ origin' = origin
    BY <1>0, <1>9 DEF FailWithNext, PassOn
  <2> QED
    BY <1>1, <1>9, <2>2, <2>3 DEF FailWithNext, Matches
<1>10. CASE RetryHop
  <2>1. status[hop] \in RetryCodes /\ Answered(hop)
    BY <1>10 DEF RetryHop, MayRetry, Answered
  <2>2. status[hop] # "ok"
    BY <2>1 DEF RetryCodes
  <2>3. ~Lasting
    BY <1>0, <2>1, <2>2 DEF StatusTellsOrigin, Matches
  <2> QED
    BY <1>10, <2>3 DEF RetryHop, StatusTellsOrigin, Answered, Heard
<1>11. CASE ReturnUp
  <2>1. attempt[hop] > 0 /\ hop - 1 \in 1..Hops /\ (hop - 1) + 1 = hop
    BY <1>0, <1>11 DEF ReturnUp, OnlyTriedInOrder
  <2>2. UNCHANGED <<status, origin, attempt>> /\ pc' = "handle" /\ hop' = hop - 1
          /\ pc = "return"
    BY <1>11 DEF ReturnUp
  <2>3. \A h \in 1..Hops : Answered(h) \/ Heard(h) <=> h = hop
    BY <2>2 DEF Answered, Heard
  <2>4. \A h \in 1..Hops : (Answered(h) \/ Heard(h))' <=> h = hop
    BY <1>0, <2>1, <2>2 DEF Answered, Heard
  <2> QED
    BY <1>0, <2>2, <2>3, <2>4 DEF StatusTellsOrigin, Matches
<1>12. CASE Deliver
  BY <1>0, <1>12 DEF Deliver, StatusTellsOrigin, Answered, Heard, Matches
<1>13. CASE UNCHANGED vars
  BY <1>0, <1>13 DEF vars, StatusTellsOrigin, Answered, Heard, Matches
<1> QED
  BY <1>2, <1>3, <1>4, <1>5, <1>6, <1>7, <1>8, <1>9, <1>10, <1>11, <1>12, <1>13
     DEF Next

(* In every state the cause of a failure can be read off its status.        *)
LEMMA FailureHolds == Spec => []FailureInv
<1>1. FailureInv /\ [Next]_vars => FailureInv'
  BY TypedStep, OrderStep, StatusStep DEF FailureInv
<1> QED
  BY <1>1, FailureInitially, PTL DEF Spec

(* However deep the failure behind its status, the caller can tell from it *)
(* whether that failure was a passing one.                                 *)
THEOREM CallerLearns == Spec => []CallerLearnsWhetherTransient
<1>1. FailureInv => CallerLearnsWhetherTransient
  <2> SUFFICES ASSUME FailureInv, pc = "done", status[1] # "ok"
               PROVE  status[1] \in RetryCodes <=> origin \in Transient
    BY DEF CallerLearnsWhetherTransient
  <2>1. Answered(1) /\ 1 \in 1..Hops
    BY ChainAssumption DEF FailureInv, Typed, Answered
  <2>2. Matches(status[1])
    BY <2>1 DEF FailureInv, StatusTellsOrigin
  <2> QED
    BY <2>2 DEF Matches
<1> QED
  BY <1>1, FailureHolds, PTL

(* After a failure that is not transient, however deep, no client along    *)
(* the chain sends another attempt.                                        *)
THEOREM LastingFailuresAreFinal == Spec => PermanentFailureIsFinal
<1>1. ASSUME FailureInv, [Next]_vars, origin \notin Transient \cup {"none"}
      PROVE  UNCHANGED attempt
  <2>1. PICK h \in 1..Hops : (Answered(h) \/ Heard(h)) /\ status[h] # "ok"
    BY <1>1 DEF FailureInv, StatusTellsOrigin
  <2>2. pc # "send"
    BY <2>1 DEF Answered, Heard
  <2>3. ~RetryHop
    <3>1. SUFFICES ASSUME RetryHop PROVE FALSE
      OBVIOUS
    <3>2. Answered(h) /\ h = hop /\ status[h] \in RetryCodes
      BY <2>1, <3>1 DEF RetryHop, MayRetry, Answered, Heard
    <3>3. Matches(status[h])
      BY <2>1, <3>2, <1>1 DEF FailureInv, StatusTellsOrigin
    <3> QED
      BY <3>2, <3>3, <1>1 DEF Matches
  <2> QED
    BY <1>1, <2>2, <2>3
       DEF Next, Send, Lost, Reject, Admit, Descend, Succeed, FailItself, FailWithNext,
           ReturnUp, Deliver, vars
<1>2. FailureInv /\ [Next]_vars
        => [(origin \notin Transient \cup {"none"}) => UNCHANGED attempt]_vars
  BY <1>1
<1> QED
  BY <1>2, FailureHolds, PTL DEF Spec, PermanentFailureIsFinal

-----------------------------------------------------------------------------
(* Credentials.                                                            *)

(* No credential has been shown before the first hop.                       *)
LEMMA CredentialInitially == Init => CredentialInv
BY TypedInitially DEF Init, CredentialInv, Passed

(* Each hop shows, and is admitted on, its own credential.                  *)
LEMMA CredentialStep == CredentialInv /\ [Next]_vars => CredentialInv'
<1> SUFFICES ASSUME CredentialInv, [Next]_vars PROVE CredentialInv'
  OBVIOUS
<1>0. Typed /\ Typed' /\ Passed
  BY TypedStep DEF CredentialInv
<1>1. CASE Send
  <2>1. PICK fresh \in Readings :
           md' = [md EXCEPT ![hop] =
                    Intercept(setting[hop].chain, setting[hop].client, idHeader,
                              fresh, NewRequest)]
    BY <1>1 DEF Send
  <2>2. UNCHANGED <<setting, idHeader, hop, admitted>> /\ pc = "send"
    BY <1>1 DEF Send, fixed
  <2> DEFINE s == setting[hop]
  <2>3. ASSUME s.client.type # "custom", Sendable(s.client),
               "auth" \in {s.chain[i] : i \in 1..Len(s.chain)}
        PROVE  md'[hop][HeaderOf(s.client)] = CredentialOf(s.client)
    <3>1. /\ s.chain \in Seq(Interceptor) /\ s.client \in AuthType
          /\ fresh \in Value /\ idHeader \in Headers /\ hop \in 1..Hops
      BY <1>0, ReadingsAssumption DEF Typed
    <3>2. NewRequest \in Metadata
      BY <1>0, <2>2, NewRequestTyped
    <3>3. PICK j \in 1..Len(s.chain) : s.chain[j] = "auth"
      BY <2>3
    <3>4. md'[hop] = Intercept(s.chain, s.client, idHeader, fresh, NewRequest)
      BY <1>0, <2>1 DEF Typed
    <3> HIDE DEF s
    <3> QED
      BY <2>3, <3>1, <3>2, <3>3, <3>4, CredentialIsSent
  <2>4. Carries(hop)'
    BY <2>2, <2>3 DEF Carries, Sendable, HeaderOf, CredentialOf
  <2>5. Passed'
    BY <1>0, <2>2 DEF Passed
  <2> QED
    BY <1>0, <2>4, <2>5 DEF CredentialInv
<1>2. CASE Admit
  <2>1. /\ UNCHANGED setting /\ pc' # "admit"
        /\ admitted' = admitted \cup {[hop |-> hop, md |-> md[hop]]}
        /\ Validate(setting[hop].server, md[hop]) = "ok"
    BY <1>2 DEF Admit, fixed
  <2>2. hop \in 1..Hops /\ md[hop] \in Metadata
    BY <1>0 DEF Typed
  <2>3. Passed'
    BY <1>0, <2>1, <2>2 DEF Passed
  <2> QED
    BY <1>0, <2>1, <2>3 DEF CredentialInv
<1>3. CASE Lost \/ Reject \/ Descend \/ Succeed \/ FailItself \/ FailWithNext
             \/ RetryHop \/ ReturnUp \/ Deliver
  <2>1. UNCHANGED <<setting, admitted>> /\ pc' # "admit"
    BY <1>3 DEF Lost, Reject, Descend, Succeed, FailItself, FailWithNext, RetryHop,
                ReturnUp, Deliver, fixed
  <2> QED
    BY <1>0, <2>1 DEF CredentialInv, Passed
<1>4. CASE UNCHANGED vars
  <2>1. UNCHANGED <<setting, admitted, md, hop, pc>>
    BY <1>4 DEF vars, fixed
  <2>2. Passed'
    BY <1>0, <2>1 DEF Passed
  <2>3. (pc = "admit" => Carries(hop))'
    BY <2>1 DEF CredentialInv, Carries, Sendable, HeaderOf, CredentialOf
  <2> QED
    BY <1>0, <2>2, <2>3 DEF CredentialInv
<1> QED
  BY <1>1, <1>2, <1>3, <1>4 DEF Next

(* A handler sees only requests with exactly the credential its server     *)
(* asks for, and a client set up with it is let in, whatever the chain of  *)
(* interceptors is and whatever headers they share.                        *)
THEOREM CredentialsAreDecisive == Spec => []CredentialsDecide
<1>1. CredentialInv => CredentialsDecide
  <2> SUFFICES ASSUME CredentialInv PROVE CredentialsDecide
    OBVIOUS
  <2>1. ASSUME NEW a \in admitted, setting[a.hop].server.type # "custom"
        PROVE  /\ a.md[HeaderOf(setting[a.hop].server)]
                     = CredentialOf(setting[a.hop].server)
               /\ Sendable(setting[a.hop].server)
    <3>1. /\ a.md \in Metadata /\ setting[a.hop].server \in AuthType
          /\ Validate(setting[a.hop].server, a.md) = "ok"
      BY DEF CredentialInv, Passed, Typed
    <3> QED
      BY <2>1, <3>1, AcceptsExactly
  <2>2. ASSUME pc = "admit", setting[hop].server.type # "custom",
               setting[hop].client = setting[hop].server,
               Sendable(setting[hop].server),
               "auth" \in {setting[hop].chain[i] : i \in 1..Len(setting[hop].chain)}
        PROVE  Validate(setting[hop].server, md[hop]) = "ok"
    <3>1. md[hop] \in Metadata /\ setting[hop].server \in AuthType
      BY DEF CredentialInv, Typed
    <3>2. md[hop][HeaderOf(setting[hop].server)] = CredentialOf(setting[hop].server)
      BY <2>2 DEF CredentialInv, Carries
    <3> QED
      BY <2>2, <3>1, <3>2, AcceptsExactly
  <2> QED
    BY <2>1, <2>2 DEF CredentialsDecide
<1> QED
  BY <1>1, CredentialInitially, CredentialStep, PTL DEF Spec

-----------------------------------------------------------------------------
(* Request ids.                                                            *)

(* No hop has seen an id before the first one.                              *)
LEMMA IdInitially == Init => IdInv
<1> SUFFICES ASSUME Init PROVE IdInv
  OBVIOUS
<1>1. Typed
  BY TypedInitially
<1>2. IdHandedDown
  BY DEF Init, IdHandedDown, HasId
<1> QED
  BY <1>1, <1>2 DEF Init, IdInv, SeenAreThisAttempts, OwnIdKept

(* The header of no client's credential is the id's.                       *)
LEMMA ElsewhereAuthenticated ==
    ASSUME Typed, idHeader \notin AuthHeaders, NEW h \in 1..Hops,
           setting[h].client.type # "custom"
    PROVE  HeaderOf(setting[h].client) # idHeader
BY DEF AuthHeaders

(* An id once given is the one every later hop sees.                        *)
LEMMA IdStep == IdInv /\ [Next]_vars => IdInv'
<1> SUFFICES ASSUME IdInv, [Next]_vars PROVE IdInv'
  OBVIOUS
<1>f. UNCHANGED <<setting, idHeader>> /\ AuthHeaders' = AuthHeaders
  <2>1. UNCHANGED <<setting, idHeader>>
    BY DEF Next, Send, Lost, Reject, Admit, Descend, Succeed, FailItself, FailWithNext,
           RetryHop, ReturnUp, Deliver, vars, fixed
  <2> QED
    BY <2>1 DEF AuthHeaders, HeaderOf
<1>t. Typed'
  BY TypedStep DEF IdInv
<1> SUFFICES ASSUME idHeader \notin AuthHeaders PROVE IdInv'
  BY <1>f, <1>t DEF IdInv
<1>0. /\ Typed /\ Typed' /\ Hops \in Nat /\ hop \in 1..Hops /\ 1 \in 1..Hops
      /\ idHeader \in Headers
      /\ attempt \in [1..Hops -> Nat] /\ md \in [1..Hops -> Metadata]
  BY TypedStep, ChainAssumption DEF IdInv, Typed
<1>1. SUFFICES ASSUME HeaderKind[idHeader] = "ascii"
               PROVE  (IdHandedDown /\ SeenAreThisAttempts /\ OwnIdKept)'
  <2>1. idHeader' = idHeader
    BY DEF Next, Send, Lost, Reject, Admit, Descend, Succeed, FailItself, FailWithNext,
           RetryHop, ReturnUp, Deliver, vars, fixed
  <2>2. ASSUME HeaderKind[idHeader] # "ascii" PROVE seenIds' = {}
    <3>1. seenIds = {}
      BY <2>2 DEF IdInv
    <3>2. CASE Admit
      BY <2>1, <2>2, <3>1, <3>2 DEF Admit, extract_request_id, Get
    <3>3. CASE ~Admit
      BY <3>1, <3>3
         DEF Next, Send, Lost, Reject, Descend, Succeed, FailItself, FailWithNext,
             RetryHop, ReturnUp, Deliver, vars
    <3> QED
      BY <3>2, <3>3
  <2> QED
    BY <1>0, <2>1, <2>2 DEF IdInv
<1>2. IdHandedDown /\ SeenAreThisAttempts /\ OwnIdKept
  BY <1>1 DEF IdInv
<1>3. CASE Send
  <2>1. PICK fresh \in Readings :
           md' = [md EXCEPT ![hop] =
                    Intercept(setting[hop].chain, setting[hop].client, idHeader,
                              fresh, NewRequest)]
    BY <1>3 DEF Send
  <2>2. /\ UNCHANGED <<idHeader, ownId, hop, seenIds>>
        /\ pc = "send" /\ pc' = "admit"
        /\ attempt' = [attempt EXCEPT ![hop] = @ + 1]
    BY <1>3 DEF Send, fixed
  <2>3. /\ setting[hop].chain \in Seq(Interceptor) /\ setting[hop].client \in AuthType
        /\ fresh \in Value /\ NewRequest \in Metadata
    BY <1>0, <2>2, NewRequestTyped, ReadingsAssumption DEF Typed
  <2>4. ASSUME Inherited # Absent, Printable(Inherited)
        PROVE  md'[hop][idHeader] = Inherited
    <3>1. NewRequest[idHeader] = Inherited
      BY <1>0, <2>4 DEF NewRequest, NoMetadata
    <3>2. setting[hop].client.type # "custom" => HeaderOf(setting[hop].client) # idHeader
      BY <1>0, ElsewhereAuthenticated
    <3>3. Intercept(setting[hop].chain, setting[hop].client, idHeader, fresh,
                    NewRequest)[idHeader] = NewRequest[idHeader]
      BY <1>0, <1>1, <2>3, <2>4, <3>1, <3>2, IdSurvives
    <3> QED
      BY <1>0, <2>1, <3>1, <3>3
  <2>5. CASE hop = 1
    <3>1. IdHandedDown'
      BY <2>2, <2>5 DEF IdHandedDown, HasId
    <3>2. attempt'[1] = attempt[1] + 1 /\ attempt[1] \in Nat
      BY <1>0, <2>2, <2>5
    <3>3. SeenAreThisAttempts'
      BY <1>2, <2>2, <2>5, <3>2 DEF SeenAreThisAttempts
    <3>4. OwnIdUsable => Id(1)' = ownId
      BY <2>2, <2>4, <2>5 DEF Inherited, OwnIdUsable, Id
    <3>5. OwnIdKept'
      BY <1>2, <2>2, <3>4 DEF OwnIdKept, OwnIdUsable
    <3> QED
      BY <3>1, <3>3, <3>5
  <2>6. CASE hop # 1
    <3>1. hop > 1 /\ hop - 1 \in 1..Hops
      BY <1>0, <2>6
    <3>2. Id(hop - 1) = Id(1) /\ Id(hop - 1) # Absent /\ Printable(Id(hop - 1))
      BY <1>0, <1>2, <3>1 DEF IdHandedDown, HasId
    <3>3. Inherited = Id(1) /\ Inherited # Absent /\ Printable(Inherited)
      BY <1>1, <2>6, <3>2 DEF Inherited, extract_request_id, Get, Id
    <3>4. md'[hop][idHeader] = Id(1) /\ \A h \in 1..Hops : h # hop => md'[h] = md[h]
      BY <1>0, <2>1, <2>4, <3>3
    <3>5. Id(1)' = Id(1) /\ attempt'[1] = attempt[1]
      BY <1>0, <2>2, <2>6, <3>4 DEF Id
    <3>6. IdHandedDown'
      <4> SUFFICES ASSUME NEW h \in 1..Hops, HasId(h)'
                   PROVE  Id(h)' = Id(1) /\ Id(h)' # Absent /\ Printable(Id(h)')
        BY <3>5 DEF IdHandedDown, Printable
      <4>1. CASE h = hop
        BY <2>2, <3>3, <3>4, <4>1 DEF Id
      <4>2. CASE h # hop
        <5>1. HasId(h) /\ Id(h)' = Id(h)
          BY <2>2, <3>4, <4>2 DEF HasId, Id
        <5> QED
          BY <1>2, <5>1 DEF IdHandedDown
      <4> QED
        BY <4>1, <4>2
    <3>7. SeenAreThisAttempts'
      BY <1>2, <2>2, <2>6, <3>5 DEF SeenAreThisAttempts
    <3>8. OwnIdKept'
      BY <1>2, <2>2, <2>6, <3>5 DEF OwnIdKept, OwnIdUsable
    <3> QED
      BY <3>6, <3>7, <3>8
  <2> QED
    BY <2>5, <2>6
<1>4. CASE Admit
  <2>1. PICK fresh \in Readings :
           md' = [md EXCEPT ![hop] = EnsureRequestId(md[hop], idHeader, fresh)]
    BY <1>4 DEF Admit
  <2>2. /\ UNCHANGED <<idHeader, ownId, hop, attempt>>
        /\ pc = "admit" /\ pc' = "handle"
    BY <1>4 DEF Admit, fixed
  <2>3. /\ fresh \in Value /\ fresh # Absent /\ Printable(fresh)
        /\ md[hop] \in Metadata
    BY <1>0, ReadingsAssumption
  <2>4. /\ md'[hop][idHeader] # Absent /\ Printable(md'[hop][idHeader])
        /\ Id(hop) # Absent /\ Printable(Id(hop)) => md'[hop][idHeader] = Id(hop)
        /\ \A h \in 1..Hops : h # hop => md'[h] = md[h]
    BY <1>0, <1>1, <2>1, <2>3, ReadableIsParsable
       DEF EnsureRequestId, extract_request_id, Get, Attach, Metadata, Id
  <2>5. hop > 1 => /\ Id(hop) = Id(1) /\ Id(hop) # Absent /\ Printable(Id(hop))
                   /\ Id(1)' = Id(1)
    BY <1>0, <1>2, <2>2, <2>4 DEF IdHandedDown, HasId, Id
  <2>6. md'[hop][idHeader] = Id(1)'
    BY <1>0, <2>2, <2>4, <2>5 DEF Id
  <2>7. seenIds' = seenIds \cup {<<attempt[1], Id(1)'>>}
    <3>1. extract_request_id(md'[hop], idHeader) = Id(1)' /\ Id(1)' # Absent
      BY <1>1, <2>4, <2>6 DEF extract_request_id, Get
    <3> QED
      BY <1>4, <2>2, <3>1 DEF Admit
  <2>8. IdHandedDown'
    <3> SUFFICES ASSUME NEW h \in 1..Hops, HasId(h)'
                 PROVE  Id(h)' = Id(1)' /\ Id(h)' # Absent /\ Printable(Id(h)')
      BY DEF IdHandedDown, Printable
    <3>1. CASE h = hop
      BY <2>2, <2>4, <2>6, <3>1 DEF Id
    <3>2. CASE h # hop
      <4>1. HasId(h) /\ Id(h)' = Id(h) /\ hop > 1
        BY <1>0, <2>2, <2>4, <3>2 DEF HasId, Id
      <4> QED
        BY <1>2, <2>5, <4>1 DEF IdHandedDown
    <3> QED
      BY <3>1, <3>2
  <2>9. hop = 1 => \A p \in seenIds : p[1] < attempt[1]
    BY <1>2, <2>2 DEF SeenAreThisAttempts
  <2>10. \A p \in seenIds : /\ p[1] \in Nat /\ p[1] <= attempt[1]
                            /\ p[1] = attempt[1] => p[2] = Id(1)'
    <3>1. attempt[1] \in Nat
      BY <1>0
    <3> QED
      BY <1>0, <1>2, <2>5, <2>9, <3>1 DEF SeenAreThisAttempts
  <2>11. SeenAreThisAttempts'
    <3>1. \A p \in seenIds' : /\ p[1] \in Nat /\ p[1] <= attempt[1]
                              /\ p[1] = attempt[1] => p[2] = Id(1)'
      BY <1>0, <2>7, <2>10
    <3>2. ASSUME NEW p \in seenIds', NEW q \in seenIds', p[1] = q[1]
          PROVE  p[2] = q[2]
      <4>1. CASE p \in seenIds /\ q \in seenIds
        BY <1>2, <3>2, <4>1 DEF SeenAreThisAttempts
      <4>2. CASE p \notin seenIds \/ q \notin seenIds
        <5>1. p[1] = attempt[1] /\ q[1] = attempt[1]
          BY <2>7, <3>2, <4>2
        <5> QED
          BY <3>1, <5>1
      <4> QED
        BY <4>1, <4>2
    <3> QED
      BY <2>2, <3>1, <3>2 DEF SeenAreThisAttempts
  <2>12. OwnIdKept'
    <3>1. OwnIdUsable => Id(1) = ownId
      BY <1>2, <2>2 DEF OwnIdKept
    <3>2. OwnIdUsable => Id(1)' = ownId
      BY <1>0, <2>4, <2>5, <2>6, <3>1 DEF OwnIdUsable
    <3> QED
      BY <1>2, <2>2, <2>7, <3>2 DEF OwnIdKept, OwnIdUsable
  <2> QED
    BY <2>8, <2>11, <2>12
<1>5. CASE Lost \/ Reject \/ Descend \/ Succeed \/ FailItself \/ FailWithNext
             \/ ReturnUp \/ Deliver \/ UNCHANGED vars
  <2>1. UNCHANGED <<idHeader, ownId, md, seenIds, attempt>>
    BY <1>5 DEF Lost, Reject, Descend, Succeed, FailItself, FailWithNext, ReturnUp,
                Deliver, vars, fixed
  <2>2. \A h \in 1..Hops : HasId(h)' => HasId(h)
    BY <1>0, <1>5 DEF Lost, Reject, Descend, Succeed, FailItself, FailWithNext, ReturnUp,
                Deliver, vars, fixed, HasId
  <2>3. /\ (pc = "admit" /\ hop = 1)' => pc = "admit" /\ hop = 1
        /\ (pc = "send" /\ hop = 1) => (pc = "send" /\ hop = 1)'
    BY <1>0, <1>5 DEF Lost, Reject, Descend, Succeed, FailItself, FailWithNext, ReturnUp,
                Deliver, vars, fixed
  <2>4. \A h : Id(h)' = Id(h)
    BY <2>1 DEF Id
  <2>5. IdHandedDown'
    BY <1>2, <2>2, <2>4 DEF IdHandedDown, Printable
  <2>6. SeenAreThisAttempts'
    BY <1>2, <2>1, <2>3, <2>4 DEF SeenAreThisAttempts
  <2>7. OwnIdKept'
    BY <1>2, <2>1, <2>3, <2>4 DEF OwnIdKept, OwnIdUsable
  <2> QED
    BY <2>5, <2>6, <2>7
<1>6. CASE RetryHop
  <2>1. UNCHANGED <<idHeader, ownId, md, seenIds, hop>> /\ pc = "return" /\ pc' = "send"
          /\ attempt'[1] = attempt[1]
    BY <1>0, <1>6 DEF RetryHop, fixed
  <2>2. \A h : Id(h)' = Id(h)
    BY <2>1 DEF Id
  <2>3. IdHandedDown'
    BY <1>2, <2>1, <2>2 DEF IdHandedDown, HasId, Printable
  <2>4. SeenAreThisAttempts'
    BY <1>2, <2>1, <2>2 DEF SeenAreThisAttempts
  <2>5. OwnIdKept'
    BY <1>2, <2>1, <2>2 DEF OwnIdKept, OwnIdUsable
  <2> QED
    BY <2>3, <2>4, <2>5
<1> QED
  BY <1>3, <1>4, <1>5, <1>6 DEF Next

(* All handlers that work for one attempt of the caller see the same       *)
(* request id, and on every attempt it is the caller's own if it can be    *)
(* read, unless a credential uses the header.                              *)
THEOREM OneIdForAll == Spec => []OneIdPerCall
<1>1. IdInv => OneIdPerCall
  <2> SUFFICES ASSUME IdInv, idHeader \notin AuthHeaders
               PROVE  /\ \A p, q \in seenIds : p[1] = q[1] => p[2] = q[2]
                      /\ ownId # Absent /\ Printable(ownId)
                           => \A p \in seenIds : p[2] = ownId
    BY DEF OneIdPerCall
  <2> QED
    BY DEF IdInv, SeenAreThisAttempts, OwnIdKept, OwnIdUsable
<1> QED
  BY <1>1, IdInitially, IdStep, PTL DEF Spec

=============================================================================
