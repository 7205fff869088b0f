---------------------------- MODULE Interceptors ----------------------------
(***************************************************************************)
(* The interceptors of src/interceptor.rs as functions on request          *)
(* metadata: one value or Absent per header name (`insert` replaces every  *)
(* value of a name, `get` returns the first).                              *)
(*                                                                         *)
(* A text is a sequence of bytes; a value is a text with or without the    *)
(* prefix "Bearer ".                                                       *)
(***************************************************************************)
EXTENDS Naturals, Sequences

CONSTANTS
    Byte,           \* the bytes texts are made of
    Headers,        \* header names, "authorization" among them
    HeaderKind,     \* "ascii", "binary" (name ends in -bin) or "invalid"
    Unprintable,    \* the texts that are not visible ASCII
    Unparsable      \* those that are no header value either

ASSUME HeaderAssumption ==
    /\ "authorization" \in Headers /\ HeaderKind["authorization"] = "ascii"
    /\ HeaderKind \in [Headers -> {"ascii", "binary", "invalid"}]
    /\ Unparsable \subseteq Unprintable

Value == [prefix : {"absent", "none", "Bearer"}, text : Seq(Byte)]
Metadata == [Headers -> Value]

Absent == [prefix |-> "absent", text |-> << >>]
Plain(t) == [prefix |-> "none", text |-> t]
WithBearer(t) == [prefix |-> "Bearer", text |-> t]

NoMetadata == [h \in Headers |-> Absent]

Printable(v) == v.text \notin Unprintable
Parsable(v) == v.text \notin Unparsable

(* metadata.get(name) followed by to_str(): a name that is no valid ASCII  *)
(* key finds nothing, a value that is not visible ASCII reads as none.     *)
Get(md, h) ==
    IF HeaderKind[h] = "ascii" /\ Printable(md[h]) THEN md[h] ELSE Absent

(* Parse the name and the value and insert them, or attach nothing.  Text  *)
(* beyond ASCII parses, and is inserted although nobody can read it back.  *)
Attach(md, h, v) ==
    IF HeaderKind[h] = "ascii" /\ Parsable(v) THEN [md EXCEPT ![h] = v] ELSE md

-----------------------------------------------------------------------------
(* AuthType; the validator of a custom one is the user's, and its verdict  *)
(* any status.                                                             *)
StatusCodes ==
    {"ok", "Cancelled", "Unknown", "InvalidArgument", "DeadlineExceeded", "NotFound",
     "AlreadyExists", "PermissionDenied", "ResourceExhausted", "FailedPrecondition",
     "Aborted", "OutOfRange", "Unimplemented", "Internal", "Unavailable", "DataLoss",
     "Unauthenticated"}

AuthType ==
    [type : {"bearer"}, text : Seq(Byte)]
        \cup [type : {"api_key"}, header : Headers, text : Seq(Byte)]
        \cup [type : {"custom"}, verdict : StatusCodes]

AddAuth(auth, md) ==
    CASE auth.type = "bearer"  -> Attach(md, "authorization", WithBearer(auth.text))
      [] auth.type = "api_key" -> Attach(md, auth.header, Plain(auth.text))
      [] auth.type = "custom"  -> md

(* zip() stops at the end of the shorter of the two.                       *)
constant_time_eqOfPrefix(a, b) ==
    \A i \in 1..Len(a) : i <= Len(b) => a[i] = b[i]
constant_time_eq(a, b) ==
    Len(a) = Len(b) /\ \A i \in 1..Len(a) : i <= Len(b) => a[i] = b[i]

(* The status AuthInterceptor::validate gives.                             *)
Validate(auth, md) ==
    CASE auth.type = "bearer" ->
            LET v == Get(md, "authorization")
            IN  IF v.prefix = "Bearer" /\ constant_time_eq(v.text, auth.text)
                THEN "ok" ELSE "Unauthenticated"
      [] auth.type = "api_key" ->
            LET v == Get(md, auth.header)
            IN  IF v.prefix = "none" /\ constant_time_eq(v.text, auth.text)
                THEN "ok" ELSE "Unauthenticated"
      [] auth.type = "custom" -> auth.verdict

-----------------------------------------------------------------------------
extract_request_id(md, h) == Get(md, h)

(* RequestIdInterceptor::intercept; fresh is the generated id, the time in *)
(* hexadecimal.                                                            *)
EnsureRequestIdAnew(md, h, fresh) == Attach(md, h, fresh)
EnsureRequestId(md, h, fresh) ==
    LET found == extract_request_id(md, h)
    IN  Attach(md, h, IF found = Absent THEN fresh ELSE found)

(* What a client does to a request before it is sent: the interceptors it  *)
(* calls, in the order it calls them.  The logging and metrics             *)
(* interceptors hand the request on unchanged.                             *)
Interceptor == {"auth", "request_id", "passive"}
Call(i, auth, h, fresh, md) ==
    CASE i = "auth"       -> AddAuth(auth, md)
      [] i = "request_id" -> EnsureRequestId(md, h, fresh)
      [] i = "passive"    -> md

Intercept(chain, auth, h, fresh, md) ==
    LET after[k \in 0..Len(chain)] ==
            IF k = 0 THEN md ELSE Call(chain[k], auth, h, fresh, after[k - 1])
    IN  after[Len(chain)]

=============================================================================
