------------------------ MODULE RetryUnderLoadProofs ------------------------
(***************************************************************************)
(* Proofs about load shedding (LoadShedding), retries (Retry), and the two *)
(* together (RetryUnderLoad), for every number of clients and attempts,    *)
(* every limit and every way attempts can fail.                            *)
(***************************************************************************)
EXTENDS RetryUnderLoad, FiniteSetTheorems, TLAPS

-----------------------------------------------------------------------------
(* Load shedding on its own.                                               *)
ShedStates == {"new", "held", "busy", "ready", "shed", "body", "done", "dropped"}

(* While shedding is on, a permit is free or owned by one request.         *)
ShedInv ==
    /\ enabled \in BOOLEAN /\ permits \in Nat
    /\ state \in [Requests -> ShedStates]
    /\ enabled => permits + Cardinality(Holders) = Limit

(* The permits out can be counted.                                          *)
LEMMA HoldersAreFinite ==
    IsFiniteSet(Holders) /\ Cardinality(Holders) \in Nat
<1>1. Holders \in SUBSET Requests
  BY DEF Holders, In
<1> QED
  BY <1>1, FS_Subset, FS_CardinalityType, SheddingAssumption

(* At least one request is let in.                                          *)
LEMMA LimitIsPositive == Limit \in Nat \ {0}
BY SheddingAssumption DEF Limit

(* All permits are there initially.                                         *)
LEMMA ShedInit == Init => ShedInv
<1> SUFFICES ASSUME Init PROVE ShedInv
  OBVIOUS
<1>1. Holders = {}
  BY DEF Init, Holders, In
<1> QED
  BY <1>1, LimitIsPositive, FS_EmptySet DEF Init, ShedInv, ShedStates

(* The three things a step can do to the permits: leave them alone, take   *)
(* one for a request that comes to own it, give one back.                  *)
LEMMA NoPermitMoves ==
    ASSUME ShedInv, NEW r \in Requests, NEW s \in ShedStates, Move(r, s),
           UNCHANGED <<enabled, permits>>,
           enabled => (r \in Holders <=> s \in {"held", "busy", "ready"})
    PROVE  ShedInv'
<1> USE DEF ShedInv, Move
<1>1. enabled => Holders' = Holders
  BY DEF Holders, In
<1> QED
  BY <1>1

(* An admission takes a permit.                                             *)
LEMMA PermitTaken ==
    ASSUME ShedInv, NEW r \in Requests, Admit(r)
    PROVE  ShedInv'
<1> USE DEF ShedInv, Admit, Move
<1>1. Holders' = Holders \cup {r} /\ r \notin Holders
  BY DEF Holders, In
<1>2. Cardinality(Holders') = Cardinality(Holders) + 1
  BY <1>1, HoldersAreFinite, FS_AddElement
<1> QED
  BY <1>2, HoldersAreFinite, LimitIsPositive DEF ShedStates

(* A request that leaves gives its permit back.                             *)
LEMMA PermitFreed ==
    ASSUME ShedInv, NEW r \in Requests, NEW s \in ShedStates, Move(r, s), Free,
           UNCHANGED enabled, r \in Holders, s \notin {"held", "busy", "ready"}
    PROVE  ShedInv'
<1> USE DEF ShedInv, Move
<1>1. Holders' = Holders \ {r}
  BY DEF Holders, In
<1>2. Cardinality(Holders') = Cardinality(Holders) - 1
  BY <1>1, HoldersAreFinite, FS_RemoveElement
<1> QED
  BY <1>2, HoldersAreFinite, LimitIsPositive DEF Free

(* Every step of the server keeps permits and holders in balance.           *)
LEMMA ShedStep == ShedInv /\ [Next]_vars => ShedInv'
<1> SUFFICES ASSUME ShedInv, [Next]_vars PROVE ShedInv'
  OBVIOUS
<1> USE DEF ShedStates
<1>1. ASSUME NEW r \in Requests, Pass(r)
      PROVE  ShedInv'
  BY <1>1, NoPermitMoves DEF Pass
<1>2. ASSUME NEW r \in Requests, Admit(r)
      PROVE  ShedInv'
  BY <1>2, PermitTaken
<1>3. ASSUME NEW r \in Requests, Shed(r)
      PROVE  ShedInv'
  BY <1>3, NoPermitMoves DEF Shed, Holders, In
<1>4. ASSUME NEW r \in Requests, Start(r)
      PROVE  ShedInv'
  BY <1>4, NoPermitMoves DEF Start, Holders, In
<1>5. ASSUME NEW r \in Requests, HandlerFinishes(r)
      PROVE  ShedInv'
  BY <1>5, NoPermitMoves DEF HandlerFinishes, Holders, In
<1>6. ASSUME NEW r \in Requests, Respond(r)
      PROVE  ShedInv'
  BY <1>6, PermitFreed DEF Respond, Holders, In
<1>7. ASSUME NEW r \in Requests, Close(r)
      PROVE  ShedInv'
  BY <1>7, NoPermitMoves DEF Close, Holders, In
<1>8. ASSUME NEW r \in Requests, Drop(r)
      PROVE  ShedInv'
  <2>1. CASE r \in Holders /\ Free
    BY <1>8, <2>1, PermitFreed DEF Drop
  <2>2. CASE state[r] \in {"shed", "body"} /\ UNCHANGED permits
    BY <1>8, <2>2, NoPermitMoves DEF Drop, Holders, In
  <2> QED
    BY <1>8, <2>1, <2>2 DEF Drop
<1>9. CASE UNCHANGED vars
  BY <1>9 DEF vars, ShedInv, Holders, In
<1> QED
  BY <1>1, <1>2, <1>3, <1>4, <1>5, <1>6, <1>7, <1>8, <1>9 DEF Next, Call, Task

(* Permits and holders balance in every state.                              *)
LEMMA ShedInvariance == Spec => []ShedInv
BY ShedInit, ShedStep, PTL DEF Spec

(* A request is refused only when every permit is owned by another one:    *)
(* none was lost with a future that was dropped.                           *)
THEOREM ShedsOnlyWhenFull == Spec => ShedOnlyWhenFull
<1> DEFINE A == \A r \in Requests :
                  state[r] # "shed" /\ state'[r] = "shed" =>
                      enabled /\ Cardinality(Holders) = Limit
<1>1. ASSUME ShedInv, Next PROVE A
  <2> SUFFICES ASSUME NEW q \in Requests, state[q] # "shed", state'[q] = "shed"
               PROVE  enabled /\ Cardinality(Holders) = Limit
    OBVIOUS
  <2>1. PICK r \in Requests : Call(r) \/ Task(r) \/ Close(r) \/ Drop(r)
    BY <1>1 DEF Next
  <2>2. state \in [Requests -> ShedStates]
    BY <1>1 DEF ShedInv
  <2>3. Shed(r)
    BY <2>1, <2>2 DEF Call, Task, Pass, Admit, Start, HandlerFinishes, Respond, Close,
                      Drop, Move
  <2> QED
    BY <1>1, <2>3, HoldersAreFinite, LimitIsPositive DEF Shed, ShedInv
<1>2. ShedInv /\ [Next]_vars => [A]_vars
  BY <1>1
<1> QED
  BY <1>2, ShedInvariance, PTL DEF Spec, ShedOnlyWhenFull

-----------------------------------------------------------------------------
(* The abstract limiter counts as this module does.                        *)
LEMMA SameCount == \A S : Abstract!Cardinality(S) = Cardinality(S)
BY DEF Abstract!Cardinality, Cardinality

(* While shedding is on, every step is one of the abstract limiter's or    *)
(* leaves the phases alone: at most Limit handlers run at once.            *)
THEOREM SheddingRefinesAdmissionControl == Spec => ImplementsAdmissionControl
<1>1. Init => Abstract!Init
  BY LimitIsPositive DEF Init, Abstract!Init, Phase
<1>2. ASSUME ShedInv, Next, enabled PROVE Abstract!Next \/ UNCHANGED Phase
  <2>0. state \in [Requests -> ShedStates]
    BY <1>2 DEF ShedInv
  <2> USE DEF Move, ShedStates
  <2>1. ASSUME NEW r \in Requests, Admit(r) \/ HandlerFinishes(r) \/ Close(r)
        PROVE  UNCHANGED Phase
    BY <2>0, <2>1 DEF Admit, HandlerFinishes, Close, Phase
  <2>2. ASSUME NEW r \in Requests, Shed(r)
        PROVE  Abstract!TurnAway(r)
    BY <2>0, <2>2 DEF Shed, Phase, Abstract!TurnAway
  <2>3. ASSUME NEW r \in Requests, Start(r)
        PROVE  Abstract!Enter(r)
    <3>1. Phase[r] = "outside" /\ Phase' = [Phase EXCEPT ![r] = "inside"]
      BY <2>0, <2>3 DEF Start, Phase
    <3>2. Abstract!Inside \in SUBSET (Holders \ {r}) /\ r \in Holders
      BY <2>3 DEF Start, Abstract!Inside, Phase, Holders, In
    <3>3. IsFiniteSet(Holders \ {r}) /\ Cardinality(Holders \ {r}) = Cardinality(Holders) - 1
      BY <3>2, HoldersAreFinite, FS_RemoveElement
    <3>4. IsFiniteSet(Abstract!Inside) /\ Cardinality(Abstract!Inside) <= Cardinality(Holders \ {r})
      BY <3>2, <3>3, FS_Subset
    <3>5. Cardinality(Abstract!Inside) < Limit
      <4>1. Cardinality(Abstract!Inside) \in Nat
        BY <3>4, FS_CardinalityType
      <4>2. permits \in Nat /\ permits + Cardinality(Holders) = Limit
        BY <1>2 DEF ShedInv
      <4> QED
        BY <3>3, <3>4, <4>1, <4>2, HoldersAreFinite, LimitIsPositive
    <3> QED
      BY <3>1, <3>5, SameCount DEF Abstract!Enter
  <2>4. ASSUME NEW r \in Requests, Respond(r)
        PROVE  Abstract!Leave(r)
    BY <2>0, <2>4 DEF Respond, Phase, Abstract!Leave
  <2>5. ASSUME NEW r \in Requests, Drop(r)
        PROVE  Abstract!TurnAway(r) \/ Abstract!Leave(r) \/ UNCHANGED Phase
    <3>1. Phase' = [Phase EXCEPT ![r] = "left"]
      BY <2>0, <2>5 DEF Drop, Phase
    <3>2. Phase[r] \in {"outside", "inside", "left"} /\ (Phase[r] = "left" => Phase' = Phase)
      BY <2>0, <3>1 DEF Phase
    <3> QED
      BY <3>1, <3>2 DEF Abstract!TurnAway, Abstract!Leave
  <2>6. ASSUME NEW r \in Requests, Pass(r)
        PROVE  FALSE
    BY <1>2, <2>6 DEF Pass
  <2> QED
    BY <1>2, <2>1, <2>2, <2>3, <2>4, <2>5, <2>6 DEF Next, Call, Task, Abstract!Next
<1>3. ShedInv /\ [Next]_vars => [enabled => Abstract!Next]_Phase
  BY <1>2 DEF vars, Phase
<1> QED
  BY <1>1, <1>3, ShedInvariance, PTL DEF Spec, ImplementsAdmissionControl

-----------------------------------------------------------------------------
(* The retry loop on its own.  Beyond the attempt under way nothing has    *)
(* been seen yet, and a call has returned only where the loop may stop.    *)
AttemptsInOrder(c) ==
    /\ client[c] = "idle" => attempt[c] = 0
    /\ client[c] # "idle" => attempt[c] \in 1..max_attempts
    /\ ~retry_enabled => attempt[c] <= 1
    /\ \A i \in 1..MaxAttempts : i < attempt[c] => seen[c][i] \in RetryCodes
    /\ client[c] = "returned" => ~Again(c, seen[c][attempt[c]])

RetryInv ==
    /\ RetryTypeOK
    /\ \A c \in Clients : AttemptsInOrder(c)

(* However few attempts are configured, at least one is made, and never    *)
(* more than the model's bound.                                            *)
LEMMA AttemptsWithinBound ==
    ASSUME max_retry_attempts \in 0..MaxAttempts
    PROVE  max_attempts \in 1..MaxAttempts
BY RetryAssumption DEF max_attempts

(* No client has made an attempt initially.                                 *)
LEMMA RetryInitially == RetryInit => RetryInv
BY AttemptsWithinBound, RetryAssumption
   DEF RetryInit, RetryInv, RetryTypeOK, AttemptsInOrder

(* Every step of a client keeps its account of attempts.                    *)
LEMMA RetryStep == RetryInv /\ [RetryNext]_retryVars => RetryInv'
<1> SUFFICES ASSUME RetryInv, [RetryNext]_retryVars PROVE RetryInv'
  OBVIOUS
<1> USE RetryAssumption DEF RetryInv
<1>0. max_attempts \in 1..MaxAttempts
  BY AttemptsWithinBound DEF RetryTypeOK
<1>1. CASE UNCHANGED retryVars
  BY <1>1 DEF retryVars, config, RetryTypeOK, AttemptsInOrder, Again, max_attempts
<1>2. ASSUME NEW c \in Clients, CallWithRetry(c)
      PROVE  RetryInv'
  <2>1. max_attempts' = max_attempts
    BY <1>2 DEF CallWithRetry, config, max_attempts
  <2>2. RetryTypeOK'
    BY <1>2 DEF CallWithRetry, config, RetryTypeOK
  <2>3. \A d \in Clients : AttemptsInOrder(d)'
    BY <1>0, <1>2, <2>1 DEF CallWithRetry, config, RetryTypeOK, AttemptsInOrder, Again
  <2> QED
    BY <2>2, <2>3
<1>3. ASSUME NEW c \in Clients, Abandon(c)
      PROVE  RetryInv'
  <2>1. max_attempts' = max_attempts
    BY <1>3 DEF Abandon, config, max_attempts
  <2>2. RetryTypeOK'
    BY <1>3 DEF Abandon, config, RetryTypeOK
  <2>3. \A d \in Clients : AttemptsInOrder(d)'
    BY <1>0, <1>3, <2>1 DEF Abandon, config, RetryTypeOK, AttemptsInOrder, Again
  <2> QED
    BY <2>2, <2>3
<1>4. ASSUME NEW c \in Clients, NEW o \in Outcomes, Conclude(c, o)
      PROVE  RetryInv'
  <2>1. max_attempts' = max_attempts /\ UNCHANGED config
    BY <1>4 DEF Conclude, config, max_attempts
  <2>2. /\ client[c] = "calling" /\ attempt[c] \in 1..max_attempts
        /\ seen' = [seen EXCEPT ![c][attempt[c]] = o]
        /\ seen' \in [Clients -> [1..MaxAttempts -> Outcomes \cup {"none"}]]
    BY <1>0, <1>4 DEF Conclude, RetryTypeOK, AttemptsInOrder
  <2>3. /\ \A d \in Clients \ {c} : seen'[d] = seen[d]
        /\ \A i \in 1..MaxAttempts : seen'[c][i] = IF i = attempt[c] THEN o ELSE seen[c][i]
    BY <1>0, <2>2 DEF RetryTypeOK
  <2>4. ASSUME NEW d \in Clients \ {c}
        PROVE  AttemptsInOrder(d)'
    BY <1>4, <2>1, <2>3 DEF Conclude, config, RetryTypeOK, AttemptsInOrder, Again
  <2>5. CASE Again(c, o) /\ attempt' = [attempt EXCEPT ![c] = @ + 1] /\ UNCHANGED client
    <3>1. RetryTypeOK'
      BY <1>0, <2>1, <2>2, <2>5 DEF RetryTypeOK, Again, config
    <3>2. AttemptsInOrder(c)'
      <4>1. client'[c] = "calling" /\ attempt'[c] = attempt[c] + 1 /\ o \in RetryCodes
        BY <2>2, <2>5 DEF RetryTypeOK, Again, should_retry
      <4>2. attempt'[c] \in 1..max_attempts' /\ retry_enabled'
        BY <1>0, <2>1, <2>2, <2>5, <4>1 DEF Again, config
      <4>3. \A i \in 1..MaxAttempts : i < attempt'[c] => seen'[c][i] \in RetryCodes
        BY <2>2, <2>3, <4>1, <1>0 DEF AttemptsInOrder
      <4> QED
        BY <4>1, <4>2, <4>3 DEF AttemptsInOrder
    <3> QED
      BY <2>4, <3>1, <3>2
  <2>6. CASE ~Again(c, o) /\ client' = [client EXCEPT ![c] = "returned"] /\ UNCHANGED attempt
    <3>1. RetryTypeOK'
      BY <2>1, <2>2, <2>6 DEF RetryTypeOK, config
    <3>2. AttemptsInOrder(c)'
      <4>1. client'[c] = "returned" /\ attempt'[c] = attempt[c] /\ seen'[c][attempt[c]] = o
        BY <1>0, <2>2, <2>3, <2>6 DEF RetryTypeOK
      <4>2. ~Again(c, seen[c][attempt[c]])'
        BY <2>1, <2>6, <4>1 DEF Again, config
      <4> QED
        BY <1>0, <2>1, <2>2, <2>3, <4>1, <4>2 DEF AttemptsInOrder, config
    <3> QED
      BY <2>4, <3>1, <3>2
  <2> QED
    BY <1>4, <2>5, <2>6 DEF Conclude
<1> QED
  BY <1>1, <1>2, <1>3, <1>4 DEF RetryNext

(* Each client's account of its attempts holds in every state.              *)
LEMMA RetryInvariance == RetrySpec => []RetryInv
BY RetryInitially, RetryStep, PTL DEF RetrySpec

(* The account is all the retry property asks for.                          *)
LEMMA RetryInvSuffices == RetryInv => RetriesExactlyWhenAllowed
<1> SUFFICES ASSUME RetryInv, NEW c \in Clients
             PROVE  /\ attempt[c] <= IF retry_enabled THEN max_attempts ELSE 1
                    /\ client[c] = "returned" /\ retry_enabled
                          /\ seen[c][attempt[c]] \in RetryCodes => attempt[c] = max_attempts
  BY DEF RetriesExactlyWhenAllowed, RetryInv, AttemptsInOrder
<1>1. max_attempts \in 1..MaxAttempts /\ AttemptsInOrder(c) /\ attempt[c] \in Nat
  BY AttemptsWithinBound, RetryAssumption DEF RetryInv, RetryTypeOK
<1> QED
  BY <1>1 DEF AttemptsInOrder, Again, should_retry, RetryInv, RetryTypeOK

(* The loop of any number of callers goes on exactly as long as it may.    *)
THEOREM RetriesWhenAllowed == RetrySpec => []RetriesExactlyWhenAllowed
BY RetryInvariance, RetryInvSuffices, PTL

-----------------------------------------------------------------------------
(* The two together.  An attempt that has been answered has an outcome.    *)
SysInv == result \in [Requests -> Outcomes \cup {"none"}]

(* Every step of the whole is a step or a stutter of the load shedder, and *)
(* of the retry loop.                                                      *)
LEMMA StepsOfTheParts ==
    ASSUME RetryInv, SysInv, [SysNext]_sysVars
    PROVE  [Next]_vars /\ [RetryNext]_retryVars
<1> USE LoadAssumption DEF server
<1>1. ASSUME NEW c \in Clients, Begin(c) \/ GiveUp(c)
      PROVE  RetryNext /\ UNCHANGED vars
  BY <1>1 DEF Begin, GiveUp, RetryNext
<1>2. ASSUME NEW c \in Clients, Fail(c)
      PROVE  RetryNext /\ UNCHANGED vars
  BY <1>2 DEF Fail, RetryNext, Outcomes
<1>3. ASSUME NEW c \in Clients, Receive(c)
      PROVE  RetryNext /\ UNCHANGED vars
  <2>1. attempt[c] \in 1..MaxAttempts
    BY <1>3, RetryAssumption DEF Receive, RetryInv, RetryTypeOK
  <2>2. result[<<c, attempt[c]>>] \in Outcomes
    BY <1>3, <2>1 DEF Receive, SysInv
  <2> QED
    BY <1>3, <2>2 DEF Receive, RetryNext
<1>4. ASSUME NEW r \in Requests, Arrive(r) \/ Work(r) \/ Answer(r)
      PROVE  Next /\ UNCHANGED retryVars
  BY <1>4 DEF Arrive, Work, Answer, Next, Call, Task
<1>5. ASSUME NEW r \in Requests, Refuse(r) \/ EndBody(r) \/ Reset(r)
      PROVE  Next /\ UNCHANGED retryVars
  BY <1>5 DEF Refuse, EndBody, Reset, Next
<1>6. CASE UNCHANGED sysVars
  BY <1>6 DEF sysVars
<1> QED
  BY <1>1, <1>2, <1>3, <1>4, <1>5, <1>6 DEF SysNext

(* No attempt has an answer initially.                                      *)
LEMMA SysInvInit == SysInit => SysInv
BY DEF SysInit, SysInv

(* No step makes up an answer that is no outcome.                          *)
LEMMA SysInvStep == SysInv /\ [SysNext]_sysVars => SysInv'
<1> SUFFICES ASSUME SysInv, [SysNext]_sysVars PROVE SysInv'
  OBVIOUS
<1> USE LoadAssumption DEF SysInv, server, Outcomes
<1>1. ASSUME NEW c \in Clients, Begin(c) \/ Receive(c) \/ Fail(c) \/ GiveUp(c)
      PROVE  SysInv'
  BY <1>1 DEF Begin, Receive, Fail, GiveUp
<1>2. ASSUME NEW r \in Requests, Arrive(r) \/ Work(r) \/ EndBody(r) \/ Reset(r)
      PROVE  SysInv'
  BY <1>2 DEF Arrive, Work, EndBody, Reset
<1>3. ASSUME NEW r \in Requests, Answer(r)
      PROVE  SysInv'
  BY <1>3 DEF Answer
<1>4. ASSUME NEW r \in Requests, Refuse(r)
      PROVE  SysInv'
  BY <1>4 DEF Refuse
<1>5. CASE UNCHANGED sysVars
  BY <1>5 DEF sysVars
<1> QED
  BY <1>1, <1>2, <1>3, <1>4, <1>5 DEF SysNext

(* The clients' accounts and the answers are sound in every state.          *)
LEMMA SysInvariance == SysSpec => [](RetryInv /\ SysInv)
<1>1. SysInit => RetryInv /\ SysInv
  BY RetryInitially, SysInvInit DEF SysInit
<1>2. RetryInv /\ SysInv /\ [SysNext]_sysVars => (RetryInv /\ SysInv)'
  BY StepsOfTheParts, RetryStep, SysInvStep
<1> QED
  BY <1>1, <1>2, PTL DEF SysSpec

(* The composition is an implementation of each part: what was shown of    *)
(* load shedding and of the retry loop alone holds of the two together,    *)
(* however late attempts arrive.                                           *)
THEOREM ComposesItsParts == SysSpec => Spec /\ RetrySpec
<1>1. SysInit => Init /\ RetryInit
  BY DEF SysInit
<1>2. RetryInv /\ SysInv /\ [SysNext]_sysVars => [Next]_vars /\ [RetryNext]_retryVars
  BY StepsOfTheParts
<1> QED
  BY <1>1, <1>2, SysInvariance, PTL DEF SysSpec, Spec, RetrySpec

(* The three properties of the parts, for the two together.                *)
THEOREM PartsKeepTheirPromises ==
    SysSpec => /\ []RetriesExactlyWhenAllowed
               /\ ShedOnlyWhenFull
               /\ ImplementsAdmissionControl
BY ComposesItsParts, RetriesWhenAllowed, ShedsOnlyWhenFull, SheddingRefinesAdmissionControl

=============================================================================
