--------------------------- MODULE OutboxRelayProofs ---------------------------
(***************************************************************************)
(* Proofs about OutboxRelay, for any number of workers, aggregates,        *)
(* versions, claims and disturbances.                                      *)
(***************************************************************************)
EXTENDS OutboxRelay, SequenceTheorems, TLAPS

\* A call that has loaded an event names a published one; once it has claimed
\* the event it holds a fencing token.
CallOK ==
    \A w \in Workers :
        /\ relay[w].stage # "idle" =>
              /\ relay[w].agg \in Aggregates
              /\ relay[w].ver \in Versions
              /\ relay[w].ver <= published[relay[w].agg]
        /\ relay[w].stage \notin {"idle", "loaded"} =>
              relay[w].token \in 1..MaxClaims

TypeInv == TypeOK /\ CallOK

-----------------------------------------------------------------------------
(* Facts about attempts.                                                   *)

\* Rewriting one attempt, or each of them, leaves a sequence of attempts.
LEMMA OneAttempt ==
    ASSUME NEW s \in Seq(Attempt), NEW n, NEW t \in AttemptStatuses
    PROVE  [s EXCEPT ![n].status = t] \in Seq(Attempt)
<1>1. CASE n \in DOMAIN s
  <2>1. s[n] \in Attempt
    BY <1>1, ElementOfSeq
  <2>2. [s[n] EXCEPT !.status = t] \in Attempt
    BY <2>1 DEF Attempt
  <2>3. [s EXCEPT ![n].status = t] = [s EXCEPT ![n] = [s[n] EXCEPT !.status = t]]
    OBVIOUS
  <2> QED
    BY <1>1, <2>2, <2>3, ExceptSeq
<1>2. CASE n \notin DOMAIN s
  <2>1. [s EXCEPT ![n].status = t] = s
    BY <1>2
  <2> QED
    BY <2>1
<1> QED
  BY <1>1, <1>2

LEMMA EveryAttempt ==
    ASSUME NEW s \in Seq(Attempt), NEW f,
           DOMAIN f = DOMAIN s, f = [n \in DOMAIN s |-> f[n]],
           \A n \in DOMAIN s : f[n] \in Attempt
    PROVE  f \in Seq(Attempt)
<1>1. DOMAIN s = 1..Len(s) /\ Len(s) \in Nat
  BY LenProperties
<1>2. f \in [1..Len(s) -> Attempt]
  BY <1>1
<1> QED
  BY <1>1, <1>2, SeqDef

LEMMA StatusType ==
    ASSUME TypeOK, NEW a \in Aggregates, NEW v \in Versions,
           \/ UNCHANGED status
           \/ status' = [status EXCEPT ![a][v] = "delivered"]
           \/ status' = [status EXCEPT ![a][v] = "isolated"]
    PROVE  status' \in [Aggregates -> [Versions ->
                       {"absent", "pending", "delivered", "isolated"}]]
<1>1. CASE UNCHANGED status
  BY <1>1 DEF TypeOK
<1>2. CASE status' = [status EXCEPT ![a][v] = "delivered"]
  BY <1>2 DEF TypeOK
<1>3. CASE status' = [status EXCEPT ![a][v] = "isolated"]
  BY <1>3 DEF TypeOK
<1> QED
  BY <1>1, <1>2, <1>3

LEMMA ReleaseType ==
    ASSUME TypeOK, NEW a \in Aggregates, NEW v \in Versions,
           Release(a, v) \/ UNCHANGED <<claimedBy, lapsed>>
    PROVE  /\ claimedBy' \in [Aggregates -> [Versions -> Workers \cup {None}]]
           /\ lapsed' \in [Aggregates -> [Versions -> SUBSET Workers]]
<1>1. CASE Release(a, v)
  <2>1. claimedBy' \in [Aggregates -> [Versions -> Workers \cup {None}]]
    BY <1>1 DEF TypeOK, Release
  <2>2. lapsed' \in [Aggregates -> [Versions -> SUBSET Workers]]
    BY <1>1 DEF TypeOK, Release
  <2> QED
    BY <2>1, <2>2
<1>2. CASE UNCHANGED <<claimedBy, lapsed>>
  BY <1>2 DEF TypeOK
<1> QED
  BY <1>1, <1>2

LEMMA SetAttemptType ==
    ASSUME TypeOK, NEW w \in Workers, NEW a \in Aggregates, NEW v \in Versions,
           NEW s \in AttemptStatuses,
           SetAttempt(w, a, v, s) \/ UNCHANGED attempts
    PROVE  attempts' \in [Aggregates -> [Versions -> Seq(Attempt)]]
<1> DEFINE old == attempts[a][v]
           new == [old EXCEPT ![relay[w].attempt].status = s]
<1>1. CASE SetAttempt(w, a, v, s)
  <2>1. new \in Seq(Attempt)
    <3>1. old \in Seq(Attempt)
      BY DEF TypeOK
    <3> HIDE DEF old
    <3> QED
      BY <3>1, OneAttempt
  <2>2. attempts' = [attempts EXCEPT ![a][v] = new]
    BY <1>1 DEF SetAttempt
  <2> HIDE DEF new
  <2> QED
    BY <2>1, <2>2 DEF TypeOK
<1>2. CASE UNCHANGED attempts
  BY <1>2 DEF TypeOK
<1> QED
  BY <1>1, <1>2

-----------------------------------------------------------------------------
(* Facts about calls.                                                      *)

\* What a call may become: the forms of relay'[w] that the actions write.
LEMMA CallUpdates ==
    ASSUME NEW r \in Call, NEW s \in Stages
    PROVE  /\ [r EXCEPT !.stage = s] \in Call
           /\ [r EXCEPT !.stage = s].stage = s
           /\ [r EXCEPT !.stage = s].agg = r.agg
           /\ [r EXCEPT !.stage = s].ver = r.ver
           /\ [r EXCEPT !.stage = s].token = r.token
           /\ [r EXCEPT !.stage = s].consumer = r.consumer
           /\ \A t \in Nat : [r EXCEPT !.stage = s, !.token = t] \in Call
           /\ \A n \in Nat : [r EXCEPT !.stage = s, !.attempt = n] \in Call
           /\ \A c \in Consumers : [r EXCEPT !.stage = s, !.consumer = c] \in Call
           /\ \A f \in Failures : [r EXCEPT !.stage = s, !.failure = f] \in Call
  BY Zenon DEF Call

LEMMA TokenUpdate ==
    ASSUME NEW r \in Call, NEW t \in 1..MaxClaims
    PROVE  LET q == [r EXCEPT !.stage = "claimed", !.token = t]
           IN  /\ q \in Call
               /\ q.stage = "claimed"
               /\ q.agg = r.agg
               /\ q.ver = r.ver
               /\ q.token = t
<1>1. t \in Nat /\ "claimed" \in Stages
  BY RelayAssumption DEF Stages
<1> QED
  BY <1>1 DEF Call

LEMMA LoadUpdate ==
    ASSUME NEW a \in Aggregates, NEW v \in Versions
    PROVE  LET q == [NoCall EXCEPT !.stage = "loaded", !.agg = a, !.ver = v]
           IN  q \in Call /\ q.stage = "loaded" /\ q.agg = a /\ q.ver = v
<1>1. NoCall \in Call
  BY DEF NoCall, Call, Stages, Consumers
<1>2. "loaded" \in Stages /\ v \in Nat
  BY RelayAssumption DEF Stages, Versions
<1> QED
  BY <1>1, <1>2 DEF Call

\* What CallOK asks of one call.
CallInv(r) ==
    /\ r.stage # "idle" => /\ r.agg \in Aggregates
                           /\ r.ver \in Versions
                           /\ r.ver <= published[r.agg]
    /\ r.stage \notin {"idle", "loaded"} => r.token \in 1..MaxClaims

\* One call moves on and nothing is published.
LEMMA RelayStep ==
    ASSUME TypeInv, NEW w \in Workers, NEW r \in Call, CallInv(r),
           relay' = [relay EXCEPT ![w] = r], published' = published
    PROVE  relay' \in [Workers -> Call] /\ CallOK'
<1>1. relay' \in [Workers -> Call]
  BY DEF TypeInv, TypeOK
<1>2. \A x \in Workers : relay'[x] = IF x = w THEN r ELSE relay[x]
  BY DEF TypeInv, TypeOK
<1> QED
  BY <1>1, <1>2 DEF TypeInv, CallOK, CallInv, Versions

\* A call only changes its stage, or also the consumer it serves, or fails.
LEMMA StageStep ==
    ASSUME TypeInv, NEW w \in Workers, NEW s \in Stages,
           relay[w].stage \notin {"idle", "loaded"}, published' = published,
           \/ relay' = [relay EXCEPT ![w].stage = s]
           \/ \E n \in Nat : relay' = [relay EXCEPT ![w].stage = s, ![w].attempt = n]
           \/ \E c \in Consumers :
                 relay' = [relay EXCEPT ![w].stage = s, ![w].consumer = c]
           \/ \E f \in Failures :
                 relay' = [relay EXCEPT ![w].stage = s, ![w].failure = f]
    PROVE  relay' \in [Workers -> Call] /\ CallOK'
<1> DEFINE r == relay[w]
<1>1. r \in Call /\ CallInv(r)
  BY DEF TypeInv, TypeOK, CallOK, CallInv
<1>2. CASE relay' = [relay EXCEPT ![w].stage = s]
  <2> DEFINE q == [r EXCEPT !.stage = s]
  <2>1. q \in Call /\ CallInv(q)
    BY <1>1, CallUpdates, Zenon DEF CallInv
  <2>2. relay' = [relay EXCEPT ![w] = q]
    BY <1>2
  <2> QED
    BY <2>1, <2>2, RelayStep
<1>3. ASSUME NEW n \in Nat,
             relay' = [relay EXCEPT ![w].stage = s, ![w].attempt = n]
      PROVE  relay' \in [Workers -> Call] /\ CallOK'
  <2> DEFINE q == [r EXCEPT !.stage = s, !.attempt = n]
  <2>1. q \in Call /\ CallInv(q)
    BY <1>1, CallUpdates, Zenon DEF CallInv, Call
  <2>2. relay' = [relay EXCEPT ![w] = q]
    BY <1>3
  <2> QED
    BY <2>1, <2>2, RelayStep
<1>4. ASSUME NEW c \in Consumers,
             relay' = [relay EXCEPT ![w].stage = s, ![w].consumer = c]
      PROVE  relay' \in [Workers -> Call] /\ CallOK'
  <2> DEFINE q == [r EXCEPT !.stage = s, !.consumer = c]
  <2>1. q \in Call /\ CallInv(q)
    BY <1>1, CallUpdates, Zenon DEF CallInv, Call
  <2>2. relay' = [relay EXCEPT ![w] = q]
    BY <1>4
  <2> QED
    BY <2>1, <2>2, RelayStep
<1>5. ASSUME NEW f \in Failures,
             relay' = [relay EXCEPT ![w].stage = s, ![w].failure = f]
      PROVE  relay' \in [Workers -> Call] /\ CallOK'
  <2> DEFINE q == [r EXCEPT !.stage = s, !.failure = f]
  <2>1. q \in Call /\ CallInv(q)
    BY <1>1, CallUpdates, Zenon DEF CallInv, Call
  <2>2. relay' = [relay EXCEPT ![w] = q]
    BY <1>5
  <2> QED
    BY <2>1, <2>2, RelayStep
<1> QED
  BY <1>2, <1>3, <1>4, <1>5

LEMMA EndStep ==
    ASSUME TypeInv, NEW w \in Workers, published' = published,
           relay' = [relay EXCEPT ![w] = NoCall]
    PROVE  relay' \in [Workers -> Call] /\ CallOK'
<1>1. NoCall \in Call /\ NoCall.stage = "idle"
  BY DEF NoCall, Call, Stages, Consumers
<1> QED
  BY <1>1, RelayStep DEF CallInv

-----------------------------------------------------------------------------
(* Type correctness.                                                       *)

LEMMA InitTypeInv == Init => TypeInv
<1> SUFFICES ASSUME Init PROVE TypeInv
  OBVIOUS
<1>1. attempts \in [Aggregates -> [Versions -> Seq(Attempt)]]
  <2>1. <<>> \in Seq(Attempt)
    BY EmptySeq
  <2> QED
    BY <2>1 DEF Init
<1>2. NoCall \in Call
  BY DEF NoCall, Call, Stages, Consumers
<1> QED
  BY <1>1, <1>2, RelayAssumption
  DEF Init, TypeInv, TypeOK, CallOK, NoCall, Versions

\* A step that writes nothing but a call.
LEMMA RelayOnly ==
    ASSUME TypeInv, relay' \in [Workers -> Call], CallOK',
           UNCHANGED <<eventVars, claimVars, attempts, effectVars, incident>>,
           Disturb \/ UNCHANGED disturbed
    PROVE  TypeInv'
<1>1. disturbed' \in 0..MaxDisturbances
  BY RelayAssumption DEF Disturb, TypeInv, TypeOK
<1> QED
  BY <1>1 DEF TypeInv, TypeOK, eventVars, claimVars, effectVars

LEMMA NextTypeInv == TypeInv /\ [Next]_vars => TypeInv'
<1> SUFFICES ASSUME TypeInv, [Next]_vars PROVE TypeInv'
  OBVIOUS
<1>pub. ASSUME NEW a \in Aggregates, Publish(a) PROVE TypeInv'
  <2>1. published' \in [Aggregates -> 0..MaxVersion] /\ published'[a] = published[a] + 1
        /\ \A b \in Aggregates : published'[b] >= published[b]
    BY <1>pub, RelayAssumption DEF Publish, TypeInv, TypeOK
  <2>2. status' \in [Aggregates -> [Versions ->
                       {"absent", "pending", "delivered", "isolated"}]]
    BY <1>pub DEF Publish, TypeInv, TypeOK
  <2>3. CallOK'
    <3>1. \A w \in Workers : relay'[w] = relay[w] /\ relay[w].ver \in Nat
      BY <1>pub DEF Publish, TypeInv, TypeOK, Call
    <3>2. \A w \in Workers : relay[w].stage # "idle" =>
             relay[w].ver <= published'[relay[w].agg]
      <4>1. \A b \in Aggregates : published[b] \in Nat /\ published'[b] \in Nat
        BY <2>1, RelayAssumption DEF TypeInv, TypeOK
      <4> QED
        BY <2>1, <3>1, <4>1 DEF TypeInv, CallOK
    <3> QED
      BY <3>1, <3>2 DEF TypeInv, CallOK
  <2> QED
    BY <1>pub, <2>1, <2>2, <2>3
    DEF Publish, TypeInv, TypeOK, claimVars, effectVars
<1>ln. ASSUME NEW w \in Workers, LoadNext(w) PROVE TypeInv'
  <2>1. PICK b \in Aggregates, u \in Versions :
           /\ u <= published[b]
           /\ relay' = [relay EXCEPT ![w] =
                [NoCall EXCEPT !.stage = "loaded", !.agg = b, !.ver = u]]
    BY <1>ln, Zenon DEF LoadNext, IsNext, Pending
  <2> DEFINE r == [NoCall EXCEPT !.stage = "loaded", !.agg = b, !.ver = u]
  <2>2. r \in Call /\ r.stage = "loaded" /\ r.agg = b /\ r.ver = u
    BY LoadUpdate, Zenon
  <2>3. CallInv(r)
    BY <2>1, <2>2 DEF CallInv
  <2>4. relay' \in [Workers -> Call] /\ CallOK'
    BY <1>ln, <2>1, <2>2, <2>3, RelayStep DEF LoadNext, eventVars
  <2>5. /\ UNCHANGED <<eventVars, claimVars, attempts, effectVars, incident>>
        /\ Disturb \/ UNCHANGED disturbed
    BY <1>ln DEF LoadNext
  <2> QED
    BY <2>4, <2>5, RelayOnly
<1>le. ASSUME NEW w \in Workers, NEW a \in Aggregates, NEW v \in Versions,
             LoadEvent(w, a, v) PROVE TypeInv'
  <2>1. PICK b \in Aggregates, u \in Versions :
           /\ u <= published[b]
           /\ relay' = [relay EXCEPT ![w] =
                [NoCall EXCEPT !.stage = "loaded", !.agg = b, !.ver = u]]
    BY <1>le, Zenon DEF LoadEvent, IsNext, Pending
  <2> DEFINE r == [NoCall EXCEPT !.stage = "loaded", !.agg = b, !.ver = u]
  <2>2. r \in Call /\ r.stage = "loaded" /\ r.agg = b /\ r.ver = u
    BY LoadUpdate, Zenon
  <2>3. CallInv(r)
    BY <2>1, <2>2 DEF CallInv
  <2>4. relay' \in [Workers -> Call] /\ CallOK'
    BY <1>le, <2>1, <2>2, <2>3, RelayStep DEF LoadEvent, eventVars
  <2>5. /\ UNCHANGED <<eventVars, claimVars, attempts, effectVars, incident>>
        /\ Disturb \/ UNCHANGED disturbed
    BY <1>le DEF LoadEvent
  <2> QED
    BY <2>4, <2>5, RelayOnly
<1>nr. ASSUME NEW w \in Workers, NothingToRelay(w) PROVE TypeInv'
  BY <1>nr DEF NothingToRelay, vars, TypeInv, TypeOK, CallOK
<1>cl. ASSUME NEW w \in Workers, Claim(w) PROVE TypeInv'
  <2> DEFINE a == relay[w].agg
             v == relay[w].ver
             r == [relay[w] EXCEPT !.stage = "claimed", !.token = token[a][v] + 1]
  <2>1. a \in Aggregates /\ v \in Versions /\ relay[w] \in Call
    BY <1>cl DEF Claim, TypeInv, TypeOK, CallOK
  <2>2. token[a][v] + 1 \in 1..MaxClaims
    BY <1>cl, <2>1, RelayAssumption DEF Claim, TypeInv, TypeOK
  <2>3. r \in Call /\ r.stage = "claimed" /\ r.agg = a /\ r.ver = v
        /\ r.token = token[a][v] + 1
    BY <2>1, <2>2, TokenUpdate, Zenon
  <2>4. CallInv(r)
    BY <1>cl, <2>1, <2>2, <2>3 DEF CallInv, TypeInv, CallOK, Claim
  <2>5. relay' \in [Workers -> Call] /\ CallOK'
    BY <1>cl, <2>3, <2>4, RelayStep DEF Claim, eventVars
  <2>6. token' \in [Aggregates -> [Versions -> 0..MaxClaims]]
    BY <1>cl, <2>1, <2>2, RelayAssumption, SMTT(60) DEF Claim, TypeInv, TypeOK
  <2> QED
    BY <1>cl, <2>1, <2>5, <2>6
    DEF Claim, TypeInv, TypeOK, eventVars, effectVars
<1>cb. ASSUME NEW w \in Workers, ClaimBusy(w) PROVE TypeInv'
  <2>1. relay' \in [Workers -> Call] /\ CallOK'
    BY <1>cb, EndStep DEF ClaimBusy, eventVars
  <2>2. /\ UNCHANGED <<eventVars, claimVars, attempts, effectVars, incident>>
        /\ Disturb \/ UNCHANGED disturbed
    BY <1>cb DEF ClaimBusy
  <2> QED
    BY <2>1, <2>2, RelayOnly
<1>bd. ASSUME NEW w \in Workers, BeginDelivery(w) PROVE TypeInv'
  <2>1. relay' \in [Workers -> Call] /\ CallOK'
    BY <1>bd, StageStep DEF BeginDelivery, eventVars, Stages
  <2>2. /\ UNCHANGED <<eventVars, claimVars, attempts, effectVars, incident>>
        /\ Disturb \/ UNCHANGED disturbed
    BY <1>bd DEF BeginDelivery
  <2> QED
    BY <2>1, <2>2, RelayOnly
<1>cw. ASSUME NEW w \in Workers, ConsumeWrite(w) PROVE TypeInv'
  <2>1. relay' \in [Workers -> Call] /\ CallOK'
    BY <1>cw, StageStep DEF ConsumeWrite, eventVars, Stages
  <2>2. /\ UNCHANGED <<eventVars, claimVars, attempts, effectVars, incident>>
        /\ Disturb \/ UNCHANGED disturbed
    BY <1>cw DEF ConsumeWrite
  <2> QED
    BY <2>1, <2>2, RelayOnly
<1>re. ASSUME NEW w \in Workers, ConsumeRecheck(w) PROVE TypeInv'
  <2>1. relay' \in [Workers -> Call] /\ CallOK'
    BY <1>re, StageStep, Zenon DEF ConsumeRecheck, eventVars, Stages
  <2>2. /\ UNCHANGED <<eventVars, claimVars, attempts, effectVars, incident>>
        /\ Disturb \/ UNCHANGED disturbed
    BY <1>re DEF ConsumeRecheck
  <2> QED
    BY <2>1, <2>2, RelayOnly
<1>sp. ASSUME NEW w \in Workers, SkipProcessed(w) PROVE TypeInv'
  <2>1. relay' \in [Workers -> Call] /\ CallOK'
    BY <1>sp, StageStep, Zenon DEF SkipProcessed, eventVars, Stages, AfterConsumer, Consumers
  <2>2. /\ UNCHANGED <<eventVars, claimVars, attempts, effectVars, incident>>
        /\ Disturb \/ UNCHANGED disturbed
    BY <1>sp DEF SkipProcessed
  <2> QED
    BY <2>1, <2>2, RelayOnly
<1>cr. ASSUME NEW w \in Workers, ConsumeRead(w) PROVE TypeInv'
  <2>1. relay' \in [Workers -> Call] /\ CallOK'
    BY <1>cr, StageStep, ZenonT(60) DEF ConsumeRead, eventVars, Stages, Fail, Failures
  <2>2. /\ UNCHANGED <<eventVars, claimVars, attempts, effectVars, incident>>
        /\ Disturb \/ UNCHANGED disturbed
    BY <1>cr DEF ConsumeRead
  <2> QED
    BY <2>1, <2>2, RelayOnly
<1>ll. ASSUME NEW w \in Workers, LeaseLost(w) PROVE TypeInv'
  <2>1. relay' \in [Workers -> Call] /\ CallOK'
    BY <1>ll, StageStep, ZenonT(60) DEF LeaseLost, eventVars, Stages, Fail, Failures
  <2>2. /\ UNCHANGED <<eventVars, claimVars, attempts, effectVars, incident>>
        /\ Disturb \/ UNCHANGED disturbed
    BY <1>ll DEF LeaseLost
  <2> QED
    BY <2>1, <2>2, RelayOnly
<1>ft. ASSUME NEW w \in Workers, Fault(w) PROVE TypeInv'
  <2>1. relay' \in [Workers -> Call] /\ CallOK'
    BY <1>ft, StageStep, Zenon DEF Fault, eventVars, Stages, Fail, Failures
  <2>2. /\ UNCHANGED <<eventVars, claimVars, attempts, effectVars, incident>>
        /\ Disturb \/ UNCHANGED disturbed
    BY <1>ft DEF Fault
  <2> QED
    BY <2>1, <2>2, RelayOnly
<1>cf. ASSUME NEW w \in Workers, ConsumeConflict(w) PROVE TypeInv'
  <2>1. relay' \in [Workers -> Call] /\ CallOK'
    BY <1>cf, EndStep DEF ConsumeConflict, eventVars
  <2>2. /\ UNCHANGED <<eventVars, claimVars, attempts, effectVars, incident>>
        /\ Disturb \/ UNCHANGED disturbed
    BY <1>cf DEF ConsumeConflict
  <2> QED
    BY <2>1, <2>2, RelayOnly
<1>cs. ASSUME NEW w \in Workers, Crash(w) PROVE TypeInv'
  <2>1. relay' \in [Workers -> Call] /\ CallOK'
    BY <1>cs, EndStep DEF Crash, eventVars
  <2>2. /\ UNCHANGED <<eventVars, claimVars, attempts, effectVars, incident>>
        /\ Disturb \/ UNCHANGED disturbed
    BY <1>cs DEF Crash
  <2> QED
    BY <2>1, <2>2, RelayOnly
<1>cc. ASSUME NEW w \in Workers, ConsumeCommit(w) PROVE TypeInv'
  <2>1. relay' \in [Workers -> Call] /\ CallOK'
    BY <1>cc, StageStep, Zenon DEF ConsumeCommit, eventVars, AfterConsumer, Stages, Consumers
  <2>2. /\ relay[w].agg \in Aggregates
        /\ relay[w].ver \in Versions
        /\ relay[w].consumer \in Consumers
    BY <1>cc DEF ConsumeCommit, TypeInv, TypeOK, CallOK, Call
  <2>3. processed' \in [Consumers -> [Aggregates -> SUBSET Versions]]
    BY <1>cc, <2>2 DEF ConsumeCommit, TypeInv, TypeOK
  <2>4. cursor' \in [Consumers -> [Aggregates -> 0..MaxVersion]]
    BY <1>cc, <2>2, RelayAssumption DEF ConsumeCommit, TypeInv, TypeOK, Versions
  <2>5. effects' \in [Consumers -> [Aggregates -> [Versions -> Nat]]]
    <3> DEFINE e == effects[relay[w].consumer][relay[w].agg][relay[w].ver] + 1
    <3>1. e \in Nat
      BY <2>2 DEF TypeInv, TypeOK
    <3>2. effects' = [effects EXCEPT
                        ![relay[w].consumer][relay[w].agg][relay[w].ver] = e]
      BY <1>cc DEF ConsumeCommit
    <3> HIDE DEF e
    <3> QED
      BY <2>2, <3>1, <3>2 DEF TypeInv, TypeOK
  <2> QED
    BY <1>cc, <2>1, <2>3, <2>4, <2>5
    DEF ConsumeCommit, TypeInv, TypeOK, eventVars, claimVars
<1>su. ASSUME NEW w \in Workers, SupersedeLeases(w) PROVE TypeInv'
  <2>1. /\ relay[w].agg \in Aggregates
        /\ relay[w].ver \in Versions
        /\ relay[w] \in Call
    BY <1>su DEF SupersedeLeases, TypeInv, TypeOK, CallOK
  <2> DEFINE s == attempts[relay[w].agg][relay[w].ver]
             Stale(n) == s[n].status = "running" /\ s[n].token < relay[w].token
             f == [n \in DOMAIN s |-> IF Stale(n)
                                      THEN [s[n] EXCEPT !.status = "superseded"]
                                      ELSE s[n]]
  <2>2. s \in Seq(Attempt)
    BY <2>1 DEF TypeInv, TypeOK
  <2>3. \A n \in DOMAIN s : s[n] \in Attempt
    BY <2>2, LenProperties, ElementOfSeq, SMTT(60)
  <2>4. \A n \in DOMAIN s : [s[n] EXCEPT !.status = "superseded"] \in Attempt
    BY <2>3 DEF Attempt, AttemptStatuses
  <2>5. f \in Seq(Attempt)
    <3>1. \A n \in DOMAIN s : f[n] \in Attempt
      BY <2>3, <2>4, Zenon
    <3> QED
      BY <2>2, <3>1, EveryAttempt, ZenonT(60)
  <2>6. attempts' \in [Aggregates -> [Versions -> Seq(Attempt)]]
    <3>1. attempts' = [attempts EXCEPT ![relay[w].agg][relay[w].ver] = f]
      BY <1>su, ZenonT(60) DEF SupersedeLeases
    <3> HIDE DEF f
    <3> QED
      BY <2>1, <2>5, <3>1, SMTT(60) DEF TypeInv, TypeOK
  <2>7. incident' \in [Aggregates -> [Reasons -> {"none", "open", "monitoring"}]]
    BY <1>su, <2>1 DEF SupersedeLeases, Open, Reasons, TypeInv, TypeOK
  <2>8. relay' \in [Workers -> Call] /\ CallOK'
    BY <1>su, StageStep, Zenon DEF SupersedeLeases, eventVars, Stages
  <2> QED
    BY <1>su, <2>6, <2>7, <2>8, ZenonT(60)
    DEF SupersedeLeases, TypeInv, TypeOK, eventVars, claimVars, effectVars
<1>st. ASSUME NEW w \in Workers, StartAttempt(w) PROVE TypeInv'
  <2>1. /\ relay[w].agg \in Aggregates
        /\ relay[w].ver \in Versions
        /\ relay[w] \in Call
    BY <1>st DEF StartAttempt, TypeInv, TypeOK, CallOK
  <2> DEFINE s == attempts[relay[w].agg][relay[w].ver]
             e == [token |-> relay[w].token, status |-> "running"]
  <2>2. s \in Seq(Attempt) /\ Len(s) + 1 \in Nat
    BY <2>1 DEF TypeInv, TypeOK
  <2>3. relay[w].token \in 1..MaxClaims
    BY <1>st DEF StartAttempt, TypeInv, CallOK
  <2>4. e \in Attempt
    BY <2>3 DEF Attempt, AttemptStatuses
  <2>5. Append(s, e) \in Seq(Attempt)
    BY <2>2, <2>4
  <2>6. attempts' \in [Aggregates -> [Versions -> Seq(Attempt)]]
    <3>1. attempts' = [attempts EXCEPT ![relay[w].agg][relay[w].ver] = Append(s, e)]
      BY <1>st DEF StartAttempt
    <3> QED
      BY <2>1, <2>5, <3>1 DEF TypeInv, TypeOK
  <2>7. relay' \in [Workers -> Call] /\ CallOK'
    BY <1>st, <2>2, StageStep, Zenon DEF StartAttempt, eventVars, Stages
  <2> QED
    BY <1>st, <2>6, <2>7
    DEF StartAttempt, TypeInv, TypeOK, eventVars, claimVars, effectVars
<1>is. ASSUME NEW w \in Workers, Isolate(w) PROVE TypeInv'
  <2>1. /\ relay[w].agg \in Aggregates
        /\ relay[w].ver \in Versions
        /\ relay[w] \in Call
    BY <1>is DEF Isolate, TypeInv, TypeOK, CallOK
  <2>2. attempts' \in [Aggregates -> [Versions -> Seq(Attempt)]]
    <3>1. \E s \in AttemptStatuses : \/ SetAttempt(w, relay[w].agg, relay[w].ver, s)
                                   \/ UNCHANGED attempts
      BY <1>is DEF Isolate, AttemptStatuses
    <3> QED
      BY <2>1, <3>1, SetAttemptType DEF TypeInv
  <2>3. incident' \in [Aggregates -> [Reasons -> {"none", "open", "monitoring"}]]
    BY <1>is, <2>1 DEF Isolate, Open, Reasons, Failures, Call, TypeInv, TypeOK
  <2>4. status' \in [Aggregates -> [Versions ->
                       {"absent", "pending", "delivered", "isolated"}]]
    <3>1. \/ UNCHANGED status
          \/ status' = [status EXCEPT ![relay[w].agg][relay[w].ver] = "delivered"]
          \/ status' = [status EXCEPT ![relay[w].agg][relay[w].ver] = "isolated"]
      BY <1>is DEF Isolate, eventVars
    <3> QED
      BY <2>1, <3>1, StatusType DEF TypeInv
  <2>5. /\ claimedBy' \in [Aggregates -> [Versions -> Workers \cup {None}]]
        /\ lapsed' \in [Aggregates -> [Versions -> SUBSET Workers]]
    <3>1. Release(relay[w].agg, relay[w].ver) \/ UNCHANGED <<claimedBy, lapsed>>
      BY <1>is DEF Isolate, claimVars
    <3> QED
      BY <2>1, <3>1, ReleaseType DEF TypeInv
  <2>6. relay' \in [Workers -> Call] /\ CallOK'
    BY <1>is, EndStep DEF Isolate, eventVars
  <2>7. UNCHANGED <<published, token, effectVars, disturbed>>
    BY <1>is DEF Isolate, eventVars, claimVars
  <2> QED
    BY <2>2, <2>3, <2>4, <2>5, <2>6, <2>7 DEF TypeInv, TypeOK, effectVars
<1>ak. ASSUME NEW w \in Workers, Ack(w) PROVE TypeInv'
  <2>1. /\ relay[w].agg \in Aggregates
        /\ relay[w].ver \in Versions
        /\ relay[w] \in Call
    BY <1>ak DEF Ack, TypeInv, TypeOK, CallOK
  <2>2. attempts' \in [Aggregates -> [Versions -> Seq(Attempt)]]
    <3>1. \E s \in AttemptStatuses : \/ SetAttempt(w, relay[w].agg, relay[w].ver, s)
                                   \/ UNCHANGED attempts
      BY <1>ak DEF Ack, AttemptStatuses
    <3> QED
      BY <2>1, <3>1, SetAttemptType DEF TypeInv
  <2>3. incident' \in [Aggregates -> [Reasons -> {"none", "open", "monitoring"}]]
    BY <1>ak, <2>1 DEF Ack, Open, Reasons, Failures, Call, TypeInv, TypeOK
  <2>4. status' \in [Aggregates -> [Versions ->
                       {"absent", "pending", "delivered", "isolated"}]]
    <3>1. \/ UNCHANGED status
          \/ status' = [status EXCEPT ![relay[w].agg][relay[w].ver] = "delivered"]
          \/ status' = [status EXCEPT ![relay[w].agg][relay[w].ver] = "isolated"]
      BY <1>ak DEF Ack, eventVars
    <3> QED
      BY <2>1, <3>1, StatusType DEF TypeInv
  <2>5. /\ claimedBy' \in [Aggregates -> [Versions -> Workers \cup {None}]]
        /\ lapsed' \in [Aggregates -> [Versions -> SUBSET Workers]]
    <3>1. Release(relay[w].agg, relay[w].ver) \/ UNCHANGED <<claimedBy, lapsed>>
      BY <1>ak DEF Ack, claimVars
    <3> QED
      BY <2>1, <3>1, ReleaseType DEF TypeInv
  <2>6. relay' \in [Workers -> Call] /\ CallOK'
    BY <1>ak, EndStep DEF Ack, eventVars
  <2>7. UNCHANGED <<published, token, effectVars, disturbed>>
    BY <1>ak DEF Ack, eventVars, claimVars
  <2> QED
    BY <2>2, <2>3, <2>4, <2>5, <2>6, <2>7 DEF TypeInv, TypeOK, effectVars
<1>ar. ASSUME NEW w \in Workers, AckRefused(w) PROVE TypeInv'
  <2>1. /\ relay[w].agg \in Aggregates
        /\ relay[w].ver \in Versions
        /\ relay[w] \in Call
    BY <1>ar DEF AckRefused, TypeInv, TypeOK, CallOK
  <2>2. attempts' \in [Aggregates -> [Versions -> Seq(Attempt)]]
    <3>1. \E s \in AttemptStatuses : \/ SetAttempt(w, relay[w].agg, relay[w].ver, s)
                                   \/ UNCHANGED attempts
      BY <1>ar DEF AckRefused, AttemptStatuses
    <3> QED
      BY <2>1, <3>1, SetAttemptType DEF TypeInv
  <2>3. incident' \in [Aggregates -> [Reasons -> {"none", "open", "monitoring"}]]
    BY <1>ar, <2>1 DEF AckRefused, Open, Reasons, Failures, Call, TypeInv, TypeOK
  <2>4. status' \in [Aggregates -> [Versions ->
                       {"absent", "pending", "delivered", "isolated"}]]
    <3>1. \/ UNCHANGED status
          \/ status' = [status EXCEPT ![relay[w].agg][relay[w].ver] = "delivered"]
          \/ status' = [status EXCEPT ![relay[w].agg][relay[w].ver] = "isolated"]
      BY <1>ar DEF AckRefused, eventVars
    <3> QED
      BY <2>1, <3>1, StatusType DEF TypeInv
  <2>5. /\ claimedBy' \in [Aggregates -> [Versions -> Workers \cup {None}]]
        /\ lapsed' \in [Aggregates -> [Versions -> SUBSET Workers]]
    <3>1. Release(relay[w].agg, relay[w].ver) \/ UNCHANGED <<claimedBy, lapsed>>
      BY <1>ar DEF AckRefused, claimVars
    <3> QED
      BY <2>1, <3>1, ReleaseType DEF TypeInv
  <2>6. relay' \in [Workers -> Call] /\ CallOK'
    BY <1>ar, EndStep DEF AckRefused, eventVars
  <2>7. UNCHANGED <<published, token, effectVars, disturbed>>
    BY <1>ar DEF AckRefused, eventVars, claimVars
  <2> QED
    BY <2>2, <2>3, <2>4, <2>5, <2>6, <2>7 DEF TypeInv, TypeOK, effectVars
<1>ff. ASSUME NEW w \in Workers, FinishFailure(w) PROVE TypeInv'
  <2>1. /\ relay[w].agg \in Aggregates
        /\ relay[w].ver \in Versions
        /\ relay[w] \in Call
    BY <1>ff DEF FinishFailure, TypeInv, TypeOK, CallOK
  <2>2. attempts' \in [Aggregates -> [Versions -> Seq(Attempt)]]
    <3>1. \E s \in AttemptStatuses : \/ SetAttempt(w, relay[w].agg, relay[w].ver, s)
                                   \/ UNCHANGED attempts
      BY <1>ff DEF FinishFailure, AttemptStatuses
    <3> QED
      BY <2>1, <3>1, SetAttemptType DEF TypeInv
  <2>3. incident' \in [Aggregates -> [Reasons -> {"none", "open", "monitoring"}]]
    BY <1>ff, <2>1 DEF FinishFailure, Open, Reasons, Failures, Call, TypeInv, TypeOK
  <2>4. status' \in [Aggregates -> [Versions ->
                       {"absent", "pending", "delivered", "isolated"}]]
    <3>1. \/ UNCHANGED status
          \/ status' = [status EXCEPT ![relay[w].agg][relay[w].ver] = "delivered"]
          \/ status' = [status EXCEPT ![relay[w].agg][relay[w].ver] = "isolated"]
      BY <1>ff DEF FinishFailure, eventVars
    <3> QED
      BY <2>1, <3>1, StatusType DEF TypeInv
  <2>5. /\ claimedBy' \in [Aggregates -> [Versions -> Workers \cup {None}]]
        /\ lapsed' \in [Aggregates -> [Versions -> SUBSET Workers]]
    <3>1. Release(relay[w].agg, relay[w].ver) \/ UNCHANGED <<claimedBy, lapsed>>
      BY <1>ff DEF FinishFailure, claimVars
    <3> QED
      BY <2>1, <3>1, ReleaseType DEF TypeInv
  <2>6. relay' \in [Workers -> Call] /\ CallOK'
    BY <1>ff, EndStep DEF FinishFailure, eventVars
  <2>7. UNCHANGED <<published, token, effectVars, disturbed>>
    BY <1>ff DEF FinishFailure, eventVars, claimVars
  <2> QED
    BY <2>2, <2>3, <2>4, <2>5, <2>6, <2>7 DEF TypeInv, TypeOK, effectVars
<1>la. ASSUME NEW w \in Workers, NEW a \in Aggregates, NEW v \in Versions,
             Lapse(w, a, v)
      PROVE  TypeInv'
  <2>1. disturbed' \in 0..MaxDisturbances
    BY <1>la, RelayAssumption DEF Lapse, Disturb, TypeInv, TypeOK
  <2>2. lapsed' \in [Aggregates -> [Versions -> SUBSET Workers]]
    BY <1>la DEF Lapse, TypeInv, TypeOK
  <2> QED
    BY <1>la, <2>1, <2>2 DEF Lapse, TypeInv, TypeOK, CallOK, eventVars, effectVars
<1>id. CASE UNCHANGED vars
  BY <1>id DEF vars, TypeInv, TypeOK, CallOK
<1> QED
  BY <1>pub, <1>ln, <1>le, <1>nr, <1>cl, <1>cb, <1>bd, <1>cw, <1>re, <1>sp, <1>cr,
     <1>ll, <1>ft, <1>cf, <1>cs, <1>cc, <1>su, <1>st, <1>is, <1>ak, <1>ar, <1>ff,
     <1>la, <1>id
  DEF Next, Advance

-----------------------------------------------------------------------------
(* The shape of a step of one call, used by the invariants below.          *)

Others(w) == \A x \in Workers \ {w} : relay'[x] = relay[x]

SameEvent(w) == /\ relay'[w].agg = relay[w].agg
                /\ relay'[w].ver = relay[w].ver
                /\ relay'[w].token = relay[w].token

LEMMA StageShape ==
    ASSUME TypeInv, NEW w \in Workers, NEW s \in Stages,
           \/ relay' = [relay EXCEPT ![w].stage = s]
           \/ \E n \in Nat : relay' = [relay EXCEPT ![w].stage = s, ![w].attempt = n]
           \/ \E f \in Failures :
                 relay' = [relay EXCEPT ![w].stage = s, ![w].failure = f]
    PROVE  /\ Others(w) /\ SameEvent(w)
           /\ relay'[w].stage = s
           /\ relay'[w].consumer = relay[w].consumer
<1>1. relay \in [Workers -> Call]
  BY DEF TypeInv, TypeOK
<1>2. CASE relay' = [relay EXCEPT ![w].stage = s]
  BY <1>1, <1>2 DEF Others, SameEvent, Call
<1>3. ASSUME NEW n \in Nat,
             relay' = [relay EXCEPT ![w].stage = s, ![w].attempt = n]
      PROVE  /\ Others(w) /\ SameEvent(w)
             /\ relay'[w].stage = s
             /\ relay'[w].consumer = relay[w].consumer
  <2> DEFINE q == [relay[w] EXCEPT !.stage = s, !.attempt = n]
  <2>1. relay' = [relay EXCEPT ![w] = q]
    BY <1>3
  <2>2. relay[w] \in Call
    BY <1>1
  <2>3. /\ q.stage = s
        /\ q.agg = relay[w].agg
        /\ q.ver = relay[w].ver
        /\ q.token = relay[w].token
        /\ q.consumer = relay[w].consumer
    BY <2>2 DEF Call
  <2> HIDE DEF q
  <2> QED
    BY <1>1, <2>1, <2>3, Zenon DEF Others, SameEvent
<1>4. ASSUME NEW f \in Failures,
             relay' = [relay EXCEPT ![w].stage = s, ![w].failure = f]
      PROVE  /\ Others(w) /\ SameEvent(w)
             /\ relay'[w].stage = s
             /\ relay'[w].consumer = relay[w].consumer
  <2> DEFINE q == [relay[w] EXCEPT !.stage = s, !.failure = f]
  <2>1. relay' = [relay EXCEPT ![w] = q]
    BY <1>4
  <2>2. relay[w] \in Call
    BY <1>1
  <2>3. /\ q.stage = s
        /\ q.agg = relay[w].agg
        /\ q.ver = relay[w].ver
        /\ q.token = relay[w].token
        /\ q.consumer = relay[w].consumer
    BY <2>2 DEF Call
  <2> HIDE DEF q
  <2> QED
    BY <1>1, <2>1, <2>3, Zenon DEF Others, SameEvent
<1> QED
  BY <1>2, <1>3, <1>4

LEMMA ConsumerShape ==
    ASSUME TypeInv, NEW w \in Workers, relay' = AfterConsumer(w)
    PROVE  /\ Others(w) /\ SameEvent(w)
           /\ relay[w].consumer = Research =>
                 relay'[w].stage = "consume" /\ relay'[w].consumer = Operations
           /\ relay[w].consumer = Operations =>
                 relay'[w].stage = "ack" /\ relay'[w].consumer = Operations
<1>1. relay \in [Workers -> Call]
  BY DEF TypeInv, TypeOK
<1>2. CASE relay[w].consumer = Research
  BY <1>1, <1>2 DEF AfterConsumer, Others, SameEvent, Call, Research, Operations
<1>3. CASE relay[w].consumer = Operations
  BY <1>1, <1>3 DEF AfterConsumer, Others, SameEvent, Call, Research, Operations
<1>4. relay[w].consumer \in {Research, Operations}
  BY <1>1 DEF Call, Consumers
<1> QED
  BY <1>2, <1>3, <1>4 DEF Research, Operations

LEMMA EndShape ==
    ASSUME TypeInv, NEW w \in Workers, relay' = [relay EXCEPT ![w] = NoCall]
    PROVE  Others(w) /\ relay'[w].stage = "idle"
  BY DEF TypeInv, TypeOK, Others, NoCall

LEMMA LoadShape ==
    ASSUME TypeInv, NEW w \in Workers, NEW a \in Aggregates, NEW v \in Versions,
           relay' = [relay EXCEPT ![w] =
                       [NoCall EXCEPT !.stage = "loaded", !.agg = a, !.ver = v]]
    PROVE  /\ Others(w)
           /\ relay'[w].stage = "loaded"
           /\ relay'[w].consumer = Research
<1> DEFINE q == [NoCall EXCEPT !.stage = "loaded", !.agg = a, !.ver = v]
<1>1. q.stage = "loaded" /\ q.consumer = Research
  BY DEF NoCall
<1>2. relay' = [relay EXCEPT ![w] = q]
  OBVIOUS
<1> HIDE DEF q
<1> QED
  BY <1>1, <1>2 DEF TypeInv, TypeOK, Others

LEMMA ClaimShape ==
    ASSUME TypeInv, NEW w \in Workers, Claim(w)
    PROVE  /\ Others(w)
           /\ relay'[w].stage = "claimed"
           /\ relay'[w].agg = relay[w].agg
           /\ relay'[w].ver = relay[w].ver
           /\ relay'[w].token = token[relay[w].agg][relay[w].ver] + 1
           /\ relay'[w].consumer = relay[w].consumer
  BY DEF Claim, TypeInv, TypeOK, Others, Call

-----------------------------------------------------------------------------
(* Claims: a claimed event is pending, an event is absent until published, *)
(* a call's token is not newer than the event's, and no two calls share    *)
(* one.                                                                    *)

StatusInv ==
    \A a \in Aggregates, v \in Versions :
        /\ status[a][v] = "absent" <=> v > published[a]
        /\ claimedBy[a][v] # None => status[a][v] = "pending"

Claiming(w) == relay[w].stage \notin {"idle", "loaded"}

TokenInv ==
    \A w \in Workers :
        Claiming(w) => relay[w].token <= token[relay[w].agg][relay[w].ver]

ClaimInv == StatusInv /\ TokenInv /\ OneClaimHolder

\* A step of one call that takes no claim keeps the tokens apart.
LEMMA TokensKept ==
    ASSUME TypeInv, TokenInv, OneClaimHolder, NEW w \in Workers,
           UNCHANGED token, Others(w),
           \/ relay'[w].stage \in {"idle", "loaded"}
           \/ SameEvent(w) /\ Claiming(w)
    PROVE  TokenInv' /\ OneClaimHolder'
<1>1. TokenInv'
  BY DEF TokenInv, Claiming, Others, SameEvent
<1>2. OneClaimHolder'
  <2> SUFFICES ASSUME NEW a \in Aggregates, NEW v \in Versions,
                      NEW x \in Workers, NEW y \in Workers,
                      Claiming(x)', Claiming(y)',
                      relay'[x].agg = a, relay'[x].ver = v,
                      relay'[y].agg = a, relay'[y].ver = v,
                      relay'[x].token = relay'[y].token
               PROVE  x = y
    BY DEF OneClaimHolder, Claiming
  <2>1. \A z \in {x, y} :
           /\ Claiming(z)
           /\ relay[z].agg = relay'[z].agg
           /\ relay[z].ver = relay'[z].ver
           /\ relay[z].token = relay'[z].token
    BY DEF Claiming, Others, SameEvent
  <2> QED
    BY <2>1 DEF OneClaimHolder, Claiming
<1> QED
  BY <1>1, <1>2

\* A claim takes a token above every other of its event.
LEMMA TokensClaimed ==
    ASSUME TypeInv, TokenInv, OneClaimHolder, NEW w \in Workers, Claim(w)
    PROVE  TokenInv' /\ OneClaimHolder'
<1> DEFINE a == relay[w].agg
           v == relay[w].ver
<1>1. a \in Aggregates /\ v \in Versions
  BY DEF Claim, TypeInv, CallOK
<1>2. /\ token'[a][v] = token[a][v] + 1
      /\ \A b \in Aggregates, u \in Versions :
            <<b, u>> # <<a, v>> => token'[b][u] = token[b][u]
  BY <1>1 DEF Claim, TypeInv, TypeOK
<1>3. \A b \in Aggregates, u \in Versions : token[b][u] \in Nat
  BY RelayAssumption DEF TypeInv, TypeOK
<1>4. /\ Others(w)
      /\ relay'[w].stage = "claimed"
      /\ relay'[w].agg = a
      /\ relay'[w].ver = v
      /\ relay'[w].token = token[a][v] + 1
  BY ClaimShape
<1>5. \A x \in Workers \ {w} : Claiming(x)' =>
         /\ Claiming(x)
         /\ relay'[x] = relay[x]
         /\ relay[x].agg \in Aggregates
         /\ relay[x].ver \in Versions
         /\ relay[x].token \in Nat
         /\ relay[x].token <= token[relay[x].agg][relay[x].ver]
  BY <1>4, RelayAssumption DEF Claiming, Others, TypeInv, TypeOK, CallOK, Call, TokenInv
<1>6. TokenInv'
  <2>1. \A x \in Workers \ {w} : Claiming(x)' =>
           relay'[x].token <= token'[relay'[x].agg][relay'[x].ver]
    BY <1>1, <1>2, <1>3, <1>5, SMTT(60)
  <2>2. relay'[w].token <= token'[relay'[w].agg][relay'[w].ver]
    BY <1>1, <1>2, <1>3, <1>4
  <2> QED
    BY <2>1, <2>2 DEF TokenInv, Claiming
<1>7. OneClaimHolder'
  <2> SUFFICES ASSUME NEW b \in Aggregates, NEW u \in Versions,
                      NEW x \in Workers, NEW y \in Workers,
                      Claiming(x)', Claiming(y)',
                      relay'[x].agg = b, relay'[x].ver = u,
                      relay'[y].agg = b, relay'[y].ver = u,
                      relay'[x].token = relay'[y].token
               PROVE  x = y
    BY DEF OneClaimHolder, Claiming
  <2>1. CASE x # w /\ y # w
    BY <1>5, <2>1 DEF OneClaimHolder, Claiming
  <2>2. CASE x = w /\ y # w
    BY <1>1, <1>3, <1>4, <1>5, <2>2
  <2>3. CASE x # w /\ y = w
    BY <1>1, <1>3, <1>4, <1>5, <2>3
  <2> QED
    BY <2>1, <2>2, <2>3
<1> QED
  BY <1>6, <1>7

LEMMA NextTokens ==
    ASSUME TypeInv, TokenInv, OneClaimHolder, [Next]_vars
    PROVE  TokenInv' /\ OneClaimHolder'
<1>pub. ASSUME NEW a \in Aggregates, Publish(a) PROVE TokenInv' /\ OneClaimHolder'
  BY <1>pub DEF Publish, claimVars, TokenInv, OneClaimHolder, Claiming
<1>ln. ASSUME NEW w \in Workers, LoadNext(w)
      PROVE  TokenInv' /\ OneClaimHolder'
  <2>1. PICK b \in Aggregates, u \in Versions :
           relay' = [relay EXCEPT ![w] =
                       [NoCall EXCEPT !.stage = "loaded", !.agg = b, !.ver = u]]
    BY <1>ln, Zenon DEF LoadNext
  <2> QED
    BY <1>ln, <2>1, LoadShape, TokensKept, Zenon DEF LoadNext, claimVars
<1>le. ASSUME NEW w \in Workers, NEW a \in Aggregates, NEW v \in Versions, LoadEvent(w, a, v)
      PROVE  TokenInv' /\ OneClaimHolder'
  <2>1. PICK b \in Aggregates, u \in Versions :
           relay' = [relay EXCEPT ![w] =
                       [NoCall EXCEPT !.stage = "loaded", !.agg = b, !.ver = u]]
    BY <1>le, Zenon DEF LoadEvent
  <2> QED
    BY <1>le, <2>1, LoadShape, TokensKept, ZenonT(60) DEF LoadEvent, claimVars
<1>nr. ASSUME NEW w \in Workers, NothingToRelay(w) PROVE TokenInv' /\ OneClaimHolder'
  BY <1>nr DEF NothingToRelay, vars, TokenInv, OneClaimHolder, Claiming
<1>cl. ASSUME NEW w \in Workers, Claim(w) PROVE TokenInv' /\ OneClaimHolder'
  BY <1>cl, TokensClaimed
<1>cb. ASSUME NEW w \in Workers, ClaimBusy(w) PROVE TokenInv' /\ OneClaimHolder'
  <2>1. Others(w) /\ relay'[w].stage = "idle" /\ UNCHANGED token
    BY <1>cb, EndShape DEF ClaimBusy, claimVars
  <2> QED
    BY <2>1, TokensKept
<1>su. ASSUME NEW w \in Workers, SupersedeLeases(w) PROVE TokenInv' /\ OneClaimHolder'
  <2>1. Others(w) /\ SameEvent(w)
    BY <1>su, StageShape, ZenonT(60) DEF SupersedeLeases, Stages
  <2>2. Claiming(w) /\ UNCHANGED token
    BY <1>su, ZenonT(60) DEF SupersedeLeases, Claiming, claimVars
  <2> QED
    BY <2>1, <2>2, TokensKept
<1>st. ASSUME NEW w \in Workers, StartAttempt(w) PROVE TokenInv' /\ OneClaimHolder'
  <2>1. Len(attempts[relay[w].agg][relay[w].ver]) + 1 \in Nat
    BY <1>st DEF StartAttempt, TypeInv, TypeOK, CallOK
  <2> QED
    BY <1>st, <2>1, StageShape, TokensKept, Zenon DEF StartAttempt, claimVars, Claiming, Stages
<1>is. ASSUME NEW w \in Workers, Isolate(w) PROVE TokenInv' /\ OneClaimHolder'
  <2>1. Others(w) /\ relay'[w].stage = "idle" /\ UNCHANGED token
    BY <1>is, EndShape DEF Isolate, claimVars
  <2> QED
    BY <2>1, TokensKept
<1>bd. ASSUME NEW w \in Workers, BeginDelivery(w) PROVE TokenInv' /\ OneClaimHolder'
  <2>1. Others(w) /\ SameEvent(w)
    BY <1>bd, StageShape DEF BeginDelivery, Stages
  <2>2. Claiming(w) /\ UNCHANGED token
    BY <1>bd DEF BeginDelivery, Claiming, claimVars
  <2> QED
    BY <2>1, <2>2, TokensKept
<1>sp. ASSUME NEW w \in Workers, SkipProcessed(w) PROVE TokenInv' /\ OneClaimHolder'
  BY <1>sp, ConsumerShape, TokensKept DEF SkipProcessed, claimVars, Claiming
<1>cc. ASSUME NEW w \in Workers, ConsumeCommit(w) PROVE TokenInv' /\ OneClaimHolder'
  BY <1>cc, ConsumerShape, TokensKept DEF ConsumeCommit, claimVars, Claiming
<1>cr. ASSUME NEW w \in Workers, ConsumeRead(w) PROVE TokenInv' /\ OneClaimHolder'
  <2>1. Others(w) /\ SameEvent(w)
    BY <1>cr, StageShape, ZenonT(60) DEF ConsumeRead, Stages, Fail, Failures
  <2>2. Claiming(w) /\ UNCHANGED token
    BY <1>cr DEF ConsumeRead, Claiming, claimVars
  <2> QED
    BY <2>1, <2>2, TokensKept
<1>cw. ASSUME NEW w \in Workers, ConsumeWrite(w) PROVE TokenInv' /\ OneClaimHolder'
  <2>1. Others(w) /\ SameEvent(w)
    BY <1>cw, StageShape DEF ConsumeWrite, Stages
  <2>2. Claiming(w) /\ UNCHANGED token
    BY <1>cw DEF ConsumeWrite, Claiming, claimVars
  <2> QED
    BY <2>1, <2>2, TokensKept
<1>re. ASSUME NEW w \in Workers, ConsumeRecheck(w) PROVE TokenInv' /\ OneClaimHolder'
  <2>1. Others(w) /\ SameEvent(w)
    BY <1>re, StageShape DEF ConsumeRecheck, Stages
  <2>2. Claiming(w) /\ UNCHANGED token
    BY <1>re DEF ConsumeRecheck, Claiming, claimVars
  <2> QED
    BY <2>1, <2>2, TokensKept
<1>cf. ASSUME NEW w \in Workers, ConsumeConflict(w) PROVE TokenInv' /\ OneClaimHolder'
  <2>1. Others(w) /\ relay'[w].stage = "idle" /\ UNCHANGED token
    BY <1>cf, EndShape, Zenon DEF ConsumeConflict, claimVars
  <2> QED
    BY <2>1, TokensKept
<1>ll. ASSUME NEW w \in Workers, LeaseLost(w) PROVE TokenInv' /\ OneClaimHolder'
  <2>1. Others(w) /\ SameEvent(w)
    BY <1>ll, StageShape, Zenon DEF LeaseLost, Stages, Fail, Failures
  <2>2. Claiming(w) /\ UNCHANGED token
    BY <1>ll DEF LeaseLost, Claiming, claimVars
  <2> QED
    BY <2>1, <2>2, TokensKept
<1>ak. ASSUME NEW w \in Workers, Ack(w) PROVE TokenInv' /\ OneClaimHolder'
  <2>1. Others(w) /\ relay'[w].stage = "idle" /\ UNCHANGED token
    BY <1>ak, EndShape DEF Ack, claimVars
  <2> QED
    BY <2>1, TokensKept
<1>ar. ASSUME NEW w \in Workers, AckRefused(w) PROVE TokenInv' /\ OneClaimHolder'
  <2>1. Others(w) /\ relay'[w].stage = "idle" /\ UNCHANGED token
    BY <1>ar, EndShape DEF AckRefused, claimVars
  <2> QED
    BY <2>1, TokensKept
<1>ff. ASSUME NEW w \in Workers, FinishFailure(w) PROVE TokenInv' /\ OneClaimHolder'
  <2>1. Others(w) /\ relay'[w].stage = "idle" /\ UNCHANGED token
    BY <1>ff, EndShape, Zenon DEF FinishFailure, claimVars
  <2> QED
    BY <2>1, TokensKept
<1>ft. ASSUME NEW w \in Workers, Fault(w) PROVE TokenInv' /\ OneClaimHolder'
  <2>1. Others(w) /\ SameEvent(w)
    BY <1>ft, StageShape, Zenon DEF Fault, Stages, Fail, Failures
  <2>2. Claiming(w) /\ UNCHANGED token
    BY <1>ft DEF Fault, Claiming, claimVars
  <2> QED
    BY <2>1, <2>2, TokensKept
<1>cs. ASSUME NEW w \in Workers, Crash(w) PROVE TokenInv' /\ OneClaimHolder'
  <2>1. Others(w) /\ relay'[w].stage = "idle" /\ UNCHANGED token
    BY <1>cs, EndShape DEF Crash, claimVars
  <2> QED
    BY <2>1, TokensKept
<1>la. ASSUME NEW w \in Workers, NEW a \in Aggregates, NEW v \in Versions,
             Lapse(w, a, v)
      PROVE  TokenInv' /\ OneClaimHolder'
  BY <1>la DEF Lapse, TokenInv, OneClaimHolder, Claiming
<1>id. CASE UNCHANGED vars
  BY <1>id DEF vars, TokenInv, OneClaimHolder, Claiming
<1> QED
  BY <1>pub, <1>ln, <1>le, <1>nr, <1>cl, <1>cb, <1>bd, <1>cw, <1>re, <1>sp, <1>cr,
     <1>ll, <1>ft, <1>cf, <1>cs, <1>cc, <1>su, <1>st, <1>is, <1>ak, <1>ar, <1>ff,
     <1>la, <1>id
  DEF Next, Advance

\* Status changes only by publication and, under a held claim, by isolation and
\* acknowledgement.
LEMMA NextStatus ==
    ASSUME TypeInv, StatusInv, [Next]_vars
    PROVE  StatusInv'
<1>0. \A a \in Aggregates : published[a] \in Nat
  BY RelayAssumption DEF TypeInv, TypeOK
<1>pub. ASSUME NEW a \in Aggregates, Publish(a) PROVE StatusInv'
  <2>1. /\ \A b \in Aggregates : published'[b] = IF b = a THEN published[a] + 1
                                                          ELSE published[b]
        /\ \A b \in Aggregates, u \in Versions :
              status'[b][u] = IF b = a /\ u = published[a] + 1 THEN "pending"
                                                              ELSE status[b][u]
    BY <1>pub DEF Publish, TypeInv, TypeOK
  <2>2. \A u \in Versions : u \in Nat
    BY DEF Versions
  <2> QED
    BY <1>pub, <1>0, <2>1, <2>2 DEF Publish, StatusInv, claimVars
<1>is. ASSUME NEW w \in Workers, Isolate(w) PROVE StatusInv'
  <2> DEFINE a == relay[w].agg
             v == relay[w].ver
  <2>1. a \in Aggregates /\ v \in Versions
    BY <1>is DEF Isolate, TypeInv, CallOK
  <2>2. CASE HoldsClaim(w, a, v)
    <3>1. status[a][v] = "pending"
      BY <2>1, <2>2, RelayAssumption DEF HoldsClaim, StatusInv
    <3>2. status' = [status EXCEPT ![a][v] = "isolated"] /\ Release(a, v)
      BY <1>is, <2>2 DEF Isolate
    <3>3. \A b \in Aggregates, u \in Versions :
             /\ status'[b][u] = IF b = a /\ u = v THEN "isolated" ELSE status[b][u]
             /\ claimedBy'[b][u] = IF b = a /\ u = v THEN None ELSE claimedBy[b][u]
      BY <2>1, <3>2 DEF Release, TypeInv, TypeOK
    <3> QED
      BY <1>is, <2>1, <3>1, <3>3 DEF Isolate, StatusInv
  <2>3. CASE ~HoldsClaim(w, a, v)
    BY <1>is, <2>3 DEF Isolate, StatusInv
  <2> QED
    BY <2>2, <2>3
<1>ak. ASSUME NEW w \in Workers, Ack(w) PROVE StatusInv'
  <2> DEFINE a == relay[w].agg
             v == relay[w].ver
  <2>1. a \in Aggregates /\ v \in Versions
    BY <1>ak DEF Ack, TypeInv, CallOK
  <2>2. CASE HoldsClaim(w, a, v)
    <3>1. status[a][v] = "pending"
      BY <2>1, <2>2, RelayAssumption DEF HoldsClaim, StatusInv
    <3>2. status' = [status EXCEPT ![a][v] = "delivered"] /\ Release(a, v)
      BY <1>ak, <2>2 DEF Ack
    <3>3. \A b \in Aggregates, u \in Versions :
             /\ status'[b][u] = IF b = a /\ u = v THEN "delivered" ELSE status[b][u]
             /\ claimedBy'[b][u] = IF b = a /\ u = v THEN None ELSE claimedBy[b][u]
      BY <2>1, <3>2 DEF Release, TypeInv, TypeOK
    <3> QED
      BY <1>ak, <2>1, <3>1, <3>3 DEF Ack, StatusInv
  <2> QED
    BY <1>ak, <2>2 DEF Ack, CurrentClaim
<1>cl. ASSUME NEW w \in Workers, Claim(w) PROVE StatusInv'
  <2>1. relay[w].agg \in Aggregates /\ relay[w].ver \in Versions
    BY <1>cl DEF Claim, TypeInv, CallOK
  <2>2. \A b \in Aggregates, u \in Versions :
           claimedBy'[b][u] = IF b = relay[w].agg /\ u = relay[w].ver
                              THEN w ELSE claimedBy[b][u]
    BY <1>cl, <2>1 DEF Claim, TypeInv, TypeOK
  <2> QED
    BY <1>cl, <2>2 DEF Claim, Claimable, StatusInv, eventVars
<1>ff. ASSUME NEW w \in Workers, FinishFailure(w) PROVE StatusInv'
  <2>1. relay[w].agg \in Aggregates /\ relay[w].ver \in Versions
    BY <1>ff DEF FinishFailure, TypeInv, CallOK
  <2>2. \A b \in Aggregates, u \in Versions :
           claimedBy'[b][u] \in {None, claimedBy[b][u]}
    <3>1. CASE HoldsClaim(w, relay[w].agg, relay[w].ver)
      <4>1. Release(relay[w].agg, relay[w].ver)
        BY <1>ff, <3>1 DEF FinishFailure
      <4> QED
        BY <2>1, <4>1 DEF Release, TypeInv, TypeOK
    <3>2. CASE ~HoldsClaim(w, relay[w].agg, relay[w].ver)
      BY <1>ff, <3>2 DEF FinishFailure
    <3> QED
      BY <3>1, <3>2
  <2> QED
    BY <1>ff, <2>2 DEF FinishFailure, StatusInv, eventVars
<1>ot. ASSUME NEW w \in Workers,
             \/ LoadNext(w)
             \/ NothingToRelay(w)
             \/ ClaimBusy(w)
             \/ SupersedeLeases(w)
             \/ StartAttempt(w)
             \/ BeginDelivery(w)
             \/ SkipProcessed(w)
             \/ ConsumeRead(w)
             \/ ConsumeWrite(w)
             \/ ConsumeRecheck(w)
             \/ ConsumeCommit(w)
             \/ ConsumeConflict(w)
             \/ LeaseLost(w)
             \/ AckRefused(w)
             \/ Fault(w)
             \/ Crash(w)
      PROVE  StatusInv'
  <2>1. UNCHANGED <<published, status, claimedBy>>
    BY <1>ot, Zenon DEF LoadNext, NothingToRelay, ClaimBusy, SupersedeLeases, StartAttempt, BeginDelivery,
      SkipProcessed, ConsumeRead, ConsumeWrite, ConsumeRecheck, ConsumeCommit,
      ConsumeConflict, LeaseLost, AckRefused, Fault, Crash, eventVars, claimVars, vars
  <2> QED
    BY <2>1 DEF StatusInv
<1>en. ASSUME NEW w \in Workers, NEW a \in Aggregates, NEW v \in Versions,
             LoadEvent(w, a, v) \/ Lapse(w, a, v)
      PROVE  StatusInv'
  BY <1>en DEF LoadEvent, Lapse, StatusInv, eventVars, claimVars
<1>id. CASE UNCHANGED vars
  BY <1>id DEF vars, StatusInv
<1> QED
  BY <1>pub, <1>is, <1>ak, <1>cl, <1>ff, <1>ot, <1>en, <1>id DEF Next, Advance

-----------------------------------------------------------------------------
(* Attempts: a call that records one finds it under its own token, and     *)
(* once an event is delivered no call on it holds the token that won.      *)

Attempting(w) == Claiming(w) /\ relay[w].stage \notin {"claimed", "recovered"}
Wins(a, v) == {n \in DOMAIN attempts[a][v] : attempts[a][v][n].status = "delivered"}

AttemptOwned ==
    \A w \in Workers : Attempting(w) =>
        /\ relay[w].attempt \in DOMAIN attempts[relay[w].agg][relay[w].ver]
        /\ attempts[relay[w].agg][relay[w].ver][relay[w].attempt].token = relay[w].token

WinnerGone ==
    \A w \in Workers :
        Claiming(w) /\ Delivered(relay[w].agg, relay[w].ver) =>
            relay[w].token # token[relay[w].agg][relay[w].ver]

AttemptInv == AttemptOwned /\ WinnerGone /\ DeliveredByLastClaim

\* No attempt is dropped or given another token, and none becomes or ceases to
\* be a delivered one.
Grow == \A a \in Aggregates, v \in Versions : \A n \in DOMAIN attempts[a][v] :
            /\ n \in DOMAIN attempts'[a][v]
            /\ attempts'[a][v][n].token = attempts[a][v][n].token
SameWins == \A a \in Aggregates, v \in Versions : Wins(a, v)' = Wins(a, v)

LEMMA UnchangedAttempts ==
    ASSUME UNCHANGED attempts
    PROVE  Grow /\ SameWins
  BY DEF Grow, SameWins, Wins

\* A call that goes on keeps the number of its attempt.
LEMMA AttemptShape ==
    ASSUME TypeInv, NEW w \in Workers, NEW s \in Stages,
           \/ relay' = [relay EXCEPT ![w].stage = s]
           \/ relay' = AfterConsumer(w)
           \/ \E f \in Failures : relay' = Fail(w, f)
    PROVE  relay'[w].attempt = relay[w].attempt
<1>1. relay \in [Workers -> Call]
  BY DEF TypeInv, TypeOK
<1>2. CASE relay' = [relay EXCEPT ![w].stage = s]
  BY <1>1, <1>2 DEF Call
<1>3. CASE relay' = AfterConsumer(w)
  BY <1>1, <1>3 DEF AfterConsumer, Call
<1>4. ASSUME NEW f \in Failures, relay' = Fail(w, f)
      PROVE  relay'[w].attempt = relay[w].attempt
  <2> DEFINE q == [relay[w] EXCEPT !.stage = "failing", !.failure = f]
  <2>1. relay' = [relay EXCEPT ![w] = q]
    BY <1>4 DEF Fail
  <2>2. q.attempt = relay[w].attempt
    BY <1>1 DEF Call
  <2> HIDE DEF q
  <2> QED
    BY <1>1, <2>1, <2>2
<1> QED
  BY <1>2, <1>3, <1>4

\* A step of one call that neither claims nor delivers an event.
LEMMA AttemptsKept ==
    ASSUME TypeInv, AttemptInv, NEW w \in Workers,
           UNCHANGED token, Grow, SameWins, Others(w),
           \A a \in Aggregates, v \in Versions :
              /\ Delivered(a, v)' <=> Delivered(a, v)
              /\ Delivered(a, v) => claimedBy'[a][v] = claimedBy[a][v],
           \/ relay'[w].stage \in {"idle", "loaded"}
           \/ /\ SameEvent(w) /\ Claiming(w)
              /\ Attempting(w)' =>
                    \/ Attempting(w) /\ relay'[w].attempt = relay[w].attempt
                    \/ /\ relay'[w].attempt \in DOMAIN attempts'[relay[w].agg][relay[w].ver]
                       /\ attempts'[relay[w].agg][relay[w].ver][relay'[w].attempt].token
                            = relay[w].token
    PROVE  AttemptInv'
<1>1. \A x \in Workers : Claiming(x) => relay[x].agg \in Aggregates /\ relay[x].ver \in Versions
  BY DEF TypeInv, CallOK, Claiming
<1>2. \A x \in Workers : Claiming(x)' => Claiming(x) /\ SameEvent(x)
  BY DEF Others, SameEvent, Claiming
<1>3. AttemptOwned'
  <2>1. ASSUME NEW x \in Workers, Attempting(x), relay'[x].attempt = relay[x].attempt,
               SameEvent(x)
        PROVE  /\ relay'[x].attempt \in DOMAIN attempts'[relay'[x].agg][relay'[x].ver]
               /\ attempts'[relay'[x].agg][relay'[x].ver][relay'[x].attempt].token
                     = relay'[x].token
    <3>1. relay[x].agg \in Aggregates /\ relay[x].ver \in Versions
      BY <1>1, <2>1 DEF Attempting
    <3>2. /\ relay[x].attempt \in DOMAIN attempts[relay[x].agg][relay[x].ver]
          /\ attempts[relay[x].agg][relay[x].ver][relay[x].attempt].token = relay[x].token
      BY <2>1 DEF AttemptInv, AttemptOwned
    <3> QED
      BY <2>1, <3>1, <3>2 DEF Grow, SameEvent
  <2>2. ASSUME NEW x \in Workers, Attempting(x)'
        PROVE  /\ relay'[x].attempt \in DOMAIN attempts'[relay'[x].agg][relay'[x].ver]
               /\ attempts'[relay'[x].agg][relay'[x].ver][relay'[x].attempt].token
                     = relay'[x].token
    <3>1. CASE x # w
      BY <2>1, <2>2, <3>1 DEF Others, SameEvent, Attempting, Claiming
    <3>2. CASE x = w
      BY <2>1, <2>2, <3>2 DEF Attempting, Claiming, SameEvent
    <3> QED
      BY <3>1, <3>2
  <2> QED
    BY <2>2 DEF AttemptOwned
<1>4. WinnerGone'
  <2> SUFFICES ASSUME NEW x \in Workers, Claiming(x)',
                      status'[relay'[x].agg][relay'[x].ver] = "delivered"
               PROVE  relay'[x].token # token'[relay'[x].agg][relay'[x].ver]
    BY DEF WinnerGone, Delivered
  <2>1. Claiming(x) /\ SameEvent(x)
    BY <1>2
  <2>2. Delivered(relay[x].agg, relay[x].ver)
    BY <1>1, <2>1 DEF SameEvent, Delivered
  <2> QED
    BY <2>1, <2>2 DEF AttemptInv, WinnerGone, SameEvent
<1>5. DeliveredByLastClaim'
  <2> SUFFICES ASSUME NEW a \in Aggregates, NEW v \in Versions
               PROVE  IF Delivered(a, v)'
                      THEN /\ claimedBy'[a][v] = None
                           /\ \E n \in Wins(a, v)' :
                                 /\ Wins(a, v)' = {n}
                                 /\ attempts'[a][v][n].token = token'[a][v]
                      ELSE Wins(a, v)' = {}
    BY DEF DeliveredByLastClaim, Wins, Delivered
  <2>1. Wins(a, v)' = Wins(a, v) /\ Wins(a, v) \subseteq DOMAIN attempts[a][v]
    BY DEF SameWins, Wins
  <2>2. CASE Delivered(a, v)
    <3>1. /\ claimedBy[a][v] = None
          /\ \E n \in Wins(a, v) : Wins(a, v) = {n} /\ attempts[a][v][n].token = token[a][v]
      BY <2>2 DEF AttemptInv, DeliveredByLastClaim, Wins
    <3> QED
      BY <2>1, <2>2, <3>1 DEF Grow
  <2>3. CASE ~Delivered(a, v)
    <3>1. Wins(a, v) = {}
      BY <2>3 DEF AttemptInv, DeliveredByLastClaim, Wins
    <3> QED
      BY <2>1, <2>3, <3>1
  <2> QED
    BY <2>2, <2>3
<1> QED
  BY <1>3, <1>4, <1>5 DEF AttemptInv

\* A call may overwrite only its own attempt, which is not the one that
\* delivered the event.
LEMMA AttemptRewritten ==
    ASSUME TypeInv, AttemptInv, NEW w \in Workers, Attempting(w),
           NEW s \in AttemptStatuses, s # "delivered",
           SetAttempt(w, relay[w].agg, relay[w].ver, s)
    PROVE  Grow /\ SameWins
<1> DEFINE a == relay[w].agg
           v == relay[w].ver
           i == relay[w].attempt
<1>1. a \in Aggregates /\ v \in Versions
  BY DEF TypeInv, CallOK, Attempting, Claiming
<1>2. /\ i \in DOMAIN attempts[a][v]
      /\ attempts[a][v][i].token = relay[w].token
  BY DEF AttemptInv, AttemptOwned
<1>3. i \notin Wins(a, v)
  <2>1. CASE Delivered(a, v)
    <3>1. relay[w].token # token[a][v]
      BY <2>1 DEF AttemptInv, WinnerGone, Attempting
    <3>2. \A n \in Wins(a, v) : attempts[a][v][n].token = token[a][v]
      BY <1>1, <2>1 DEF AttemptInv, DeliveredByLastClaim, Wins
    <3> QED
      BY <1>2, <3>1, <3>2
  <2>2. CASE ~Delivered(a, v)
    BY <1>1, <2>2 DEF AttemptInv, DeliveredByLastClaim, Wins
  <2> QED
    BY <2>1, <2>2
<1>4. attempts[a][v] \in Seq(Attempt)
  BY <1>1 DEF TypeInv, TypeOK
<1>5. attempts[a][v][i] \in Attempt
  BY <1>2, <1>4, ElementOfSeq
<1>6. PICK new : new = [attempts[a][v][i] EXCEPT !.status = s]
  OBVIOUS
<1>7. new.status = s /\ new.token = attempts[a][v][i].token
  BY <1>5, <1>6 DEF Attempt
<1>8. PICK row : row = [attempts[a][v] EXCEPT ![i] = new]
  OBVIOUS
<1>9. attempts' = [attempts EXCEPT ![a][v] = row]
  BY <1>6, <1>8 DEF SetAttempt
<1>10. \A b \in Aggregates, u \in Versions :
          attempts'[b][u] = IF b = a /\ u = v THEN row ELSE attempts[b][u]
  <2> HIDE DEF a, v
  <2> QED
    BY <1>1, <1>9 DEF TypeInv, TypeOK
<1>11. /\ DOMAIN row = DOMAIN attempts[a][v]
       /\ \A n \in DOMAIN row : row[n] = IF n = i THEN new ELSE attempts[a][v][n]
  BY <1>8
<1>12. Grow
  <2> HIDE DEF a, v, i
  <2> QED
    BY <1>7, <1>10, <1>11 DEF Grow
<1>13. SameWins
  <2> SUFFICES ASSUME NEW b \in Aggregates, NEW u \in Versions
               PROVE  Wins(b, u)' = Wins(b, u)
    BY DEF SameWins
  <2> HIDE DEF a, v, i
  <2>1. CASE b = a /\ u = v
    <3>1. /\ attempts'[b][u] = row
          /\ \A n \in DOMAIN row : row[n].status = "delivered" <=>
                                      attempts[b][u][n].status = "delivered"
      BY <1>3, <1>7, <1>10, <1>11, <1>2, <2>1 DEF Wins
    <3> QED
      BY <1>11, <2>1, <3>1 DEF Wins
  <2>2. CASE ~(b = a /\ u = v)
    BY <1>10, <2>2 DEF Wins
  <2> QED
    BY <2>1, <2>2
<1> QED
  BY <1>12, <1>13

\* A claim is of an event that is pending, and starts without an attempt.
LEMMA AttemptsClaimed ==
    ASSUME TypeInv, AttemptInv, NEW w \in Workers, Claim(w)
    PROVE  AttemptInv'
<1> DEFINE a == relay[w].agg
           v == relay[w].ver
<1>1. a \in Aggregates /\ v \in Versions /\ ~Delivered(a, v)
  BY DEF Claim, Claimable, Delivered, TypeInv, CallOK
<1>2. Others(w) /\ relay'[w].stage = "claimed" /\ relay'[w].agg = a /\ relay'[w].ver = v
  BY ClaimShape
<1>3. UNCHANGED <<attempts, status>>
  BY DEF Claim, eventVars
<1>4. \A b \in Aggregates, u \in Versions : ~(b = a /\ u = v) =>
         token'[b][u] = token[b][u] /\ claimedBy'[b][u] = claimedBy[b][u]
  <2> HIDE DEF a, v
  <2> QED
    BY <1>1 DEF Claim, TypeInv, TypeOK, a, v
<1>5. AttemptOwned'
  <2> SUFFICES ASSUME NEW x \in Workers, Attempting(x)'
               PROVE  /\ relay'[x].attempt \in DOMAIN attempts'[relay'[x].agg][relay'[x].ver]
                      /\ attempts'[relay'[x].agg][relay'[x].ver][relay'[x].attempt].token
                            = relay'[x].token
    BY DEF AttemptOwned
  <2>1. x # w
    BY <1>2 DEF Attempting
  <2>2. relay'[x] = relay[x] /\ Attempting(x)
    BY <1>2, <2>1 DEF Others, Attempting, Claiming
  <2> QED
    BY <1>3, <2>2 DEF AttemptInv, AttemptOwned
<1>6. WinnerGone'
  <2> SUFFICES ASSUME NEW x \in Workers, Claiming(x)',
                      status'[relay'[x].agg][relay'[x].ver] = "delivered"
               PROVE  relay'[x].token # token'[relay'[x].agg][relay'[x].ver]
    BY DEF WinnerGone, Delivered
  <2>1. x # w
    BY <1>1, <1>2, <1>3 DEF Delivered
  <2>2. relay'[x] = relay[x] /\ Claiming(x)
    BY <1>2, <2>1 DEF Others, Claiming
  <2>3. relay[x].agg \in Aggregates /\ relay[x].ver \in Versions
    BY <2>2 DEF TypeInv, CallOK, Claiming
  <2>4. Delivered(relay[x].agg, relay[x].ver)
    BY <1>3, <2>2 DEF Delivered
  <2>5. ~(relay[x].agg = a /\ relay[x].ver = v)
    BY <1>1, <2>4
  <2> HIDE DEF a, v
  <2> QED
    BY <1>4, <2>2, <2>3, <2>4, <2>5 DEF AttemptInv, WinnerGone
<1>7. DeliveredByLastClaim'
  <2> SUFFICES ASSUME NEW b \in Aggregates, NEW u \in Versions
               PROVE  IF Delivered(b, u)'
                      THEN /\ claimedBy'[b][u] = None
                           /\ \E n \in Wins(b, u)' :
                                 /\ Wins(b, u)' = {n}
                                 /\ attempts'[b][u][n].token = token'[b][u]
                      ELSE Wins(b, u)' = {}
    BY DEF DeliveredByLastClaim, Wins, Delivered
  <2>1. Wins(b, u)' = Wins(b, u) /\ (Delivered(b, u)' <=> Delivered(b, u))
    BY <1>3 DEF Wins, Delivered
  <2>2. CASE Delivered(b, u)
    <3>1. ~(b = a /\ u = v)
      BY <1>1, <2>2
    <3>2. /\ claimedBy[b][u] = None
          /\ \E n \in Wins(b, u) : Wins(b, u) = {n} /\ attempts[b][u][n].token = token[b][u]
      BY <2>2 DEF AttemptInv, DeliveredByLastClaim, Wins
    <3> HIDE DEF a, v
    <3> QED
      BY <1>3, <1>4, <2>1, <2>2, <3>1, <3>2
  <2>3. CASE ~Delivered(b, u)
    <3>1. Wins(b, u) = {}
      BY <2>3 DEF AttemptInv, DeliveredByLastClaim, Wins
    <3> QED
      BY <2>1, <2>3, <3>1
  <2> QED
    BY <2>2, <2>3
<1> QED
  BY <1>5, <1>6, <1>7 DEF AttemptInv

\* The acknowledgement delivers the event under the claim that holds its last
\* token, and no other call holds that token.
LEMMA AttemptsDelivered ==
    ASSUME TypeInv, ClaimInv, AttemptInv, NEW w \in Workers, Ack(w)
    PROVE  AttemptInv'
<1> DEFINE a == relay[w].agg
           v == relay[w].ver
           i == relay[w].attempt
<1>1. a \in Aggregates /\ v \in Versions /\ Claiming(w) /\ Attempting(w)
  BY DEF Ack, TypeInv, CallOK, Claiming, Attempting
<1>2. claimedBy[a][v] = w /\ token[a][v] = relay[w].token /\ w # None
  BY RelayAssumption DEF Ack, CurrentClaim, HoldsClaim
<1>3. ~Delivered(a, v)
  BY <1>1, <1>2 DEF ClaimInv, StatusInv, Delivered
<1>4. Others(w) /\ relay'[w].stage = "idle" /\ UNCHANGED token
  BY EndShape DEF Ack
<1>5. /\ i \in DOMAIN attempts[a][v] /\ attempts[a][v][i].token = relay[w].token
      /\ Wins(a, v) = {}
  BY <1>1, <1>3 DEF AttemptInv, AttemptOwned, DeliveredByLastClaim, Wins
<1>6. attempts[a][v] \in Seq(Attempt)
  BY <1>1 DEF TypeInv, TypeOK
<1>7. attempts[a][v][i] \in Attempt
  BY <1>5, <1>6, ElementOfSeq
<1>8. PICK new : new = [attempts[a][v][i] EXCEPT !.status = "delivered"]
  OBVIOUS
<1>9. new.status = "delivered" /\ new.token = relay[w].token
  BY <1>5, <1>7, <1>8 DEF Attempt
<1>10. PICK row : row = [attempts[a][v] EXCEPT ![i] = new]
  OBVIOUS
<1>11. /\ attempts' = [attempts EXCEPT ![a][v] = row]
       /\ status' = [status EXCEPT ![a][v] = "delivered"]
       /\ claimedBy' = [claimedBy EXCEPT ![a][v] = None]
  BY <1>8, <1>10 DEF Ack, SetAttempt, Release
<1>12. \A b \in Aggregates, u \in Versions :
          IF b = a /\ u = v
          THEN /\ attempts'[b][u] = row /\ status'[b][u] = "delivered"
               /\ claimedBy'[b][u] = None
          ELSE /\ attempts'[b][u] = attempts[b][u] /\ status'[b][u] = status[b][u]
               /\ claimedBy'[b][u] = claimedBy[b][u]
  <2> HIDE DEF a, v
  <2> QED
    BY <1>1, <1>11 DEF TypeInv, TypeOK
<1>13. /\ DOMAIN row = DOMAIN attempts[a][v]
       /\ \A n \in DOMAIN row : row[n] = IF n = i THEN new ELSE attempts[a][v][n]
  BY <1>10
<1>14. \A x \in Workers : Claiming(x)' =>
          /\ x # w /\ Claiming(x) /\ relay'[x] = relay[x]
          /\ relay[x].agg \in Aggregates /\ relay[x].ver \in Versions
          /\ relay[x].agg = a /\ relay[x].ver = v => relay[x].token # relay[w].token
  BY <1>1, <1>4 DEF Others, Claiming, TypeInv, CallOK, ClaimInv, OneClaimHolder
<1>15. Grow
  <2> HIDE DEF a, v, i
  <2> QED
    BY <1>5, <1>9, <1>12, <1>13 DEF Grow
<1>16. AttemptOwned'
  <2> SUFFICES ASSUME NEW x \in Workers, Attempting(x)'
               PROVE  /\ relay'[x].attempt \in DOMAIN attempts'[relay'[x].agg][relay'[x].ver]
                      /\ attempts'[relay'[x].agg][relay'[x].ver][relay'[x].attempt].token
                            = relay'[x].token
    BY DEF AttemptOwned
  <2>1. /\ relay'[x] = relay[x] /\ Attempting(x)
        /\ relay[x].agg \in Aggregates /\ relay[x].ver \in Versions
    BY <1>14 DEF Attempting, Claiming
  <2>2. /\ relay[x].attempt \in DOMAIN attempts[relay[x].agg][relay[x].ver]
        /\ attempts[relay[x].agg][relay[x].ver][relay[x].attempt].token = relay[x].token
    BY <2>1 DEF AttemptInv, AttemptOwned
  <2> QED
    BY <1>15, <2>1, <2>2 DEF Grow
<1>17. WinnerGone'
  <2> SUFFICES ASSUME NEW x \in Workers, Claiming(x)',
                      status'[relay'[x].agg][relay'[x].ver] = "delivered"
               PROVE  relay'[x].token # token'[relay'[x].agg][relay'[x].ver]
    BY DEF WinnerGone, Delivered
  <2>1. PICK b \in Aggregates, u \in Versions : b = relay[x].agg /\ u = relay[x].ver
    BY <1>14
  <2>2. /\ Claiming(x) /\ relay'[x] = relay[x] /\ status'[b][u] = "delivered"
        /\ b = a /\ u = v => relay[x].token # relay[w].token
    BY <1>14, <2>1
  <2> HIDE DEF a, v
  <2>3. CASE b = a /\ u = v
    BY <1>2, <1>4, <2>1, <2>2, <2>3
  <2>4. CASE ~(b = a /\ u = v)
    <3>1. Delivered(b, u)
      BY <1>12, <2>2, <2>4 DEF Delivered
    <3> QED
      BY <1>4, <2>1, <2>2, <3>1 DEF AttemptInv, WinnerGone
  <2> QED
    BY <2>3, <2>4
<1>18. DeliveredByLastClaim'
  <2> SUFFICES ASSUME NEW b \in Aggregates, NEW u \in Versions
               PROVE  IF Delivered(b, u)'
                      THEN /\ claimedBy'[b][u] = None
                           /\ \E n \in Wins(b, u)' :
                                 /\ Wins(b, u)' = {n}
                                 /\ attempts'[b][u][n].token = token'[b][u]
                      ELSE Wins(b, u)' = {}
    BY DEF DeliveredByLastClaim, Wins, Delivered
  <2> HIDE DEF a, v, i
  <2>1. CASE b = a /\ u = v
    <3>1. attempts'[b][u] = row /\ claimedBy'[b][u] = None
      BY <1>12, <2>1
    <3>2. \A n \in DOMAIN row : row[n].status = "delivered" <=> n = i
      BY <1>5, <1>9, <1>13 DEF Wins
    <3>3. i \in DOMAIN row /\ row[i].token = token'[b][u]
      BY <1>2, <1>4, <1>5, <1>9, <1>13, <2>1
    <3>4. Wins(b, u)' = {i}
      BY <3>1, <3>2, <3>3 DEF Wins
    <3>5. Delivered(b, u)'
      BY <1>12, <2>1 DEF Delivered
    <3> QED
      BY <3>1, <3>3, <3>4, <3>5
  <2>2. CASE ~(b = a /\ u = v)
    <3>1. /\ Wins(b, u)' = Wins(b, u) /\ attempts'[b][u] = attempts[b][u]
          /\ claimedBy'[b][u] = claimedBy[b][u] /\ (Delivered(b, u)' <=> Delivered(b, u))
      BY <1>12, <2>2 DEF Wins, Delivered
    <3>2. CASE Delivered(b, u)
      BY <1>4, <3>1, <3>2 DEF AttemptInv, DeliveredByLastClaim, Wins
    <3>3. CASE ~Delivered(b, u)
      <4>1. Wins(b, u) = {}
        BY <3>3 DEF AttemptInv, DeliveredByLastClaim, Wins
      <4> QED
        BY <3>1, <3>3, <4>1
    <3> QED
      BY <3>2, <3>3
  <2> QED
    BY <2>1, <2>2
<1> QED
  BY <1>16, <1>17, <1>18 DEF AttemptInv

\* Superseding leases rewrites only attempts that were running.
LEMMA AttemptsSuperseded ==
    ASSUME TypeInv, NEW w \in Workers, SupersedeLeases(w)
    PROVE  Grow /\ SameWins
<1> DEFINE a == relay[w].agg
           v == relay[w].ver
<1>1. a \in Aggregates /\ v \in Versions
  BY DEF SupersedeLeases, TypeInv, CallOK
<1>2. PICK row : row = attempts'[a][v]
  OBVIOUS
<1>3. attempts[a][v] \in Seq(Attempt)
  BY <1>1 DEF TypeInv, TypeOK
<1>4. \A n \in DOMAIN attempts[a][v] : attempts[a][v][n] \in Attempt
  BY <1>3, ElementOfSeq
<1>5. /\ \A b \in Aggregates, u \in Versions : ~(b = a /\ u = v) =>
            attempts'[b][u] = attempts[b][u]
      /\ DOMAIN row = DOMAIN attempts[a][v]
      /\ \A n \in DOMAIN row :
            \/ row[n] = attempts[a][v][n]
            \/ /\ attempts[a][v][n].status = "running"
               /\ row[n] = [attempts[a][v][n] EXCEPT !.status = "superseded"]
  BY <1>1, <1>2 DEF SupersedeLeases, TypeInv, TypeOK
<1>6. \A n \in DOMAIN row :
         /\ row[n].token = attempts[a][v][n].token
         /\ row[n].status = "delivered" <=> attempts[a][v][n].status = "delivered"
  <2> SUFFICES ASSUME NEW n \in DOMAIN row
               PROVE  /\ row[n].token = attempts[a][v][n].token
                      /\ row[n].status = "delivered" <=>
                            attempts[a][v][n].status = "delivered"
    OBVIOUS
  <2>1. PICK old \in Attempt : old = attempts[a][v][n]
    BY <1>4, <1>5
  <2>2. [old EXCEPT !.status = "superseded"].token = old.token
        /\ [old EXCEPT !.status = "superseded"].status = "superseded"
    BY DEF Attempt
  <2>3. row[n] = old \/ (old.status = "running"
                         /\ row[n] = [old EXCEPT !.status = "superseded"])
    BY <1>5, <2>1
  <2> HIDE DEF a, v
  <2> QED
    BY <2>1, <2>2, <2>3
<1> HIDE DEF a, v
<1>7. Grow
  BY <1>2, <1>5, <1>6 DEF Grow
<1>8. SameWins
  <2> SUFFICES ASSUME NEW b \in Aggregates, NEW u \in Versions
               PROVE  Wins(b, u)' = Wins(b, u)
    BY DEF SameWins
  <2>1. CASE b = a /\ u = v
    BY <1>2, <1>5, <1>6, <2>1 DEF Wins
  <2>2. CASE ~(b = a /\ u = v)
    BY <1>5, <2>2 DEF Wins
  <2> QED
    BY <2>1, <2>2
<1> QED
  BY <1>7, <1>8

\* A new attempt is running, under the token of its call.
LEMMA AttemptStarted ==
    ASSUME TypeInv, NEW w \in Workers, StartAttempt(w)
    PROVE  /\ Grow /\ SameWins
           /\ relay'[w].attempt \in DOMAIN attempts'[relay[w].agg][relay[w].ver]
           /\ attempts'[relay[w].agg][relay[w].ver][relay'[w].attempt].token
                 = relay[w].token
<1> DEFINE a == relay[w].agg
           v == relay[w].ver
<1>1. a \in Aggregates /\ v \in Versions
  BY DEF StartAttempt, TypeInv, CallOK
<1>2. PICK old : old = attempts[a][v]
  OBVIOUS
<1>3. PICK e : e = [token |-> relay[w].token, status |-> "running"]
  OBVIOUS
<1>4. e.token = relay[w].token /\ e.status = "running"
  BY <1>3
<1>5. old \in Seq(Attempt)
  BY <1>1, <1>2 DEF TypeInv, TypeOK
<1>6. PICK row : row = Append(old, e)
  OBVIOUS
<1>7. Len(old) \in Nat /\ DOMAIN old = 1..Len(old)
  BY <1>5, LenProperties
<1>8. /\ DOMAIN row = 1..(Len(old) + 1) /\ row[Len(old) + 1] = e
      /\ \A n \in DOMAIN old : row[n] = old[n]
  <2>1. e \in Attempt
    BY <1>3 DEF StartAttempt, TypeInv, CallOK, Attempt, AttemptStatuses
  <2>2. /\ row \in Seq(Attempt) /\ Len(row) = Len(old) + 1
        /\ row[Len(old) + 1] = e /\ \A n \in 1..Len(old) : row[n] = old[n]
    BY <1>5, <1>6, <2>1, AppendProperties
  <2>3. DOMAIN row = 1..Len(row)
    BY <2>2, LenProperties
  <2> QED
    BY <1>7, <2>2, <2>3
<1>9. \A b \in Aggregates, u \in Versions :
         attempts'[b][u] = IF b = a /\ u = v THEN row ELSE attempts[b][u]
  BY <1>1, <1>2, <1>3, <1>6 DEF StartAttempt, TypeInv, TypeOK
<1>10. relay'[w].attempt = Len(old) + 1
  <2>1. relay[w] \in Call
    BY DEF TypeInv, TypeOK
  <2> DEFINE q == [relay[w] EXCEPT !.stage = "started", !.attempt = Len(attempts[a][v]) + 1]
  <2>2. relay' = [relay EXCEPT ![w] = q]
    BY DEF StartAttempt
  <2>3. q.attempt = Len(attempts[a][v]) + 1
    BY <2>1 DEF Call
  <2> HIDE DEF q
  <2> QED
    BY <1>2, <2>2, <2>3 DEF TypeInv, TypeOK
<1> HIDE DEF a, v
<1>11. Grow
  <2>1. \A n \in DOMAIN old : n \in DOMAIN row
    BY <1>7, <1>8
  <2> QED
    BY <1>2, <1>8, <1>9, <2>1 DEF Grow
<1>12. SameWins
  <2> SUFFICES ASSUME NEW b \in Aggregates, NEW u \in Versions
               PROVE  Wins(b, u)' = Wins(b, u)
    BY DEF SameWins
  <2>1. CASE b = a /\ u = v
    <3>1. \A n \in DOMAIN row : n \in DOMAIN old \/ n = Len(old) + 1
      BY <1>7, <1>8
    <3>2. \A n \in DOMAIN old : n \in DOMAIN row
      BY <1>7, <1>8
    <3>3. \A n : (n \in DOMAIN row /\ row[n].status = "delivered") <=>
                 (n \in DOMAIN old /\ old[n].status = "delivered")
      BY <1>4, <1>8, <3>1, <3>2
    <3>4. attempts'[b][u] = row /\ attempts[b][u] = old
      BY <1>2, <1>9, <2>1
    <3> QED
      BY <3>3, <3>4 DEF Wins
  <2>2. CASE ~(b = a /\ u = v)
    BY <1>9, <2>2 DEF Wins
  <2> QED
    BY <2>1, <2>2
<1> QED
  <2>1. attempts'[a][v] = row /\ Len(old) + 1 \in DOMAIN row
    BY <1>1, <1>7, <1>8, <1>9
  <2> QED
    BY <1>4, <1>8, <1>10, <1>11, <1>12, <2>1 DEF a, v

\* The end of a call that does not deliver.
LEMMA AttemptsEnd ==
    ASSUME TypeInv, AttemptInv, NEW w \in Workers,
           UNCHANGED token, Grow, SameWins,
           relay' = [relay EXCEPT ![w] = NoCall],
           \A a \in Aggregates, v \in Versions :
              /\ Delivered(a, v)' <=> Delivered(a, v)
              /\ Delivered(a, v) => claimedBy'[a][v] = claimedBy[a][v]
    PROVE  AttemptInv'
<1>1. Others(w) /\ relay'[w].stage = "idle"
  BY EndShape
<1> QED
  BY <1>1, AttemptsKept

\* A step of a call that writes no attempt, status or claim.
LEMMA AttemptsQuiet ==
    ASSUME TypeInv, AttemptInv, NEW w \in Workers,
           UNCHANGED <<token, attempts, status, claimedBy>>, Others(w),
           \/ relay'[w].stage \in {"idle", "loaded"}
           \/ SameEvent(w) /\ Attempting(w) /\ relay'[w].attempt = relay[w].attempt
    PROVE  AttemptInv'
<1>1. Grow /\ SameWins
  BY UnchangedAttempts
<1>2. \A a \in Aggregates, v \in Versions :
         /\ Delivered(a, v)' <=> Delivered(a, v)
         /\ Delivered(a, v) => claimedBy'[a][v] = claimedBy[a][v]
  BY DEF Delivered
<1>3. Attempting(w) => Claiming(w)
  BY DEF Attempting
<1> QED
  BY <1>1, <1>2, <1>3, AttemptsKept

LEMMA NextAttempts ==
    ASSUME TypeInv, ClaimInv, AttemptInv, [Next]_vars
    PROVE  AttemptInv'
<1>pub. ASSUME NEW a \in Aggregates, Publish(a) PROVE AttemptInv'
  <2>1. /\ UNCHANGED <<claimedBy, token, attempts, relay>>
        /\ \A b \in Aggregates, u \in Versions :
              status'[b][u] = IF b = a /\ u = published[a] + 1 THEN "pending"
                                                              ELSE status[b][u]
    BY <1>pub DEF Publish, TypeInv, TypeOK, claimVars
  <2>2. published[a] \in Nat /\ (published[a] + 1 \in Versions =>
                                    status[a][published[a] + 1] = "absent")
    <3>1. published[a] \in Nat
      BY RelayAssumption DEF TypeInv, TypeOK
    <3> QED
      BY <3>1 DEF ClaimInv, StatusInv
  <2>3. \A b \in Aggregates, u \in Versions : Delivered(b, u)' <=> Delivered(b, u)
    BY <2>1, <2>2 DEF Delivered
  <2>4. AttemptOwned'
    BY <2>1 DEF AttemptInv, AttemptOwned, Attempting, Claiming
  <2>5. WinnerGone'
    <3>1. \A x \in Workers : Claiming(x) => relay[x].agg \in Aggregates /\ relay[x].ver \in Versions
      BY DEF TypeInv, CallOK, Claiming
    <3> SUFFICES ASSUME NEW x \in Workers, Claiming(x)',
                        status'[relay'[x].agg][relay'[x].ver] = "delivered"
                 PROVE  relay'[x].token # token'[relay'[x].agg][relay'[x].ver]
      BY DEF WinnerGone, Delivered
    <3>2. Claiming(x) /\ relay'[x] = relay[x]
      BY <2>1 DEF Claiming
    <3>3. Delivered(relay[x].agg, relay[x].ver)
      BY <2>3, <3>1, <3>2 DEF Delivered
    <3> QED
      BY <2>1, <3>2, <3>3 DEF AttemptInv, WinnerGone
  <2>6. DeliveredByLastClaim'
    <3> SUFFICES ASSUME NEW b \in Aggregates, NEW u \in Versions
                 PROVE  IF Delivered(b, u)'
                        THEN /\ claimedBy'[b][u] = None
                             /\ \E n \in Wins(b, u)' :
                                   /\ Wins(b, u)' = {n}
                                   /\ attempts'[b][u][n].token = token'[b][u]
                        ELSE Wins(b, u)' = {}
      BY DEF DeliveredByLastClaim, Wins, Delivered
    <3>1. Wins(b, u)' = Wins(b, u) /\ (Delivered(b, u)' <=> Delivered(b, u))
      BY <2>1, <2>3 DEF Wins
    <3>2. CASE Delivered(b, u)
      BY <2>1, <3>1, <3>2 DEF AttemptInv, DeliveredByLastClaim, Wins
    <3>3. CASE ~Delivered(b, u)
      <4>1. Wins(b, u) = {}
        BY <3>3 DEF AttemptInv, DeliveredByLastClaim, Wins
      <4> QED
        BY <3>1, <3>3, <4>1
    <3> QED
      BY <3>2, <3>3
  <2> QED
    BY <2>4, <2>5, <2>6 DEF AttemptInv
<1>ln. ASSUME NEW w \in Workers, LoadNext(w) PROVE AttemptInv'
  <2>1. PICK b \in Aggregates, u \in Versions :
           relay' = [relay EXCEPT ![w] =
                       [NoCall EXCEPT !.stage = "loaded", !.agg = b, !.ver = u]]
    BY <1>ln, Zenon DEF LoadNext
  <2>2. Others(w) /\ relay'[w].stage = "loaded"
    BY <2>1, LoadShape
  <2>3. UNCHANGED <<token, attempts, status, claimedBy>>
    BY <1>ln, Zenon DEF LoadNext, eventVars, claimVars
  <2> QED
    BY <2>2, <2>3, AttemptsQuiet
<1>le. ASSUME NEW w \in Workers, NEW a \in Aggregates, NEW v \in Versions, LoadEvent(w, a, v)
      PROVE  AttemptInv'
  <2>1. Others(w) /\ relay'[w].stage = "loaded"
    BY <1>le, LoadShape DEF LoadEvent
  <2>2. UNCHANGED <<token, attempts, status, claimedBy>>
    BY <1>le DEF LoadEvent, eventVars, claimVars
  <2> QED
    BY <2>1, <2>2, AttemptsQuiet
<1>cl. ASSUME NEW w \in Workers, Claim(w) PROVE AttemptInv'
  BY <1>cl, AttemptsClaimed
<1>ak. ASSUME NEW w \in Workers, Ack(w) PROVE AttemptInv'
  BY <1>ak, AttemptsDelivered
<1>su. ASSUME NEW w \in Workers, SupersedeLeases(w) PROVE AttemptInv'
  <2>1. Others(w) /\ SameEvent(w) /\ relay'[w].stage = "recovered"
    BY <1>su, StageShape, ZenonT(60) DEF SupersedeLeases, Stages
  <2>2. /\ Claiming(w) /\ UNCHANGED <<token, status, claimedBy>>
        /\ Grow /\ SameWins
    BY <1>su, AttemptsSuperseded, ZenonT(60)
       DEF SupersedeLeases, Claiming, eventVars, claimVars
  <2>3. ~Attempting(w)'
    BY <2>1 DEF Attempting
  <2>4. \A a \in Aggregates, v \in Versions :
           /\ Delivered(a, v)' <=> Delivered(a, v)
           /\ Delivered(a, v) => claimedBy'[a][v] = claimedBy[a][v]
    BY <2>2 DEF Delivered
  <2> QED
    BY <2>1, <2>2, <2>3, <2>4, AttemptsKept
<1>st. ASSUME NEW w \in Workers, StartAttempt(w) PROVE AttemptInv'
  <2>1. Others(w) /\ SameEvent(w)
    <3>1. Len(attempts[relay[w].agg][relay[w].ver]) + 1 \in Nat
      BY <1>st DEF StartAttempt, TypeInv, TypeOK, CallOK
    <3> QED
      BY <1>st, <3>1, StageShape, Zenon DEF StartAttempt, Stages
  <2>2. Claiming(w) /\ UNCHANGED <<token, status, claimedBy>>
    BY <1>st DEF StartAttempt, Claiming, eventVars, claimVars
  <2>3. \A a \in Aggregates, v \in Versions :
           /\ Delivered(a, v)' <=> Delivered(a, v)
           /\ Delivered(a, v) => claimedBy'[a][v] = claimedBy[a][v]
    BY <2>2 DEF Delivered
  <2> QED
    BY <1>st, <2>1, <2>2, <2>3, AttemptStarted, AttemptsKept
<1>is. ASSUME NEW w \in Workers, Isolate(w) PROVE AttemptInv'
  <2> DEFINE a == relay[w].agg
             v == relay[w].ver
  <2>1. a \in Aggregates /\ v \in Versions /\ Attempting(w)
    BY <1>is DEF Isolate, TypeInv, CallOK, Attempting, Claiming
  <2>2. Grow /\ SameWins /\ UNCHANGED token /\ relay' = [relay EXCEPT ![w] = NoCall]
    BY <1>is, <2>1, AttemptRewritten DEF Isolate, AttemptStatuses
  <2>3. CASE HoldsClaim(w, a, v)
    <3>1. claimedBy[a][v] = w /\ w # None
      BY <2>3, RelayAssumption DEF HoldsClaim
    <3>2. ~Delivered(a, v)
      BY <2>1, <3>1 DEF ClaimInv, StatusInv, Delivered
    <3>3. /\ status' = [status EXCEPT ![a][v] = "isolated"]
          /\ claimedBy' = [claimedBy EXCEPT ![a][v] = None]
      BY <1>is, <2>3 DEF Isolate, Release
    <3>4. \A b \in Aggregates, u \in Versions :
             /\ status'[b][u] = IF b = a /\ u = v THEN "isolated" ELSE status[b][u]
             /\ claimedBy'[b][u] = IF b = a /\ u = v THEN None ELSE claimedBy[b][u]
      BY <2>1, <3>3 DEF TypeInv, TypeOK
    <3>5. \A b \in Aggregates, u \in Versions :
             /\ Delivered(b, u)' <=> Delivered(b, u)
             /\ Delivered(b, u) => claimedBy'[b][u] = claimedBy[b][u]
      BY <3>2, <3>4 DEF Delivered
    <3> QED
      BY <2>2, <3>5, AttemptsEnd
  <2>4. CASE ~HoldsClaim(w, a, v)
    <3>1. UNCHANGED <<status, claimedBy>>
      BY <1>is, <2>4 DEF Isolate
    <3>2. \A b \in Aggregates, u \in Versions :
             /\ Delivered(b, u)' <=> Delivered(b, u)
             /\ Delivered(b, u) => claimedBy'[b][u] = claimedBy[b][u]
      BY <3>1 DEF Delivered
    <3> QED
      BY <2>2, <3>2, AttemptsEnd
  <2> QED
    BY <2>3, <2>4
<1>ff. ASSUME NEW w \in Workers, FinishFailure(w) PROVE AttemptInv'
  <2> DEFINE a == relay[w].agg
             v == relay[w].ver
  <2>1. a \in Aggregates /\ v \in Versions /\ Attempting(w)
    BY <1>ff DEF FinishFailure, TypeInv, CallOK, Attempting, Claiming
  <2>2. PICK s \in {"deferred", "failed"} : SetAttempt(w, a, v, s)
    BY <1>ff DEF FinishFailure
  <2>3. Grow /\ SameWins
    BY <2>1, <2>2, AttemptRewritten DEF AttemptStatuses
  <2>4. UNCHANGED <<token, status>> /\ relay' = [relay EXCEPT ![w] = NoCall]
    BY <1>ff, Zenon DEF FinishFailure, eventVars
  <2>5. \A b \in Aggregates, u \in Versions :
           Delivered(b, u) => claimedBy'[b][u] = claimedBy[b][u]
    <3>1. CASE HoldsClaim(w, a, v)
      <4>1. claimedBy[a][v] = w /\ w # None
        BY <3>1, RelayAssumption DEF HoldsClaim
      <4>2. ~Delivered(a, v)
        BY <2>1, <4>1 DEF ClaimInv, StatusInv, Delivered
      <4>3. claimedBy' = [claimedBy EXCEPT ![a][v] = None]
        BY <1>ff, <3>1 DEF FinishFailure, Release
      <4>4. \A b \in Aggregates, u \in Versions : ~(b = a /\ u = v) =>
               claimedBy'[b][u] = claimedBy[b][u]
        BY <2>1, <4>3 DEF TypeInv, TypeOK
      <4> QED
        BY <4>2, <4>4
    <3>2. CASE ~HoldsClaim(w, a, v)
      BY <1>ff, <3>2 DEF FinishFailure
    <3> QED
      BY <3>1, <3>2
  <2>6. \A b \in Aggregates, u \in Versions : Delivered(b, u)' <=> Delivered(b, u)
    BY <2>4 DEF Delivered
  <2> QED
    BY <2>3, <2>4, <2>5, <2>6, AttemptsEnd
<1>ar. ASSUME NEW w \in Workers, AckRefused(w) PROVE AttemptInv'
  <2> DEFINE a == relay[w].agg
             v == relay[w].ver
  <2>1. Attempting(w)
    BY <1>ar DEF AckRefused, Attempting, Claiming
  <2>2. SetAttempt(w, a, v, "failed") \/ UNCHANGED attempts
    BY <1>ar DEF AckRefused
  <2>3. Grow /\ SameWins
    BY <2>1, <2>2, AttemptRewritten, UnchangedAttempts DEF AttemptStatuses
  <2>4. UNCHANGED <<token, status, claimedBy>> /\ relay' = [relay EXCEPT ![w] = NoCall]
    BY <1>ar DEF AckRefused, eventVars, claimVars
  <2>5. \A b \in Aggregates, u \in Versions :
           /\ Delivered(b, u)' <=> Delivered(b, u)
           /\ Delivered(b, u) => claimedBy'[b][u] = claimedBy[b][u]
    BY <2>4 DEF Delivered
  <2> QED
    BY <2>3, <2>4, <2>5, AttemptsEnd
<1>en. ASSUME NEW w \in Workers,
             ClaimBusy(w) \/ ConsumeConflict(w) \/ Crash(w)
      PROVE  AttemptInv'
  <2>1. relay' = [relay EXCEPT ![w] = NoCall] /\ UNCHANGED <<token, attempts, status, claimedBy>>
    BY <1>en, Zenon DEF ClaimBusy, ConsumeConflict, Crash, eventVars, claimVars
  <2>2. Others(w) /\ relay'[w].stage = "idle"
    BY <2>1, EndShape
  <2> QED
    BY <2>1, <2>2, AttemptsQuiet
<1>go. ASSUME NEW w \in Workers,
             \/ BeginDelivery(w) \/ SkipProcessed(w) \/ ConsumeRead(w)
             \/ ConsumeWrite(w) \/ ConsumeRecheck(w) \/ ConsumeCommit(w)
             \/ LeaseLost(w) \/ Fault(w)
      PROVE  AttemptInv'
  <2>1. Attempting(w) /\ UNCHANGED <<token, attempts, status, claimedBy>>
    BY <1>go, Zenon
       DEF BeginDelivery, SkipProcessed, ConsumeRead, ConsumeWrite, ConsumeRecheck,
           ConsumeCommit, LeaseLost, Fault, Attempting, Claiming, eventVars, claimVars
  <2>2. \/ \E s \in Stages : relay' = [relay EXCEPT ![w].stage = s]
        \/ relay' = AfterConsumer(w)
        \/ \E f \in Failures : relay' = Fail(w, f)
    BY <1>go, Zenon
       DEF BeginDelivery, SkipProcessed, ConsumeRead, ConsumeWrite, ConsumeRecheck,
           ConsumeCommit, LeaseLost, Fault, Stages, Failures
  <2>3. relay'[w].attempt = relay[w].attempt
    BY <2>2, AttemptShape DEF Stages
  <2>4. Others(w) /\ SameEvent(w)
    <3>1. ASSUME NEW s \in Stages, relay' = [relay EXCEPT ![w].stage = s]
          PROVE  Others(w) /\ SameEvent(w)
      BY <3>1, StageShape
    <3>2. ASSUME NEW f \in Failures, relay' = Fail(w, f)
          PROVE  Others(w) /\ SameEvent(w)
      <4>1. "failing" \in Stages
        BY DEF Stages
      <4> QED
        BY <3>2, <4>1, StageShape, Zenon DEF Fail
    <3>3. CASE relay' = AfterConsumer(w)
      BY <3>3, ConsumerShape
    <3> QED
      BY <2>2, <3>1, <3>2, <3>3
  <2> QED
    BY <2>1, <2>3, <2>4, AttemptsQuiet
<1>un. ASSUME UNCHANGED <<token, attempts, status, claimedBy, relay>>
      PROVE  AttemptInv'
  BY <1>un DEF AttemptInv, AttemptOwned, WinnerGone, DeliveredByLastClaim, Attempting,
               Claiming, Delivered
<1>nr. ASSUME NEW w \in Workers, NothingToRelay(w) PROVE AttemptInv'
  BY <1>nr, <1>un DEF NothingToRelay, vars
<1>la. ASSUME NEW w \in Workers, NEW a \in Aggregates, NEW v \in Versions,
             Lapse(w, a, v)
      PROVE  AttemptInv'
  BY <1>la, <1>un DEF Lapse, eventVars
<1>id. CASE UNCHANGED vars
  BY <1>id, <1>un DEF vars
<1> QED
  BY <1>pub, <1>ln, <1>le, <1>cl, <1>ak, <1>su, <1>st, <1>is, <1>ff, <1>ar, <1>en,
     <1>go, <1>nr, <1>la, <1>id
  DEF Next, Advance

-----------------------------------------------------------------------------
(* Projections: what a call has read or done is still true of the          *)
(* consumers' rows when it acts on it.                                     *)

CallProjected(w) ==
    LET r == relay[w]
    IN  /\ r.stage \in {"write", "recheck", "commit"} =>
              r.ver <= cursor[r.consumer][r.agg] + 1
        /\ r.stage # "idle" /\ r.consumer = Operations =>
              r.ver \in processed[Research][r.agg]
        /\ r.stage = "ack" =>
              \A c \in Consumers : r.ver \in processed[c][r.agg]

ProjectionInv ==
    /\ ContiguousProjection
    /\ EffectsExactlyOnce
    /\ DeliveredIsProjected
    /\ \A w \in Workers : CallProjected(w)

\* A step that commits no effect and acknowledges nothing.
LEMMA ProjectionKept ==
    ASSUME ProjectionInv, NEW w \in Workers, UNCHANGED effectVars, Others(w),
           \A a \in Aggregates, v \in Versions : Delivered(a, v)' => Delivered(a, v),
           CallProjected(w)'
    PROVE  ProjectionInv'
<1>1. \A x \in Workers : CallProjected(x)'
  BY DEF ProjectionInv, CallProjected, Others, effectVars
<1> QED
  BY <1>1 DEF ProjectionInv, ContiguousProjection, EffectsExactlyOnce,
              DeliveredIsProjected, effectVars

\* The commit of a consumer transaction: the version it applies is the next one.
LEMMA CommitIsNext ==
    ASSUME TypeInv, ProjectionInv, NEW w \in Workers, ConsumeCommit(w)
    PROVE  LET a == relay[w].agg
               v == relay[w].ver
               c == relay[w].consumer
           IN  /\ a \in Aggregates /\ v \in Versions /\ c \in Consumers
               /\ v = cursor[c][a] + 1
               /\ effects[c][a][v] = 0
               /\ c = Operations => v \in processed[Research][a]
<1> DEFINE a == relay[w].agg
           v == relay[w].ver
           c == relay[w].consumer
<1>1. a \in Aggregates /\ v \in Versions /\ c \in Consumers
  BY DEF ConsumeCommit, TypeInv, TypeOK, CallOK, Call
<1>2. relay[w].stage = "commit" /\ v \notin processed[c][a]
  BY DEF ConsumeCommit
<1>3. CallProjected(w)
  BY DEF ProjectionInv
<1>4. v <= cursor[c][a] + 1 /\ (c = Operations => v \in processed[Research][a])
  BY <1>2, <1>3 DEF CallProjected
<1> HIDE DEF a, v, c
<1>5. effects[c][a][v] = 0 /\ processed[c][a] = 1..cursor[c][a]
  BY <1>1, <1>2 DEF ProjectionInv, ContiguousProjection, EffectsExactlyOnce
<1>6. cursor[c][a] \in Nat /\ v \in Nat \ {0}
  BY <1>1, RelayAssumption DEF TypeInv, TypeOK, Versions
<1>7. v = cursor[c][a] + 1
  BY <1>2, <1>4, <1>5, <1>6
<1> QED
  BY <1>1, <1>4, <1>5, <1>7 DEF a, v, c

LEMMA ProjectionCommitted ==
    ASSUME TypeInv, ProjectionInv, NEW w \in Workers, ConsumeCommit(w)
    PROVE  ProjectionInv'
<1> DEFINE a == relay[w].agg
           v == relay[w].ver
           c == relay[w].consumer
<1>1. /\ a \in Aggregates /\ v \in Versions /\ c \in Consumers
      /\ v = cursor[c][a] + 1
      /\ effects[c][a][v] = 0
      /\ c = Operations => v \in processed[Research][a]
  BY CommitIsNext
<1>2. /\ v \notin processed[c][a]
      /\ processed' = [processed EXCEPT ![c][a] = @ \cup {v}]
      /\ cursor' = [cursor EXCEPT ![c][a] = v]
      /\ effects' = [effects EXCEPT ![c][a][v] = @ + 1]
      /\ UNCHANGED status
  BY DEF ConsumeCommit, eventVars
<1>10. relay[w].agg = a /\ relay[w].ver = v /\ relay[w].consumer = c
  OBVIOUS
<1> HIDE DEF a, v, c
<1>11. \A d \in Consumers, b \in Aggregates :
          /\ processed'[d][b] = IF d = c /\ b = a THEN processed[c][a] \cup {v}
                                                 ELSE processed[d][b]
          /\ cursor'[d][b] = IF d = c /\ b = a THEN v ELSE cursor[d][b]
  BY <1>1, <1>2 DEF TypeInv, TypeOK
<1>12. \A d \in Consumers, b \in Aggregates, u \in Versions :
          effects'[d][b][u] = IF d = c /\ b = a /\ u = v THEN 1 ELSE effects[d][b][u]
  <2> DEFINE row == [effects[c][a] EXCEPT ![v] = 1]
             tab == [effects[c] EXCEPT ![a] = row]
  <2>1. effects \in [Consumers -> [Aggregates -> [Versions -> Nat]]]
    BY DEF TypeInv, TypeOK
  <2>2. effects' = [effects EXCEPT ![c][a][v] = 1]
    BY <1>1, <1>2
  <2>3. effects' = [effects EXCEPT ![c] = tab]
    BY <2>2
  <2>4. \A u \in Versions : row[u] = IF u = v THEN 1 ELSE effects[c][a][u]
    BY <1>1, <2>1
  <2> HIDE DEF row
  <2>5. \A b \in Aggregates : tab[b] = IF b = a THEN row ELSE effects[c][b]
    BY <1>1, <2>1
  <2> HIDE DEF tab
  <2>6. \A d \in Consumers : effects'[d] = IF d = c THEN tab ELSE effects[d]
    BY <1>1, <2>1, <2>3
  <2> QED
    BY <2>4, <2>5, <2>6
<1>3. \A d \in Consumers, b \in Aggregates : cursor[d][b] \in Nat
  BY RelayAssumption DEF TypeInv, TypeOK
<1>4. ContiguousProjection'
  <2> SUFFICES ASSUME NEW d \in Consumers, NEW b \in Aggregates
               PROVE  processed'[d][b] = 1..cursor'[d][b]
    BY DEF ContiguousProjection
  <2>1. processed[d][b] = 1..cursor[d][b]
    BY DEF ProjectionInv, ContiguousProjection
  <2> QED
    <3>1. CASE d = c /\ b = a
      <4>1. 1..cursor[c][a] \cup {v} = 1..v
        BY <1>1, <1>3
      <4> QED
        BY <1>1, <1>11, <2>1, <3>1, <4>1
    <3>2. CASE ~(d = c /\ b = a)
      BY <1>11, <2>1, <3>2
    <3> QED
      BY <3>1, <3>2
<1>5. EffectsExactlyOnce'
  BY <1>1, <1>11, <1>12 DEF ProjectionInv, EffectsExactlyOnce
<1>6. DeliveredIsProjected'
  BY <1>1, <1>2, <1>11 DEF ProjectionInv, DeliveredIsProjected, Delivered
<1>7. /\ Others(w) /\ SameEvent(w)
      /\ c = Research => relay'[w].stage = "consume" /\ relay'[w].consumer = Operations
      /\ c = Operations => relay'[w].stage = "ack" /\ relay'[w].consumer = Operations
  BY ConsumerShape, <1>10 DEF ConsumeCommit
<1>8. CallProjected(w)'
  BY <1>1, <1>10, <1>11, <1>7 DEF CallProjected, SameEvent, Consumers, Research, Operations
<1>9. ASSUME NEW x \in Workers \ {w} PROVE CallProjected(x)'
  <2>1. relay'[x] = relay[x] /\ CallProjected(x) /\ relay[x].consumer \in Consumers
        /\ relay[x].ver \in Nat
    BY <1>7 DEF Others, ProjectionInv, TypeInv, TypeOK, Call
  <2>2. relay[x].stage # "idle" => relay[x].agg \in Aggregates
    BY DEF TypeInv, CallOK
  <2>3. \A d \in Consumers, b \in Aggregates :
           /\ processed[d][b] \subseteq processed'[d][b]
           /\ cursor'[d][b] \in Nat
           /\ cursor[d][b] <= cursor'[d][b]
    BY <1>1, <1>11, <1>3
  <2> QED
    BY <1>3, <2>1, <2>2, <2>3 DEF CallProjected, Consumers
<1> QED
  BY <1>4, <1>5, <1>6, <1>8, <1>9 DEF ProjectionInv

LEMMA NextProjection ==
    ASSUME TypeInv, StatusInv, ProjectionInv, [Next]_vars
    PROVE  ProjectionInv'
<1>pub. ASSUME NEW a \in Aggregates, Publish(a) PROVE ProjectionInv'
  <2>1. \A b \in Aggregates, v \in Versions : Delivered(b, v)' => Delivered(b, v)
    BY <1>pub DEF Publish, Delivered, TypeInv, TypeOK
  <2> QED
    BY <1>pub, <2>1 DEF Publish, effectVars, ProjectionInv, ContiguousProjection,
       EffectsExactlyOnce, DeliveredIsProjected, CallProjected
<1>ln. ASSUME NEW w \in Workers, LoadNext(w)
      PROVE  ProjectionInv'
  <2>1. PICK b \in Aggregates, u \in Versions :
           relay' = [relay EXCEPT ![w] =
                       [NoCall EXCEPT !.stage = "loaded", !.agg = b, !.ver = u]]
    BY <1>ln, Zenon DEF LoadNext
  <2>2. CallProjected(w)'
    BY <2>1, LoadShape, Zenon DEF CallProjected, Research, Operations
  <2> QED
    BY <1>ln, <2>1, <2>2, LoadShape, ProjectionKept, Zenon DEF LoadNext, eventVars, Delivered
<1>le. ASSUME NEW w \in Workers, NEW a \in Aggregates, NEW v \in Versions, LoadEvent(w, a, v)
      PROVE  ProjectionInv'
  <2>1. PICK b \in Aggregates, u \in Versions :
           relay' = [relay EXCEPT ![w] =
                       [NoCall EXCEPT !.stage = "loaded", !.agg = b, !.ver = u]]
    BY <1>le, Zenon DEF LoadEvent
  <2>2. CallProjected(w)'
    BY <2>1, LoadShape, Zenon DEF CallProjected, Research, Operations
  <2> QED
    BY <1>le, <2>1, <2>2, LoadShape, ProjectionKept, Zenon DEF LoadEvent, eventVars, Delivered
<1>nr. ASSUME NEW w \in Workers, NothingToRelay(w) PROVE ProjectionInv'
  BY <1>nr DEF NothingToRelay, vars, ProjectionInv, ContiguousProjection,
     EffectsExactlyOnce, DeliveredIsProjected, Delivered, CallProjected
<1>cl. ASSUME NEW w \in Workers, Claim(w) PROVE ProjectionInv'
  <2>1. /\ Others(w)
        /\ relay'[w].stage = "claimed"
        /\ relay'[w].agg = relay[w].agg
        /\ relay'[w].ver = relay[w].ver
        /\ relay'[w].consumer = relay[w].consumer
    BY <1>cl, ClaimShape
  <2>2. /\ relay[w].stage = "loaded" /\ CallProjected(w)
        /\ UNCHANGED effectVars /\ UNCHANGED status
    BY <1>cl DEF Claim, eventVars, ProjectionInv
  <2>3. CallProjected(w)'
    BY <2>1, <2>2 DEF CallProjected, effectVars
  <2> QED
    BY <2>1, <2>2, <2>3, ProjectionKept DEF Delivered
<1>cb. ASSUME NEW w \in Workers, ClaimBusy(w) PROVE ProjectionInv'
  <2>1. Others(w) /\ relay'[w].stage = "idle"
    BY <1>cb, EndShape DEF ClaimBusy
  <2>2. CallProjected(w)'
    BY <2>1 DEF CallProjected
  <2>3. UNCHANGED effectVars /\ UNCHANGED status
    BY <1>cb DEF ClaimBusy, eventVars
  <2> QED
    BY <2>1, <2>2, <2>3, ProjectionKept DEF Delivered
<1>cf. ASSUME NEW w \in Workers, ConsumeConflict(w) PROVE ProjectionInv'
  <2>1. Others(w) /\ relay'[w].stage = "idle"
    BY <1>cf, EndShape DEF ConsumeConflict
  <2>2. CallProjected(w)'
    BY <2>1 DEF CallProjected
  <2>3. UNCHANGED effectVars /\ UNCHANGED status
    BY <1>cf DEF ConsumeConflict, eventVars
  <2> QED
    BY <2>1, <2>2, <2>3, ProjectionKept DEF Delivered
<1>cs. ASSUME NEW w \in Workers, Crash(w) PROVE ProjectionInv'
  <2>1. Others(w) /\ relay'[w].stage = "idle"
    BY <1>cs, EndShape DEF Crash
  <2>2. CallProjected(w)'
    BY <2>1 DEF CallProjected
  <2>3. UNCHANGED effectVars /\ UNCHANGED status
    BY <1>cs DEF Crash, eventVars
  <2> QED
    BY <2>1, <2>2, <2>3, ProjectionKept DEF Delivered
<1>ar. ASSUME NEW w \in Workers, AckRefused(w) PROVE ProjectionInv'
  <2>1. Others(w) /\ relay'[w].stage = "idle"
    BY <1>ar, EndShape DEF AckRefused
  <2>2. CallProjected(w)'
    BY <2>1 DEF CallProjected
  <2>3. UNCHANGED effectVars /\ UNCHANGED status
    BY <1>ar DEF AckRefused, eventVars
  <2> QED
    BY <2>1, <2>2, <2>3, ProjectionKept DEF Delivered
<1>ff. ASSUME NEW w \in Workers, FinishFailure(w) PROVE ProjectionInv'
  <2>1. Others(w) /\ relay'[w].stage = "idle"
    BY <1>ff, EndShape, Zenon DEF FinishFailure
  <2>2. CallProjected(w)'
    BY <2>1 DEF CallProjected
  <2>3. UNCHANGED effectVars /\ UNCHANGED status
    BY <1>ff DEF FinishFailure, eventVars
  <2> QED
    BY <2>1, <2>2, <2>3, ProjectionKept DEF Delivered
<1>su. ASSUME NEW w \in Workers, SupersedeLeases(w) PROVE ProjectionInv'
  <2>1. /\ Others(w) /\ SameEvent(w)
        /\ relay'[w].stage = "recovered"
        /\ relay'[w].consumer = relay[w].consumer
    BY <1>su, StageShape, ZenonT(60) DEF SupersedeLeases, Stages
  <2>2. /\ relay[w].stage = "claimed" /\ CallProjected(w)
        /\ UNCHANGED effectVars /\ UNCHANGED status
    BY <1>su, Zenon DEF SupersedeLeases, eventVars, ProjectionInv
  <2>3. CallProjected(w)'
    BY <2>1, <2>2 DEF CallProjected, effectVars, SameEvent
  <2> QED
    BY <2>1, <2>2, <2>3, ProjectionKept DEF Delivered
<1>bd. ASSUME NEW w \in Workers, BeginDelivery(w) PROVE ProjectionInv'
  <2>1. /\ Others(w) /\ SameEvent(w)
        /\ relay'[w].stage = "consume"
        /\ relay'[w].consumer = relay[w].consumer
    BY <1>bd, StageShape DEF BeginDelivery, Stages
  <2>2. relay[w].stage = "started" /\ CallProjected(w) /\ UNCHANGED effectVars
    BY <1>bd DEF BeginDelivery, ProjectionInv
  <2>3. CallProjected(w)'
    BY <2>1, <2>2 DEF CallProjected, effectVars, SameEvent
  <2> QED
    BY <1>bd, <2>1, <2>2, <2>3, ProjectionKept, SMTT(60) DEF BeginDelivery, eventVars, Delivered
<1>st. ASSUME NEW w \in Workers, StartAttempt(w) PROVE ProjectionInv'
  <2>1. Len(attempts[relay[w].agg][relay[w].ver]) + 1 \in Nat
    BY <1>st DEF StartAttempt, TypeInv, TypeOK, CallOK
  <2>2. /\ Others(w) /\ SameEvent(w)
        /\ relay'[w].stage = "started"
        /\ relay'[w].consumer = relay[w].consumer
    BY <1>st, <2>1, StageShape, Zenon DEF StartAttempt, Stages
  <2>3. CallProjected(w)'
    BY <1>st, <2>2 DEF StartAttempt, ProjectionInv, CallProjected, effectVars, SameEvent
  <2> QED
    BY <1>st, <2>2, <2>3, ProjectionKept DEF StartAttempt, eventVars, Delivered
<1>ll. ASSUME NEW w \in Workers, LeaseLost(w) PROVE ProjectionInv'
  <2>1. /\ Others(w) /\ SameEvent(w)
        /\ relay'[w].stage = "failing"
        /\ relay'[w].consumer = relay[w].consumer
    BY <1>ll, StageShape, Zenon DEF LeaseLost, Stages, Fail, Failures
  <2>2. /\ relay[w].stage # "idle" /\ CallProjected(w)
        /\ UNCHANGED effectVars /\ UNCHANGED status
    BY <1>ll DEF LeaseLost, eventVars, ProjectionInv
  <2>3. CallProjected(w)'
    BY <2>1, <2>2 DEF CallProjected, effectVars, SameEvent
  <2> QED
    BY <2>1, <2>2, <2>3, ProjectionKept DEF Delivered
<1>ft. ASSUME NEW w \in Workers, Fault(w) PROVE ProjectionInv'
  <2>1. /\ Others(w) /\ SameEvent(w)
        /\ relay'[w].stage = "failing"
        /\ relay'[w].consumer = relay[w].consumer
    BY <1>ft, StageShape, Zenon DEF Fault, Stages, Fail, Failures
  <2>2. /\ relay[w].stage # "idle" /\ CallProjected(w)
        /\ UNCHANGED effectVars /\ UNCHANGED status
    BY <1>ft DEF Fault, eventVars, ProjectionInv
  <2>3. CallProjected(w)'
    BY <2>1, <2>2 DEF CallProjected, effectVars, SameEvent
  <2> QED
    BY <2>1, <2>2, <2>3, ProjectionKept DEF Delivered
<1>cw. ASSUME NEW w \in Workers, ConsumeWrite(w) PROVE ProjectionInv'
  <2>1. /\ Others(w) /\ SameEvent(w)
        /\ relay'[w].stage = "recheck"
        /\ relay'[w].consumer = relay[w].consumer
    BY <1>cw, StageShape DEF ConsumeWrite, Stages
  <2>2. /\ relay[w].stage = "write" /\ CallProjected(w)
        /\ UNCHANGED effectVars /\ UNCHANGED status
    BY <1>cw DEF ConsumeWrite, eventVars, ProjectionInv
  <2>3. CallProjected(w)'
    BY <2>1, <2>2 DEF CallProjected, effectVars, SameEvent
  <2> QED
    BY <2>1, <2>2, <2>3, ProjectionKept, SMTT(60) DEF Delivered
<1>re. ASSUME NEW w \in Workers, ConsumeRecheck(w) PROVE ProjectionInv'
  <2>1. /\ Others(w) /\ SameEvent(w)
        /\ relay'[w].stage = "commit"
        /\ relay'[w].consumer = relay[w].consumer
    BY <1>re, StageShape, Zenon DEF ConsumeRecheck, Stages
  <2>2. /\ relay[w].stage = "recheck" /\ CallProjected(w)
        /\ UNCHANGED effectVars /\ UNCHANGED status
    BY <1>re DEF ConsumeRecheck, eventVars, ProjectionInv
  <2>3. CallProjected(w)'
    BY <2>1, <2>2 DEF CallProjected, effectVars, SameEvent
  <2> QED
    BY <2>1, <2>2, <2>3, ProjectionKept DEF Delivered
<1>cr. ASSUME NEW w \in Workers, ConsumeRead(w) PROVE ProjectionInv'
  <2>1. CASE InOrder(relay[w].consumer, relay[w].agg, relay[w].ver)
    <3>1. relay' = [relay EXCEPT ![w].stage = "write"]
      BY <1>cr, <2>1 DEF ConsumeRead
    <3>2. CallProjected(w)'
      <4>1. cursor[relay[w].consumer][relay[w].agg] \in Nat
        BY <1>cr, RelayAssumption DEF ConsumeRead, TypeInv, TypeOK, CallOK, Call
      <4> QED
        <5>1. /\ SameEvent(w)
              /\ relay'[w].stage = "write"
              /\ relay'[w].consumer = relay[w].consumer
          BY <3>1, StageShape DEF Stages
        <5>2. relay[w].ver <= cursor[relay[w].consumer][relay[w].agg] + 1
          BY <2>1, <4>1 DEF InOrder
        <5>3. relay[w].stage = "consume" /\ CallProjected(w) /\ UNCHANGED effectVars
          BY <1>cr DEF ConsumeRead, ProjectionInv
        <5> QED
          BY <5>1, <5>2, <5>3, SMTT(60) DEF CallProjected, effectVars, SameEvent
    <3> QED
      BY <1>cr, <3>1, <3>2, StageShape, ProjectionKept, Zenon
      DEF ConsumeRead, eventVars, Delivered, Stages
  <2>2. CASE ~InOrder(relay[w].consumer, relay[w].agg, relay[w].ver)
    <3>1. relay' = Fail(w, "out_of_order_aggregate_version")
      BY <1>cr, <2>2 DEF ConsumeRead
    <3>2. CallProjected(w)'
      <4>1. /\ SameEvent(w)
            /\ relay'[w].stage = "failing"
            /\ relay'[w].consumer = relay[w].consumer
        BY <3>1, StageShape, Zenon DEF Stages, Fail, Failures
      <4>2. relay[w].stage = "consume" /\ CallProjected(w) /\ UNCHANGED effectVars
        BY <1>cr DEF ConsumeRead, ProjectionInv
      <4> QED
        BY <4>1, <4>2 DEF CallProjected, effectVars, SameEvent
    <3> QED
      BY <1>cr, <3>1, <3>2, StageShape, ProjectionKept, Zenon
      DEF ConsumeRead, eventVars, Delivered, Stages, Fail, Failures
  <2> QED
    BY <2>1, <2>2
<1>sp. ASSUME NEW w \in Workers, SkipProcessed(w) PROVE ProjectionInv'
  <2>1. relay[w].consumer \in Consumers
    BY DEF TypeInv, TypeOK, Call
  <2>2. /\ Others(w) /\ SameEvent(w)
        /\ relay[w].consumer = Research =>
              relay'[w].stage = "consume" /\ relay'[w].consumer = Operations
        /\ relay[w].consumer = Operations =>
              relay'[w].stage = "ack" /\ relay'[w].consumer = Operations
    BY <1>sp, ConsumerShape DEF SkipProcessed
  <2>3. /\ relay[w].stage = "consume" /\ CallProjected(w)
        /\ relay[w].ver \in processed[relay[w].consumer][relay[w].agg]
        /\ UNCHANGED effectVars /\ UNCHANGED status
    BY <1>sp DEF SkipProcessed, eventVars, ProjectionInv
  <2>4. CallProjected(w)'
    BY <2>1, <2>2, <2>3
    DEF CallProjected, effectVars, SameEvent, Consumers, Research, Operations
  <2> QED
    BY <2>2, <2>3, <2>4, ProjectionKept DEF Delivered
<1>cc. ASSUME NEW w \in Workers, ConsumeCommit(w) PROVE ProjectionInv'
  BY <1>cc, ProjectionCommitted
<1>is. ASSUME NEW w \in Workers, Isolate(w) PROVE ProjectionInv'
  <2>1. \A b \in Aggregates, u \in Versions : Delivered(b, u)' => Delivered(b, u)
    <3>1. relay[w].agg \in Aggregates /\ relay[w].ver \in Versions
      BY <1>is DEF Isolate, TypeInv, CallOK
    <3>2. CASE HoldsClaim(w, relay[w].agg, relay[w].ver)
      <4>1. status' = [status EXCEPT ![relay[w].agg][relay[w].ver] = "isolated"]
        BY <1>is, <3>2 DEF Isolate
      <4> QED
        BY <3>1, <4>1 DEF Delivered, TypeInv, TypeOK
    <3>3. CASE ~HoldsClaim(w, relay[w].agg, relay[w].ver)
      BY <1>is, <3>3 DEF Isolate, Delivered
    <3> QED
      BY <3>2, <3>3
  <2>2. CallProjected(w)'
    BY <1>is, EndShape DEF Isolate, CallProjected
  <2> QED
    BY <1>is, <2>1, <2>2, EndShape, ProjectionKept DEF Isolate
<1>ak. ASSUME NEW w \in Workers, Ack(w) PROVE ProjectionInv'
  <2>1. relay[w].agg \in Aggregates /\ relay[w].ver \in Versions
    BY <1>ak DEF Ack, TypeInv, CallOK
  <2>2. \A c \in Consumers : relay[w].ver \in processed[c][relay[w].agg]
    BY <1>ak DEF Ack, ProjectionInv, CallProjected
  <2>3. \A b \in Aggregates, u \in Versions :
           Delivered(b, u)' => Delivered(b, u) \/ (b = relay[w].agg /\ u = relay[w].ver)
    BY <1>ak, <2>1 DEF Ack, Delivered, TypeInv, TypeOK
  <2>4. DeliveredIsProjected'
    BY <1>ak, <2>2, <2>3 DEF Ack, effectVars, ProjectionInv, DeliveredIsProjected
  <2>5. \A x \in Workers : CallProjected(x)'
    BY <1>ak, EndShape DEF Ack, effectVars, ProjectionInv, CallProjected, Others
  <2> QED
    BY <1>ak, <2>4, <2>5
    DEF Ack, effectVars, ProjectionInv, ContiguousProjection, EffectsExactlyOnce
<1>la. ASSUME NEW w \in Workers, NEW a \in Aggregates, NEW v \in Versions,
             Lapse(w, a, v)
      PROVE  ProjectionInv'
  BY <1>la DEF Lapse, eventVars, effectVars, ProjectionInv, ContiguousProjection,
     EffectsExactlyOnce, DeliveredIsProjected, Delivered, CallProjected
<1>id. CASE UNCHANGED vars
  BY <1>id DEF vars, ProjectionInv, ContiguousProjection, EffectsExactlyOnce,
     DeliveredIsProjected, Delivered, CallProjected
<1> QED
  BY <1>pub, <1>ln, <1>le, <1>nr, <1>cl, <1>cb, <1>bd, <1>cw, <1>re, <1>sp, <1>cr,
     <1>ll, <1>ft, <1>cf, <1>cs, <1>cc, <1>su, <1>st, <1>is, <1>ak, <1>ar, <1>ff,
     <1>la, <1>id
  DEF Next, Advance

-----------------------------------------------------------------------------
(* The inductive invariant and what follows from it.                       *)

IInv == TypeInv /\ ClaimInv /\ AttemptInv /\ ProjectionInv

LEMMA InitIInv == Init => IInv
<1> SUFFICES ASSUME Init PROVE IInv
  OBVIOUS
<1>1. TypeInv
  BY InitTypeInv
<1>2. \A w \in Workers : relay[w] = NoCall
  BY DEF Init
<1>3. ClaimInv
  BY <1>2, RelayAssumption
  DEF Init, ClaimInv, StatusInv, TokenInv, OneClaimHolder, Claiming, NoCall, Versions
<1>4. ProjectionInv
  BY <1>2, RelayAssumption
  DEF Init, ProjectionInv, ContiguousProjection, EffectsExactlyOnce,
      DeliveredIsProjected, Delivered, CallProjected, NoCall, Research, Operations
<1>5. AttemptInv
  <2>1. \A a \in Aggregates, v \in Versions : ~Delivered(a, v) /\ attempts[a][v] = <<>>
    BY DEF Init, Delivered
  <2>2. DOMAIN <<>> = {}
    OBVIOUS
  <2>3. DeliveredByLastClaim
    BY <2>1, <2>2 DEF DeliveredByLastClaim
  <2> QED
    BY <1>2, <2>3
    DEF AttemptInv, AttemptOwned, WinnerGone, Attempting, Claiming, NoCall
<1> QED
  BY <1>1, <1>3, <1>4, <1>5 DEF IInv

LEMMA NextIInv == IInv /\ [Next]_vars => IInv'
  BY NextTypeInv, NextStatus, NextTokens, NextAttempts, NextProjection DEF IInv, ClaimInv

LEMMA Invariance == Spec => []IInv
  BY InitIInv, NextIInv, PTL DEF Spec

\* Every variable of the relay keeps its type.
THEOREM TypeCorrect == Spec => []TypeOK
  BY Invariance, PTL DEF IInv, TypeInv

\* Two calls never hold the same fencing token of an event.
THEOREM ClaimsExclusive == Spec => []OneClaimHolder
  BY Invariance, PTL DEF IInv, ClaimInv

\* A delivered event was acknowledged by one attempt, which held its last
\* fencing token; no late failure overwrites that attempt.
THEOREM LastClaimDelivers == Spec => []DeliveredByLastClaim
  BY Invariance, PTL DEF IInv, AttemptInv

\* Consumers project each aggregate without gaps.
THEOREM ProjectionContiguous == Spec => []ContiguousProjection
  BY Invariance, PTL DEF IInv, ProjectionInv

\* Each consumer effect is committed exactly once, with its processed marker.
THEOREM ExactlyOnce == Spec => []EffectsExactlyOnce
  BY Invariance, PTL DEF IInv, ProjectionInv

\* An acknowledged event is in both projections.
THEOREM DeliveryComplete == Spec => []DeliveredIsProjected
  BY Invariance, PTL DEF IInv, ProjectionInv

\* Which steps write the statuses, the tokens and the consumers' rows.
LEMMA StatusSteps ==
    ASSUME [Next]_vars
    PROVE  \/ \E a \in Aggregates : Publish(a)
           \/ \E w \in Workers : Isolate(w) \/ Ack(w)
           \/ UNCHANGED <<published, status>>
<1>1. ASSUME NEW w \in Workers, LoadNext(w) \/ NothingToRelay(w) \/ Fault(w) \/ Crash(w)
      PROVE  UNCHANGED <<published, status>>
  BY <1>1, ZenonT(60) DEF LoadNext, NothingToRelay, Fault, Crash, vars, eventVars, claimVars,
     effectVars
<1>2. ASSUME NEW w \in Workers, Advance(w) PROVE Isolate(w) \/ Ack(w) \/ UNCHANGED <<published, status>>
  BY <1>2, Zenon
  DEF Advance, Claim, ClaimBusy, SupersedeLeases, StartAttempt, BeginDelivery,
      SkipProcessed, ConsumeRead, ConsumeWrite, ConsumeRecheck, ConsumeCommit,
      ConsumeConflict, LeaseLost, AckRefused, FinishFailure, vars, eventVars,
      claimVars, effectVars
<1>3. ASSUME NEW w \in Workers, NEW a \in Aggregates, NEW v \in Versions,
             LoadEvent(w, a, v) \/ Lapse(w, a, v)
      PROVE  UNCHANGED <<published, status>>
  BY <1>3 DEF LoadEvent, Lapse, eventVars, claimVars, effectVars
<1>5. CASE UNCHANGED vars
  BY <1>5 DEF vars, effectVars
<1> QED
  BY <1>1, <1>2, <1>3, <1>5 DEF Next

LEMMA TokenSteps ==
    ASSUME [Next]_vars
    PROVE  (\E w \in Workers : Claim(w)) \/ UNCHANGED token
<1>1. ASSUME NEW w \in Workers, LoadNext(w) \/ NothingToRelay(w) \/ Fault(w) \/ Crash(w)
      PROVE  UNCHANGED token
  BY <1>1, ZenonT(60) DEF LoadNext, NothingToRelay, Fault, Crash, vars, eventVars, claimVars,
     effectVars
<1>2. ASSUME NEW w \in Workers, Advance(w) PROVE Claim(w) \/ UNCHANGED token
  BY <1>2, Zenon
  DEF Advance, ClaimBusy, SupersedeLeases, StartAttempt, Isolate, BeginDelivery,
      SkipProcessed, ConsumeRead, ConsumeWrite, ConsumeRecheck, ConsumeCommit,
      ConsumeConflict, LeaseLost, Ack, AckRefused, FinishFailure, vars, eventVars,
      claimVars, effectVars
<1>3. ASSUME NEW w \in Workers, NEW a \in Aggregates, NEW v \in Versions,
             LoadEvent(w, a, v) \/ Lapse(w, a, v)
      PROVE  UNCHANGED token
  BY <1>3 DEF LoadEvent, Lapse, eventVars, claimVars, effectVars
<1>4. ASSUME NEW a \in Aggregates, Publish(a) PROVE UNCHANGED token
  BY <1>4 DEF Publish, claimVars, effectVars
<1>5. CASE UNCHANGED vars
  BY <1>5 DEF vars, effectVars
<1> QED
  BY <1>1, <1>2, <1>3, <1>4, <1>5 DEF Next

LEMMA EffectSteps ==
    ASSUME [Next]_vars
    PROVE  (\E w \in Workers : ConsumeCommit(w)) \/ UNCHANGED effectVars
<1>1. ASSUME NEW w \in Workers, LoadNext(w) \/ NothingToRelay(w) \/ Fault(w) \/ Crash(w)
      PROVE  UNCHANGED effectVars
  BY <1>1, ZenonT(60) DEF LoadNext, NothingToRelay, Fault, Crash, vars, eventVars, claimVars,
     effectVars
<1>2. ASSUME NEW w \in Workers, Advance(w) PROVE ConsumeCommit(w) \/ UNCHANGED effectVars
  BY <1>2, Zenon
  DEF Advance, Claim, ClaimBusy, SupersedeLeases, StartAttempt, Isolate,
      BeginDelivery, SkipProcessed, ConsumeRead, ConsumeWrite, ConsumeRecheck,
      ConsumeConflict, LeaseLost, Ack, AckRefused, FinishFailure, vars, eventVars,
      claimVars, effectVars
<1>3. ASSUME NEW w \in Workers, NEW a \in Aggregates, NEW v \in Versions,
             LoadEvent(w, a, v) \/ Lapse(w, a, v)
      PROVE  UNCHANGED effectVars
  BY <1>3 DEF LoadEvent, Lapse, eventVars, claimVars, effectVars
<1>4. ASSUME NEW a \in Aggregates, Publish(a) PROVE UNCHANGED effectVars
  BY <1>4 DEF Publish, claimVars, effectVars
<1>5. CASE UNCHANGED vars
  BY <1>5 DEF vars, effectVars
<1> QED
  BY <1>1, <1>2, <1>3, <1>4, <1>5 DEF Next

-----------------------------------------------------------------------------
(* Action property and refinement.                                         *)

LEMMA StepForward ==
    ASSUME IInv, IInv', [Next]_vars
    PROVE  \A a \in Aggregates, v \in Versions :
              /\ status[a][v] \in {"delivered", "isolated"}
                    => status'[a][v] = status[a][v]
              /\ token'[a][v] >= token[a][v]
              /\ \A c \in Consumers : cursor'[c][a] >= cursor[c][a]
<1>1. /\ \A a \in Aggregates, v \in Versions : token[a][v] \in Nat
      /\ \A a \in Aggregates, c \in Consumers : cursor[c][a] \in Nat
      /\ \A a \in Aggregates : published[a] \in Nat
  BY RelayAssumption DEF IInv, TypeInv, TypeOK
<1>2. ASSUME NEW a \in Aggregates, NEW v \in Versions,
             status[a][v] \in {"delivered", "isolated"}
      PROVE  status'[a][v] = status[a][v]
  <2>1. claimedBy[a][v] = None /\ v <= published[a] /\ v \in Nat
    BY <1>1, <1>2 DEF IInv, ClaimInv, StatusInv, Versions
  <2>pub. ASSUME NEW b \in Aggregates, Publish(b) PROVE status'[a][v] = status[a][v]
    BY <1>1, <2>1, <2>pub DEF Publish, IInv, TypeInv, TypeOK
  <2>is. ASSUME NEW w \in Workers, Isolate(w) PROVE status'[a][v] = status[a][v]
    <3>1. CASE HoldsClaim(w, relay[w].agg, relay[w].ver)
      <4>1. status' = [status EXCEPT ![relay[w].agg][relay[w].ver] = "isolated"]
        BY <2>is, <3>1 DEF Isolate
      <4>2. ~(relay[w].agg = a /\ relay[w].ver = v)
        BY <2>1, <3>1, RelayAssumption DEF HoldsClaim
      <4> QED
        BY <4>1, <4>2 DEF IInv, TypeInv, TypeOK
    <3>2. CASE ~HoldsClaim(w, relay[w].agg, relay[w].ver)
      BY <2>is, <3>2 DEF Isolate
    <3> QED
      BY <3>1, <3>2
  <2>ak. ASSUME NEW w \in Workers, Ack(w) PROVE status'[a][v] = status[a][v]
    <3>1. status' = [status EXCEPT ![relay[w].agg][relay[w].ver] = "delivered"]
      BY <2>ak DEF Ack
    <3>2. ~(relay[w].agg = a /\ relay[w].ver = v)
      BY <2>1, <2>ak, RelayAssumption DEF Ack, CurrentClaim, HoldsClaim
    <3> QED
      BY <3>1, <3>2 DEF IInv, TypeInv, TypeOK
  <2>ot. CASE UNCHANGED status
    BY <2>ot
  <2> QED
    BY <2>pub, <2>is, <2>ak, <2>ot, StatusSteps
<1>3. ASSUME NEW a \in Aggregates, NEW v \in Versions PROVE token'[a][v] >= token[a][v]
  <2>1. CASE UNCHANGED token
    BY <1>1, <2>1
  <2>2. ASSUME NEW w \in Workers, Claim(w) PROVE token'[a][v] >= token[a][v]
    <3>1. token' = [token EXCEPT ![relay[w].agg][relay[w].ver] = @ + 1]
          /\ relay[w].agg \in Aggregates /\ relay[w].ver \in Versions
      BY <2>2 DEF Claim, IInv, TypeInv, CallOK
    <3>2. token'[a][v] \in {token[a][v], token[a][v] + 1}
      BY <3>1 DEF IInv, TypeInv, TypeOK
    <3> QED
      BY <1>1, <3>2
  <2> QED
    BY <2>1, <2>2, TokenSteps
<1>4. ASSUME NEW a \in Aggregates, NEW c \in Consumers
      PROVE  cursor'[c][a] >= cursor[c][a]
  <2>1. CASE UNCHANGED effectVars
    BY <1>1, <2>1 DEF effectVars
  <2>2. ASSUME NEW w \in Workers, ConsumeCommit(w) PROVE cursor'[c][a] >= cursor[c][a]
    <3> DEFINE d == relay[w].consumer
               b == relay[w].agg
               v == relay[w].ver
    <3>1. b \in Aggregates /\ d \in Consumers /\ v = cursor[d][b] + 1
      BY <2>2, CommitIsNext DEF IInv
    <3>2. cursor' = [cursor EXCEPT ![d][b] = v]
      BY <2>2 DEF ConsumeCommit
    <3> HIDE DEF d, b, v
    <3>3. cursor'[c][a] \in {cursor[c][a], cursor[c][a] + 1}
      BY <3>1, <3>2 DEF IInv, TypeInv, TypeOK
    <3> QED
      BY <1>1, <3>3
  <2> QED
    BY <2>1, <2>2, EffectSteps
<1> QED
  BY <1>2, <1>3, <1>4

\* Statuses, tokens and cursors never step back.
THEOREM NeverStepsBack == Spec => NoStepBack
<1>1. IInv /\ IInv' /\ [Next]_vars =>
        [\A a \in Aggregates, v \in Versions :
              /\ status[a][v] \in {"delivered", "isolated"}
                    => status'[a][v] = status[a][v]
              /\ token'[a][v] >= token[a][v]
              /\ \A c \in Consumers : cursor'[c][a] >= cursor[c][a]]_vars
  BY StepForward
<1> QED
  BY <1>1, Invariance, PTL DEF Spec, NoStepBack

LEMMA ImplementsInit == Init => Ordered!Init
  BY DEF Init, Ordered!Init, Ordered!Consumers, Consumers

LEMMA ImplementsNext ==
    ASSUME IInv, [Next]_vars
    PROVE  [Ordered!Next]_(Ordered!vars)
<1>pub. ASSUME NEW a \in Aggregates, Publish(a) PROVE Ordered!Next
  <2>1. published[a] + 1 \in Versions
    BY <1>pub, RelayAssumption DEF Publish, IInv, TypeInv, TypeOK, Versions
  <2>2. Ordered!Publish(a)
    BY <1>pub, <2>1 DEF Publish, Ordered!Publish, effectVars
  <2> QED
    BY <2>2 DEF Ordered!Next
<1>is. ASSUME NEW w \in Workers, Isolate(w) PROVE [Ordered!Next]_(Ordered!vars)
  <2> DEFINE a == relay[w].agg
             v == relay[w].ver
  <2>1. a \in Aggregates /\ v \in Versions
    BY <1>is DEF Isolate, IInv, TypeInv, CallOK
  <2>2. CASE HoldsClaim(w, a, v)
    <3>1. status[a][v] = "pending"
      BY <2>1, <2>2, RelayAssumption DEF HoldsClaim, IInv, ClaimInv, StatusInv
    <3>2. Ordered!Isolate(a, v)
      BY <1>is, <2>2, <3>1 DEF Isolate, Ordered!Isolate, effectVars
    <3> QED
      BY <2>1, <3>2 DEF Ordered!Next
  <2>3. CASE ~HoldsClaim(w, a, v)
    BY <1>is, <2>3 DEF Isolate, effectVars, Ordered!vars
  <2> QED
    BY <2>2, <2>3
<1>ak. ASSUME NEW w \in Workers, Ack(w) PROVE Ordered!Next
  <2> DEFINE a == relay[w].agg
             v == relay[w].ver
  <2>1. a \in Aggregates /\ v \in Versions
    BY <1>ak DEF Ack, IInv, TypeInv, CallOK
  <2>2. status[a][v] = "pending"
    BY <1>ak, <2>1, RelayAssumption
    DEF Ack, CurrentClaim, HoldsClaim, IInv, ClaimInv, StatusInv
  <2>3. \A c \in Consumers : v \in processed[c][a]
    BY <1>ak DEF Ack, IInv, ProjectionInv, CallProjected
  <2>4. \A c \in Consumers : effects[c][a][v] = 1
    BY <2>1, <2>3 DEF IInv, ProjectionInv, EffectsExactlyOnce
  <2>5. Ordered!Deliver(a, v)
    BY <1>ak, <2>2, <2>4 DEF Ack, effectVars, Ordered!Deliver, Ordered!Consumers, Consumers
  <2> QED
    BY <2>1, <2>5 DEF Ordered!Next
<1>cc. ASSUME NEW w \in Workers, ConsumeCommit(w) PROVE Ordered!Next
  <2> DEFINE a == relay[w].agg
             v == relay[w].ver
             c == relay[w].consumer
  <2>1. /\ a \in Aggregates /\ v \in Versions /\ c \in Consumers
        /\ v = cursor[c][a] + 1
        /\ effects[c][a][v] = 0
        /\ c = Operations => v \in processed[Research][a]
    BY <1>cc, CommitIsNext DEF IInv
  <2>2. v <= published[a]
    BY <1>cc DEF ConsumeCommit, IInv, TypeInv, CallOK
  <2>3. effects' = [effects EXCEPT ![c][a][v] = @ + 1] /\ UNCHANGED <<published, status>>
    BY <1>cc DEF ConsumeCommit, eventVars
  <2> HIDE DEF a, v, c
  <2>4. effects' = [effects EXCEPT ![c][a][v] = 1]
    BY <2>1, <2>3 DEF IInv, TypeInv, TypeOK
  <2>5. ASSUME NEW u \in Versions, u < v PROVE effects[c][a][u] = 1
    <3>1. cursor[c][a] \in Nat /\ u \in Nat \ {0}
      BY <2>1, RelayAssumption DEF IInv, TypeInv, TypeOK, Versions
    <3>2. u \in 1..cursor[c][a]
      BY <2>1, <2>5, <3>1
    <3>3. processed[c][a] = 1..cursor[c][a]
      BY <2>1 DEF IInv, ProjectionInv, ContiguousProjection
    <3> QED
      BY <2>1, <3>2, <3>3 DEF IInv, ProjectionInv, EffectsExactlyOnce
  <2>6. c = Operations => effects[Research][a][v] = 1
    BY <2>1 DEF IInv, ProjectionInv, EffectsExactlyOnce, Consumers
  <2>7. Ordered!Apply(c, a, v)
    BY <2>1, <2>2, <2>3, <2>4, <2>5, <2>6 DEF Ordered!Apply
  <2> QED
    BY <2>1, <2>7 DEF Ordered!Next, Ordered!Consumers, Consumers
<1>ot. CASE UNCHANGED <<published, status, effects>>
  BY <1>ot DEF Ordered!vars
<1>1. \/ \E a \in Aggregates : Publish(a)
      \/ \E w \in Workers : Isolate(w) \/ Ack(w) \/ ConsumeCommit(w)
      \/ UNCHANGED <<published, status, effects>>
  BY StatusSteps, EffectSteps DEF effectVars
<1> QED
  BY <1>pub, <1>is, <1>ak, <1>cc, <1>ot, <1>1

\* The relay implements exactly-once, in-order delivery.
THEOREM RelayImplementsOrderedDelivery == Spec => ImplementsOrderedDelivery
<1>1. IInv /\ [Next]_vars => [Ordered!Next]_(Ordered!vars)
  BY ImplementsNext
<1> QED
  BY <1>1, ImplementsInit, Invariance, PTL
  DEF Spec, ImplementsOrderedDelivery, Ordered!Spec

================================================================================
