------------------------ MODULE SourceCredentialsProofs ------------------------
(***************************************************************************)
(* Proofs about SourceCredentials, for any requests, ingest works, secrets *)
(* and bounds on versions and disturbances.                                *)
(***************************************************************************)
EXTENDS SourceCredentials, SequenceTheorems, TLAPS

InLedger(r) == \E i \in DOMAIN ledger : ledger[i].ref = r

\* A request in call k has a secret of its own in hand.
HoldsSecret(k) ==
    k.kind \in {"set", "rotate"} /\ k.stage \in {"stored", "write", "undo"}

\* A secret that nobody but the request that put it knows of.
Untouched(r) == ~InLedger(r) /\ cleanup[r] = "none" /\ r \in secrets

\* What a request in call k knows stays true whatever the others do: its own
\* secret is untouched unless its publication committed after all, what it is
\* about to remove or has removed was queued, a transaction that finds the
\* version it has read may go on, and what it says of a secret is so.
CallOK(k) ==
    /\ k.stage \in {"stored", "undo"} => k.kind \in {"set", "rotate"}
    /\ k.stage = "write" =>
          /\ k.kind \in {"set", "rotate", "revoke"}
          /\ k.seen <= Len(ledger)
          /\ k.seen = Len(ledger) => Allowed(k.kind)
    /\ HoldsSecret(k) =>
          /\ k.ref \in made
          /\ Untouched(k.ref) \/ (k.stage = "undo" /\ k.ref \in unanswered)
    /\ \A r \in k.todo : cleanup[r] # "none"
    /\ k.stage = "complete" =>
          k.ref \in made \ secrets /\ cleanup[k.ref] # "none"
    /\ k.stage \in {"check", "verdict"} => k.ref \in Refs
    /\ k.stage = "verdict" /\ k.verdict = "valid" => k.ref \in Genuine

CallsOK == \A o \in Operators : CallOK(call[o])

\* No two requests have the same secret in hand.
HoldersApart ==
    \A o, x \in Operators :
        /\ HoldsSecret(call[o]) /\ HoldsSecret(call[x])
        /\ call[o].ref = call[x].ref
        => o = x

\* The current secret is stored and not queued, what is done is removed, and the
\* ledger and the queue name only secrets that were made.
StoreOK ==
    /\ InUse => \/ Current.ref \in unanswered
                \/ Current.ref \in secrets /\ cleanup[Current.ref] = "none"
    /\ \A r \in secrets : cleanup[r] # "done"
    /\ \A i \in DOMAIN ledger : ledger[i].ref \in made
    /\ \A r \in Refs : cleanup[r] # "none" => r \in made

\* A pin is a version that was valid; a lease is of the pin.
ResolverOK ==
    \A w \in Works :
        /\ pin[w] # 0 => /\ pin[w] \in DOMAIN ledger
                         /\ ledger[pin[w]].readiness = "valid"
        /\ w \in resolving => pin[w] # 0
        /\ lease[w] # None => /\ pin[w] # 0 /\ w \notin closed
                              /\ lease[w] = ledger[pin[w]].ref

IInv ==
    /\ TypeOK
    /\ CallsOK /\ HoldersApart
    /\ StoreOK /\ NoSecretLeaks
    /\ ValidIsGenuine
    /\ ResolverOK

-----------------------------------------------------------------------------
(* Steps of a request and of the others.                                   *)

LEMMA NoCallOK == NoCall \in Call /\ CallOK(NoCall) /\ ~HoldsSecret(NoCall)
<1>1. /\ NoCall.kind = "finish" /\ NoCall.stage = "idle" /\ NoCall.todo = {}
      /\ NoCall \in Call
  BY CredentialAssumption DEF NoCall, Call, Kinds, Stages, Verdicts
<1> QED
  BY <1>1 DEF CallOK, HoldsSecret

\* The ledger is a sequence of versions.
LEMMA LedgerFacts ==
    ASSUME TypeOK
    PROVE  /\ Len(ledger) \in Nat /\ DOMAIN ledger = 1..Len(ledger)
           /\ \A i \in DOMAIN ledger : ledger[i] \in Version
           /\ InUse => Len(ledger) \in DOMAIN ledger /\ Current \in Version
<1>1. ledger \in Seq(Version) /\ Len(ledger) \in Nat /\ DOMAIN ledger = 1..Len(ledger)
  BY LenProperties DEF TypeOK
<1>2. \A i \in DOMAIN ledger : ledger[i] \in Version
  BY <1>1, ElementOfSeq
<1> QED
  BY <1>1, <1>2 DEF InUse, Current

\* What no step takes away: secrets that were made, publications reported as
\* failed, rows of the queue and of the ledger; and no secret comes back.
Keeps ==
    /\ made \subseteq made' /\ unanswered \subseteq unanswered'
    /\ secrets' \cap made \subseteq secrets
    /\ \A r \in Refs : cleanup[r] # "none" => cleanup'[r] # "none"
    /\ Len(ledger) <= Len(ledger')
    /\ Len(ledger') = Len(ledger) => UNCHANGED ledger

LEMMA KeepsCall ==
    ASSUME TypeOK, TypeOK', Keeps, NEW k \in Call, CallOK(k),
           HoldsSecret(k) /\ Untouched(k.ref) => Untouched(k.ref)'
    PROVE  CallOK(k)'
<1>1. /\ Len(ledger) \in Nat /\ Len(ledger') \in Nat
      /\ Len(ledger) <= Len(ledger') /\ k.seen \in Nat
  <2>1. Len(ledger) \in Nat /\ Len(ledger') \in Nat
    BY LenProperties DEF TypeOK
  <2> QED
    BY <2>1, CredentialAssumption DEF Keeps, Call
<1>2. ASSUME k.stage = "write"
      PROVE  /\ k.seen <= Len(ledger')
             /\ k.seen = Len(ledger') => Allowed(k.kind)'
  <2>1. k.seen <= Len(ledger) /\ (k.seen = Len(ledger) => Allowed(k.kind))
    BY <1>2 DEF CallOK
  <2>2. k.seen = Len(ledger') => k.seen = Len(ledger) /\ UNCHANGED ledger
    BY <1>1, <2>1 DEF Keeps
  <2> QED
    BY <1>1, <2>1, <2>2 DEF Allowed, InUse, Current
<1>3. k.todo \subseteq Refs
  BY DEF Call
<1>4. HoldsSecret(k) => /\ k.ref \in made'
                        /\ Untouched(k.ref)' \/ (k.stage = "undo" /\ k.ref \in unanswered')
  BY DEF CallOK, Keeps
<1>5. k.stage = "complete" => k.ref \in made' \ secrets' /\ cleanup'[k.ref] # "none"
  BY DEF CallOK, Keeps, TypeOK
<1> QED
  BY <1>2, <1>3, <1>4, <1>5 DEF CallOK, Keeps, HoldsSecret

\* One request moves on, whatever it has stored meanwhile.
LEMMA OneCall ==
    ASSUME TypeOK, TypeOK', Keeps, CallsOK, HoldersApart,
           NEW o \in Operators, NEW k \in Call, call' = [call EXCEPT ![o] = k],
           CallOK(k)',
           \A x \in Operators \ {o} :
               HoldsSecret(call[x]) /\ Untouched(call[x].ref) => Untouched(call[x].ref)',
           HoldsSecret(k) => \/ HoldsSecret(call[o]) /\ k.ref = call[o].ref
                             \/ k.ref \notin made
    PROVE  CallsOK' /\ HoldersApart'
<1>1. /\ call'[o] = k
      /\ \A x \in Operators \ {o} : call'[x] = call[x] /\ call[x] \in Call
  BY DEF TypeOK
<1>2. ASSUME NEW x \in Operators \ {o}
      PROVE  CallOK(call[x])'
  <2> DEFINE c == call[x]
  <2>1. PICK d \in Call : d = c
    BY <1>1
  <2>2. CallOK(d)'
    <3>1. HoldsSecret(d) /\ Untouched(d.ref) => Untouched(d.ref)'
      <4>1. PICK r : r = d.ref
        OBVIOUS
      <4>2. HoldsSecret(call[x]) /\ Untouched(call[x].ref) => Untouched(call[x].ref)'
        OBVIOUS
      <4>3. call'[x].ref = d.ref
        BY <1>1, <2>1
      <4> QED
        BY <2>1, <4>2, <4>3 DEF HoldsSecret, Untouched, InLedger
    <3>2. CallOK(d)
      BY <2>1 DEF CallsOK
    <3> QED
      BY <3>1, <3>2, KeepsCall
  <2> QED
    BY <1>1, <2>1, <2>2
<1>3. CallOK(call[o])'
  BY <1>1
<1>4. ASSUME NEW x \in Operators \ {o}, HoldsSecret(call[x])
      PROVE  call[x].ref \in made
  BY <1>4 DEF CallsOK, CallOK
<1>5. HoldersApart'
  <2> SUFFICES ASSUME NEW x \in Operators, NEW y \in Operators, x # y,
                      HoldsSecret(call'[x]), HoldsSecret(call'[y]),
                      call'[x].ref = call'[y].ref
               PROVE  FALSE
    BY DEF HoldersApart, HoldsSecret
  <2>1. CASE x # o /\ y # o
    BY <1>1, <2>1 DEF HoldersApart
  <2>2. CASE x = o
    BY <1>1, <1>4, <2>2 DEF HoldersApart
  <2>3. CASE y = o
    BY <1>1, <1>4, <2>3 DEF HoldersApart
  <2> QED
    BY <2>1, <2>2, <2>3
<1> QED
  BY <1>2, <1>3, <1>5 DEF CallsOK

\* A request moves on and leaves the stores alone; what it had in hand it keeps,
\* or it is lost with it.
LEMMA CallStep ==
    ASSUME IInv, NEW o \in Operators, NEW k \in Call, call' = [call EXCEPT ![o] = k],
           UNCHANGED <<storeVars, secretVars, resolverVars, unanswered>>,
           CallOK(k),
           HoldsSecret(k) => HoldsSecret(call[o]) /\ k.ref = call[o].ref,
           abandoned \subseteq abandoned', abandoned' \in SUBSET made,
           HoldsSecret(call[o]) =>
               (HoldsSecret(k) /\ k.ref = call[o].ref) \/ call[o].ref \in abandoned',
           disturbed' \in 0..MaxDisturbances
    PROVE  IInv'
<1> USE DEF storeVars, secretVars, resolverVars
<1>1. /\ call' \in [Operators -> Call] /\ call'[o] = k
      /\ \A x \in Operators \ {o} : call'[x] = call[x]
  BY DEF IInv, TypeOK
<1>2. TypeOK'
  BY <1>1 DEF IInv, TypeOK
<1>3. Keeps
  BY LenProperties DEF IInv, TypeOK, Keeps
<1>4. CallOK(k)'
  BY DEF CallOK, Allowed, InUse, Current, Untouched, InLedger
<1>5. \A r : Untouched(r) => Untouched(r)'
  BY DEF Untouched, InLedger
<1>6. CallsOK' /\ HoldersApart'
  <2>1. ASSUME NEW x \in Operators \ {o}, Untouched(call[x].ref)
        PROVE  Untouched(call[x].ref)'
    BY <1>1, <2>1 DEF Untouched, InLedger
  <2> QED
    BY <1>2, <1>3, <1>4, <2>1, OneCall DEF IInv
<1>7. NoSecretLeaks'
  <2> SUFFICES ASSUME NEW r \in secrets \ abandoned',
                      ~(InUse /\ Current.ref = r), cleanup[r] # "pending"
               PROVE  \E x \in Operators : HoldsSecret(call'[x]) /\ call'[x].ref = r
    BY DEF NoSecretLeaks, InUse, Current, HoldsSecret
  <2>1. PICK x \in Operators : HoldsSecret(call[x]) /\ call[x].ref = r
    BY DEF IInv, NoSecretLeaks, HoldsSecret
  <2>2. CASE x # o
    BY <1>1, <2>1, <2>2
  <2>3. CASE x = o
    BY <1>1, <2>1, <2>3
  <2> QED
    BY <2>2, <2>3
<1>8. StoreOK' /\ ValidIsGenuine' /\ ResolverOK'
  BY DEF IInv, StoreOK, ValidIsGenuine, ResolverOK, InUse, Current
<1> QED
  BY <1>2, <1>6, <1>7, <1>8 DEF IInv

\* A request that has no secret in hand ends.
LEMMA ReturnStep ==
    ASSUME IInv, NEW o \in Operators, Return(o), ~HoldsSecret(call[o]),
           UNCHANGED <<storeVars, secretVars, resolverVars, lossVars>>,
           disturbed' \in 0..MaxDisturbances
    PROVE  IInv'
<1>1. abandoned \subseteq abandoned' /\ abandoned' \in SUBSET made
  BY DEF lossVars, IInv, TypeOK
<1>2. call' = [call EXCEPT ![o] = NoCall] /\ UNCHANGED unanswered
  BY DEF Return, lossVars
<1> QED
  BY <1>1, <1>2, NoCallOK, CallStep

\* A request keeps what it has in hand and moves on without a trace.
LEMMA MoveStep ==
    ASSUME IInv, NEW o \in Operators, NEW k \in Call, call' = [call EXCEPT ![o] = k],
           UNCHANGED <<storeVars, secretVars, resolverVars, lossVars>>,
           disturbed' \in 0..MaxDisturbances,
           CallOK(k),
           HoldsSecret(k) <=> HoldsSecret(call[o]),
           HoldsSecret(k) => k.ref = call[o].ref
    PROVE  IInv'
<1>1. abandoned \subseteq abandoned' /\ abandoned' \in SUBSET made
  BY DEF lossVars, IInv, TypeOK
<1>2. UNCHANGED unanswered
  BY DEF lossVars
<1> QED
  BY <1>1, <1>2, CallStep

-----------------------------------------------------------------------------
(* The steps of a request that leave the stores alone.                     *)

LEMMA CallFacts ==
    ASSUME IInv, NEW o \in Operators
    PROVE  call[o] \in Call /\ CallOK(call[o]) /\ disturbed \in 0..MaxDisturbances
BY DEF IInv, TypeOK, CallsOK

LEMMA DisturbType ==
    ASSUME TypeOK, Disturb
    PROVE  disturbed' \in 0..MaxDisturbances
BY CredentialAssumption DEF TypeOK, Disturb

LEMMA BeginIInv ==
    ASSUME IInv, NEW o \in Operators, NEW kind \in Kinds, Begin(o, kind)
    PROVE  IInv'
<1> DEFINE k == [NoCall EXCEPT !.kind = kind, !.stage = "list"]
<1>1. k \in Call /\ k.stage = "list" /\ k.todo = {}
  <2>1. NoCall.todo = {}
    BY DEF NoCall
  <2> QED
    BY <2>1, NoCallOK DEF Call, Stages
<1>2. call' = [call EXCEPT ![o] = k] /\ call[o].stage = "idle"
  BY DEF Begin
<1>3. UNCHANGED <<storeVars, secretVars, resolverVars, lossVars>> /\ disturbed' = disturbed
  BY DEF Begin
<1> HIDE DEF k
<1>4. CallOK(k) /\ ~HoldsSecret(k) /\ ~HoldsSecret(call[o])
  BY <1>1, <1>2 DEF CallOK, HoldsSecret
<1> QED
  BY <1>1, <1>2, <1>3, <1>4, CallFacts, MoveStep

LEMMA ListCleanupIInv ==
    ASSUME IInv, NEW o \in Operators, ListCleanup(o)
    PROVE  IInv'
<1> DEFINE k == [call[o] EXCEPT !.stage = "drain", !.todo = PendingCleanup]
<1>1. k \in Call /\ k.stage = "drain" /\ k.todo = PendingCleanup
  BY CallFacts DEF Call, Stages, PendingCleanup
<1>2. call' = [call EXCEPT ![o] = k] /\ call[o].stage = "list"
  BY DEF ListCleanup, IInv, TypeOK
<1>3. UNCHANGED <<storeVars, secretVars, resolverVars, lossVars>> /\ disturbed' = disturbed
  BY DEF ListCleanup
<1> HIDE DEF k
<1>4. CallOK(k) /\ ~HoldsSecret(k) /\ ~HoldsSecret(call[o])
  BY <1>1, <1>2 DEF CallOK, HoldsSecret, PendingCleanup
<1> QED
  BY <1>1, <1>2, <1>3, <1>4, CallFacts, MoveStep

LEMMA RemoveFailsIInv ==
    ASSUME IInv, NEW o \in Operators, RemoveFails(o)
    PROVE  IInv'
<1>1. PICK r \in call[o].todo : call' = [call EXCEPT ![o].todo = @ \ {r}]
  BY DEF RemoveFails
<1> DEFINE k == [call[o] EXCEPT !.todo = @ \ {r}]
<1>2. k \in Call /\ k.stage = "drain" /\ k.todo \subseteq call[o].todo
  BY CallFacts DEF RemoveFails, Call
<1>3. call' = [call EXCEPT ![o] = k] /\ call[o].stage = "drain"
  BY <1>1 DEF RemoveFails, IInv, TypeOK
<1>4. UNCHANGED <<storeVars, secretVars, resolverVars, lossVars>> /\ Disturb
  BY DEF RemoveFails
<1> HIDE DEF k
<1>5. CallOK(k) /\ ~HoldsSecret(k) /\ ~HoldsSecret(call[o])
  BY <1>2, <1>3, CallFacts DEF CallOK, HoldsSecret
<1>6. disturbed' \in 0..MaxDisturbances
  BY <1>4, DisturbType DEF IInv
<1> QED
  BY <1>2, <1>3, <1>4, <1>5, <1>6, MoveStep

\* A secret that was just put, or whose version was not written, is withdrawn.
LEMMA GotoUndo ==
    ASSUME IInv, NEW o \in Operators, HoldsSecret(call[o]), Goto(o, "undo"),
           UNCHANGED <<storeVars, secretVars, resolverVars, lossVars>>,
           disturbed' \in 0..MaxDisturbances
    PROVE  IInv'
<1> DEFINE k == [call[o] EXCEPT !.stage = "undo"]
<1>1. /\ k \in Call /\ k.stage = "undo" /\ k.kind = call[o].kind
      /\ k.ref = call[o].ref /\ k.todo = call[o].todo
  BY CallFacts DEF Call, Stages
<1>2. call' = [call EXCEPT ![o] = k]
  BY DEF Goto, IInv, TypeOK
<1> HIDE DEF k
<1>3. CallOK(k) /\ HoldsSecret(k)
  BY <1>1, CallFacts DEF CallOK, HoldsSecret
<1> QED
  BY <1>1, <1>2, <1>3, MoveStep

LEMMA ReadCurrentIInv ==
    ASSUME IInv, NEW o \in Operators, ReadCurrent(o)
    PROVE  IInv'
<1> DEFINE k == [call[o] EXCEPT !.stage = "write", !.seen = Len(ledger)]
<1>1. Len(ledger) \in 0..MaxVersions
  BY LenProperties, CredentialAssumption DEF IInv, TypeOK
<1>2. /\ k \in Call /\ k.stage = "write" /\ k.kind = call[o].kind
      /\ k.ref = call[o].ref /\ k.todo = call[o].todo /\ k.seen = Len(ledger)
  BY <1>1, CallFacts DEF Call, Stages
<1>3. call' = [call EXCEPT ![o] = k]
  BY DEF ReadCurrent, IInv, TypeOK
<1>4. /\ UNCHANGED <<storeVars, secretVars, resolverVars, lossVars>>
      /\ disturbed' = disturbed /\ Allowed(call[o].kind)
      /\ \/ call[o].kind \in {"set", "rotate"} /\ call[o].stage = "stored"
         \/ call[o].kind = "revoke" /\ call[o].stage = "drain"
  BY DEF ReadCurrent, Drained
<1> HIDE DEF k
<1>5. HoldsSecret(k) <=> HoldsSecret(call[o])
  BY <1>2, <1>4 DEF HoldsSecret
<1>6. CallOK(k)
  BY <1>1, <1>2, <1>4, CallFacts DEF CallOK, HoldsSecret
<1> QED
  BY <1>2, <1>3, <1>4, <1>5, <1>6, CallFacts, MoveStep

LEMMA NotAllowedIInv ==
    ASSUME IInv, NEW o \in Operators, NotAllowed(o)
    PROVE  IInv'
<1>1. UNCHANGED <<storeVars, secretVars, resolverVars, lossVars>>
      /\ disturbed' \in 0..MaxDisturbances
  BY CallFacts DEF NotAllowed
<1>2. CASE Drained(o, {"revoke"}) /\ Return(o)
  <2>1. ~HoldsSecret(call[o])
    BY <1>2 DEF Drained, HoldsSecret
  <2> QED
    BY <1>1, <1>2, <2>1, ReturnStep
<1>3. CASE call[o].kind \in {"set", "rotate"} /\ call[o].stage = "stored" /\ Goto(o, "undo")
  <2>1. HoldsSecret(call[o])
    BY <1>3 DEF HoldsSecret
  <2> QED
    BY <1>1, <1>3, <2>1, GotoUndo
<1> QED
  BY <1>2, <1>3 DEF NotAllowed

\* A failed transaction that has written nothing.
LEMMA NothingWritten ==
    ASSUME IInv, NEW o \in Operators, call[o].stage = "write", AfterFailure(o),
           UNCHANGED <<storeVars, secretVars, resolverVars, lossVars>>,
           disturbed' \in 0..MaxDisturbances
    PROVE  IInv'
<1>1. CASE call[o].kind = "revoke"
  <2>1. ~HoldsSecret(call[o]) /\ Return(o)
    BY <1>1 DEF AfterFailure, HoldsSecret
  <2> QED
    BY <2>1, ReturnStep
<1>2. CASE call[o].kind # "revoke"
  <2>1. HoldsSecret(call[o]) /\ Goto(o, "undo")
    BY <1>2, CallFacts DEF AfterFailure, HoldsSecret, CallOK
  <2> QED
    BY <2>1, GotoUndo
<1> QED
  BY <1>1, <1>2

LEMMA ReadForValidationIInv ==
    ASSUME IInv, NEW o \in Operators, ReadForValidation(o)
    PROVE  IInv'
<1> DEFINE s == IF Current.ref \in aged THEN "verdict" ELSE "check"
           v == IF Current.ref \in aged THEN "expired" ELSE call[o].verdict
           k == [call[o] EXCEPT !.stage = s, !.verdict = v,
                                !.ref = Current.ref, !.seen = Len(ledger)]
<1>1. /\ Len(ledger) \in 0..MaxVersions /\ Current.ref \in Refs
  BY LedgerFacts, CredentialAssumption DEF IInv, TypeOK, ReadForValidation, Version
<1>2. /\ k \in Call /\ k.stage = s /\ k.verdict = v /\ k.kind = call[o].kind
      /\ k.ref = Current.ref /\ k.todo = call[o].todo
  <2>1. s \in Stages /\ v \in Verdicts
    BY CallFacts DEF Call, Stages, Verdicts
  <2> HIDE DEF s, v
  <2> QED
    BY <1>1, <2>1, CallFacts DEF Call
<1>3. call' = [call EXCEPT ![o] = k]
  BY DEF ReadForValidation, IInv, TypeOK
<1>4. /\ UNCHANGED <<storeVars, secretVars, resolverVars, lossVars>>
      /\ disturbed' = disturbed
      /\ call[o].kind = "validate" /\ call[o].stage = "drain"
  BY DEF ReadForValidation, Drained
<1> HIDE DEF k
<1>5. ~HoldsSecret(k) /\ ~HoldsSecret(call[o])
  BY <1>2, <1>4 DEF HoldsSecret
<1>6. CallOK(k)
  BY <1>1, <1>2, <1>4, <1>5, CallFacts DEF CallOK
<1> QED
  BY <1>2, <1>3, <1>4, <1>5, <1>6, CallFacts, MoveStep

LEMMA JudgeIInv ==
    ASSUME IInv, NEW o \in Operators, Judge(o)
    PROVE  IInv'
<1>1. PICK v \in Reported(call[o].ref) :
          call' = [call EXCEPT ![o].stage = "verdict", ![o].verdict = v]
  BY DEF Judge
<1> DEFINE k == [call[o] EXCEPT !.stage = "verdict", !.verdict = v]
<1>2. /\ k \in Call /\ k.stage = "verdict" /\ k.verdict = v
      /\ k.ref = call[o].ref /\ k.todo = call[o].todo
  BY CallFacts DEF Reported, Call, Stages
<1>3. call' = [call EXCEPT ![o] = k]
  BY <1>1 DEF IInv, TypeOK
<1>4. /\ UNCHANGED <<storeVars, secretVars, resolverVars, lossVars>>
      /\ disturbed' = disturbed /\ call[o].stage = "check"
  BY DEF Judge
<1> HIDE DEF k
<1>5. CallOK(k) /\ ~HoldsSecret(k) /\ ~HoldsSecret(call[o])
  BY <1>2, <1>4, CallFacts DEF CallOK, HoldsSecret, Reported
<1> QED
  BY <1>2, <1>3, <1>4, <1>5, CallFacts, MoveStep

LEMMA DieIInv ==
    ASSUME IInv, NEW o \in Operators, Die(o)
    PROVE  IInv'
<1>1. /\ call' = [call EXCEPT ![o] = NoCall] /\ Disturb
      /\ UNCHANGED <<storeVars, secretVars, resolverVars, unanswered>>
  BY DEF Die, Return
<1>2. abandoned' = IF HoldsSecret(call[o]) THEN abandoned \cup {call[o].ref} ELSE abandoned
  BY DEF Die, HoldsSecret
<1>3. /\ abandoned \subseteq abandoned' /\ abandoned' \in SUBSET made
      /\ HoldsSecret(call[o]) => call[o].ref \in abandoned'
  BY <1>2, CallFacts DEF CallOK, IInv, TypeOK
<1>4. disturbed' \in 0..MaxDisturbances
  BY <1>1, DisturbType DEF IInv
<1> QED
  BY <1>1, <1>3, <1>4, NoCallOK, CallStep

-----------------------------------------------------------------------------
(* The ledger grows.                                                       *)

LEMMA AppendFacts ==
    ASSUME TypeOK, NEW v \in Version, ledger' = Append(ledger, v)
    PROVE  /\ ledger' \in Seq(Version) /\ Len(ledger) \in Nat
           /\ Len(ledger') = Len(ledger) + 1
           /\ DOMAIN ledger = 1..Len(ledger)
           /\ DOMAIN ledger' = 1..(Len(ledger) + 1)
           /\ \A i \in DOMAIN ledger : ledger'[i] = ledger[i]
           /\ ledger'[Len(ledger) + 1] = v
           /\ Current' = v /\ (InUse' <=> v.readiness # "revoked")
<1>1. ledger \in Seq(Version)
  BY DEF TypeOK
<1>2. /\ ledger' \in Seq(Version) /\ Len(ledger) \in Nat
      /\ Len(ledger') = Len(ledger) + 1
      /\ DOMAIN ledger = 1..Len(ledger)
      /\ DOMAIN ledger' = 1..(Len(ledger) + 1)
      /\ \A i \in DOMAIN ledger : ledger'[i] = ledger[i]
      /\ ledger'[Len(ledger) + 1] = v
  BY <1>1, AppendProperties, LenProperties
<1> QED
  BY <1>2 DEF Current, InUse

\* A new version leaves the pins and the leases what they were.
LEMMA AppendResolver ==
    ASSUME TypeOK, ResolverOK, NEW v \in Version, ledger' = Append(ledger, v),
           UNCHANGED resolverVars
    PROVE  ResolverOK'
BY AppendFacts DEF ResolverOK, resolverVars

LEMMA AppendValid ==
    ASSUME TypeOK, ValidIsGenuine, NEW v \in Version, ledger' = Append(ledger, v),
           v.readiness = "valid" => v.ref \in Genuine
    PROVE  ValidIsGenuine'
<1>1. ASSUME NEW i \in DOMAIN ledger', ledger'[i].readiness = "valid"
      PROVE  ledger'[i].ref \in Genuine
  <2>1. CASE i \in DOMAIN ledger
    BY <1>1, <2>1, AppendFacts DEF ValidIsGenuine
  <2>2. CASE i \notin DOMAIN ledger
    <3>1. i = Len(ledger) + 1
      BY <2>2, AppendFacts
    <3> QED
      BY <1>1, <3>1, AppendFacts
  <2> QED
    BY <2>1, <2>2
<1> QED
  BY <1>1 DEF ValidIsGenuine

\* What a transaction writes.
LEMMA WriteFacts ==
    ASSUME IInv, NEW o \in Operators, call[o].stage = "write", Write(o)
    PROVE  /\ \E v \in Version :
                  /\ ledger' = Append(ledger, v) /\ Len(ledger) < MaxVersions
                  /\ v.readiness # "valid" /\ v.ref \in made
                  /\ \/ call[o].kind = "revoke" /\ v = [ref |-> Current.ref, readiness |-> "revoked"]
                     \/ /\ call[o].kind \in {"set", "rotate"}
                        /\ v = [ref |-> call[o].ref, readiness |-> "configured"]
           /\ \/ call[o].kind = "set" /\ ~InUse /\ cleanup' = cleanup
              \/ /\ call[o].kind \in {"rotate", "revoke"} /\ InUse
                 /\ Current.ref \in Refs /\ cleanup[Current.ref] = "none"
                 /\ cleanup' = [cleanup EXCEPT ![Current.ref] = "pending"]
           /\ call[o].kind \in {"set", "rotate"} =>
                 /\ HoldsSecret(call[o]) /\ call[o].ref \in Refs
                 /\ Untouched(call[o].ref)
<1>1. /\ call[o].kind \in {"set", "rotate", "revoke"}
      /\ call[o].seen = Len(ledger) /\ Allowed(call[o].kind)
      /\ Len(ledger) < MaxVersions
      /\ call[o].kind # "set" => cleanup[Current.ref] = "none"
  BY CallFacts DEF CallOK, Write, Inserts
<1>2. InUse => Len(ledger) \in DOMAIN ledger /\ Current \in Version /\ Current.ref \in made
  BY LedgerFacts DEF IInv, StoreOK, Current
<1>3. call[o].kind \in {"set", "rotate"} =>
          /\ HoldsSecret(call[o]) /\ call[o].ref \in made
          /\ Untouched(call[o].ref)
  BY CallFacts DEF CallOK, HoldsSecret
<1>4. made \subseteq Refs /\ cleanup = [r \in Refs |-> cleanup[r]]
  BY DEF IInv, TypeOK
<1>5. CASE call[o].kind = "set"
  <2>1. /\ ledger' = Append(ledger, [ref |-> call[o].ref, readiness |-> "configured"])
        /\ cleanup' = [r \in Refs |-> cleanup[r]]
    BY <1>5 DEF Write, Retired
  <2>2. [ref |-> call[o].ref, readiness |-> "configured"] \in Version
    BY <1>3, <1>4, <1>5 DEF Version, Verdicts
  <2> QED
    BY <1>1, <1>3, <1>4, <1>5, <2>1, <2>2 DEF Allowed
<1>6. CASE call[o].kind = "rotate"
  <2>1. /\ ledger' = Append(ledger, [ref |-> call[o].ref, readiness |-> "configured"])
        /\ cleanup' = [r \in Refs |-> IF r \in {Current.ref} THEN "pending" ELSE cleanup[r]]
    BY <1>6 DEF Write, Retired
  <2>2. [ref |-> call[o].ref, readiness |-> "configured"] \in Version
    BY <1>3, <1>4, <1>6 DEF Version, Verdicts
  <2>3. InUse /\ Current.ref \in Refs
    BY <1>1, <1>2, <1>4, <1>6 DEF Allowed
  <2>4. cleanup' = [cleanup EXCEPT ![Current.ref] = "pending"]
    BY <1>4, <2>1, <2>3
  <2> QED
    BY <1>1, <1>3, <1>4, <1>6, <2>1, <2>2, <2>3, <2>4
<1>7. CASE call[o].kind = "revoke"
  <2>1. /\ ledger' = Append(ledger, [ref |-> Current.ref, readiness |-> "revoked"])
        /\ cleanup' = [r \in Refs |-> IF r \in {Current.ref} THEN "pending" ELSE cleanup[r]]
    BY <1>7 DEF Write, Retired
  <2>2. InUse /\ Current.ref \in Refs /\ Current.ref \in made
    BY <1>1, <1>2, <1>4, <1>7 DEF Allowed
  <2>3. [ref |-> Current.ref, readiness |-> "revoked"] \in Version
    BY <2>2 DEF Version
  <2>4. cleanup' = [cleanup EXCEPT ![Current.ref] = "pending"]
    BY <1>4, <2>1, <2>2
  <2> QED
    BY <1>1, <1>7, <2>1, <2>2, <2>3, <2>4
<1> QED
  BY <1>1, <1>5, <1>6, <1>7

LEMMA WriteStep ==
    ASSUME IInv, NEW o \in Operators, call[o].stage = "write", Write(o),
           NEW k \in Call, call' = [call EXCEPT ![o] = k], CallOK(k)',
           HoldsSecret(k) => HoldsSecret(call[o]) /\ k.ref = call[o].ref,
           UNCHANGED <<secretVars, resolverVars, abandoned>>,
           unanswered \subseteq unanswered', unanswered' \in SUBSET made,
           disturbed' \in 0..MaxDisturbances
    PROVE  IInv'
<1> USE DEF secretVars
<1>1. PICK v \in Version :
          /\ ledger' = Append(ledger, v) /\ Len(ledger) < MaxVersions
          /\ v.readiness # "valid" /\ v.ref \in made
          /\ \/ call[o].kind = "revoke" /\ v = [ref |-> Current.ref, readiness |-> "revoked"]
             \/ /\ call[o].kind \in {"set", "rotate"}
                /\ v = [ref |-> call[o].ref, readiness |-> "configured"]
  BY WriteFacts
<1>2. \/ call[o].kind = "set" /\ ~InUse /\ cleanup' = cleanup
      \/ /\ call[o].kind \in {"rotate", "revoke"} /\ InUse
         /\ Current.ref \in Refs /\ cleanup[Current.ref] = "none"
         /\ cleanup' = [cleanup EXCEPT ![Current.ref] = "pending"]
  BY WriteFacts
<1>3. call[o].kind \in {"set", "rotate"} =>
          HoldsSecret(call[o]) /\ call[o].ref \in Refs /\ Untouched(call[o].ref)
  BY WriteFacts
<1>4. /\ ledger' \in Seq(Version) /\ Len(ledger) \in Nat
      /\ Len(ledger') = Len(ledger) + 1
      /\ DOMAIN ledger = 1..Len(ledger)
      /\ DOMAIN ledger' = 1..(Len(ledger) + 1)
      /\ \A i \in DOMAIN ledger : ledger'[i] = ledger[i]
      /\ ledger'[Len(ledger) + 1] = v
      /\ Current' = v /\ (InUse' <=> v.readiness # "revoked")
  BY <1>1, AppendFacts DEF IInv
<1>5. /\ call' \in [Operators -> Call] /\ call'[o] = k
      /\ \A x \in Operators \ {o} : call'[x] = call[x]
  BY DEF IInv, TypeOK
<1>6. cleanup \in [Refs -> {"none", "pending", "done"}]
      /\ cleanup' \in [Refs -> {"none", "pending", "done"}]
  BY <1>2 DEF IInv, TypeOK
<1>7. TypeOK'
  <2>1. Len(ledger') <= MaxVersions
    BY <1>1, <1>4, CredentialAssumption
  <2> QED
    BY <1>4, <1>5, <1>6, <2>1 DEF IInv, TypeOK, resolverVars
<1>8. Keeps
  <2>1. \A r \in Refs : cleanup[r] # "none" => cleanup'[r] # "none"
    BY <1>2, <1>6
  <2>2. made' = made /\ secrets' = secrets
    OBVIOUS
  <2>3. Len(ledger) <= Len(ledger') /\ Len(ledger') # Len(ledger)
    <3>1. Len(ledger) \in Nat /\ Len(ledger') = Len(ledger) + 1
      BY <1>4
    <3> HIDE <1>4
    <3> QED
      BY ONLY <3>1
  <2> QED
    BY <2>1, <2>2, <2>3 DEF Keeps
<1>9. InUse => InLedger(Current.ref)
  BY LedgerFacts DEF IInv, InLedger, Current
<1>10. \A r : InLedger(r)' <=> InLedger(r) \/ r = v.ref
  <2>1. ASSUME NEW r, InLedger(r)'
        PROVE  InLedger(r) \/ r = v.ref
    <3>1. PICK i \in DOMAIN ledger' : ledger'[i].ref = r
      BY <2>1 DEF InLedger
    <3>2. i \in DOMAIN ledger \/ i = Len(ledger) + 1
      BY <1>4
    <3> QED
      BY <1>4, <3>1, <3>2 DEF InLedger
  <2>2. ASSUME NEW r, InLedger(r) \/ r = v.ref
        PROVE  InLedger(r)'
    BY <1>4, <2>2 DEF InLedger
  <2> QED
    BY <2>1, <2>2
<1>11. ASSUME NEW x \in Operators \ {o}, HoldsSecret(call[x]), Untouched(call[x].ref)
       PROVE  Untouched(call[x].ref)'
  <2>1. PICK r : r = call[x].ref
    OBVIOUS
  <2>2. r # v.ref /\ (InUse => r # Current.ref)
    BY <1>1, <1>2, <1>3, <1>9, <1>11, <2>1 DEF IInv, HoldersApart, Untouched
  <2>3. ~InLedger(r) /\ cleanup[r] = "none" /\ r \in secrets
    BY <1>11, <2>1 DEF Untouched
  <2>4. r \in Refs
    BY <2>3 DEF IInv, TypeOK
  <2>5. cleanup'[r] = "none"
    BY <1>2, <1>6, <2>2, <2>3, <2>4
  <2>6. Untouched(r)'
    BY <1>10, <2>2, <2>3, <2>5 DEF Untouched
  <2> QED
    BY <1>5, <2>1, <2>6 DEF Untouched, InLedger
<1>12. CallsOK' /\ HoldersApart'
  BY <1>7, <1>8, <1>11, OneCall DEF IInv
<1>13. StoreOK'
  <2>1. InUse' => Current.ref' \in secrets' /\ cleanup'[Current.ref'] = "none"
    <3>1. ASSUME InUse'
          PROVE  call[o].kind \in {"set", "rotate"} /\ Current.ref' = call[o].ref
      BY <1>1, <1>4, <3>1
    <3>2. ASSUME InUse'
          PROVE  InUse => Current.ref # call[o].ref
      BY <1>3, <1>9, <3>1, <3>2 DEF Untouched
    <3> QED
      BY <1>2, <1>3, <1>6, <3>1, <3>2 DEF Untouched
  <2>2. \A r \in secrets' : cleanup'[r] # "done"
    BY <1>2, <1>6 DEF IInv, StoreOK, TypeOK
  <2>3. \A i \in DOMAIN ledger' : ledger'[i].ref \in made'
    <3>1. ASSUME NEW i \in DOMAIN ledger'
          PROVE  ledger'[i].ref \in made
      <4>1. i \in DOMAIN ledger \/ i = Len(ledger) + 1
        BY <1>4
      <4> QED
        BY <1>1, <1>4, <4>1 DEF IInv, StoreOK
    <3> QED
      BY <3>1
  <2>4. \A r \in Refs : cleanup'[r] # "none" => r \in made'
    <3>1. InUse => Current.ref \in made
      BY LedgerFacts DEF IInv, StoreOK, Current
    <3> QED
      BY <1>2, <1>6, <3>1 DEF IInv, StoreOK
  <2> QED
    BY <2>1, <2>2, <2>3, <2>4 DEF StoreOK
<1>14. NoSecretLeaks'
  <2> SUFFICES ASSUME NEW r \in secrets \ abandoned,
                      ~(InUse' /\ Current.ref' = r), cleanup'[r] # "pending"
               PROVE  \E x \in Operators : HoldsSecret(call'[x]) /\ call'[x].ref = r
    BY DEF NoSecretLeaks, HoldsSecret
  <2>1. \/ InUse /\ Current.ref = r
        \/ cleanup[r] = "pending"
        \/ \E x \in Operators : HoldsSecret(call[x]) /\ call[x].ref = r
    BY DEF IInv, NoSecretLeaks, HoldsSecret
  <2>2. r \in Refs
    BY DEF IInv, TypeOK
  <2>3. ~(InUse /\ Current.ref = r) /\ cleanup[r] # "pending"
    BY <1>2, <1>6, <2>2
  <2>4. PICK x \in Operators : HoldsSecret(call[x]) /\ call[x].ref = r
    BY <2>1, <2>3
  <2>5. x # o
    <3>1. ASSUME x = o PROVE FALSE
      <4>1. call[o].kind \in {"set", "rotate"}
        BY <2>4, <3>1 DEF HoldsSecret
      <4>2. v = [ref |-> call[o].ref, readiness |-> "configured"]
        BY <1>1, <4>1
      <4> QED
        BY <1>4, <2>4, <3>1, <4>2
    <3> QED
      BY <3>1
  <2> QED
    BY <1>5, <2>4, <2>5
<1>15. ValidIsGenuine' /\ ResolverOK'
  BY <1>1, AppendValid, AppendResolver DEF IInv
<1> QED
  BY <1>7, <1>12, <1>13, <1>14, <1>15 DEF IInv

LEMMA CommitIInv ==
    ASSUME IInv, NEW o \in Operators, Commit(o)
    PROVE  IInv'
<1> DEFINE again == [NoCall EXCEPT !.stage = "list"]
<1>0. /\ NoCall \in Call /\ NoCall.stage = "idle" /\ NoCall.todo = {}
      /\ again \in Call /\ again.stage = "list" /\ again.todo = {}
  <2>1. NoCall.stage = "idle" /\ NoCall.todo = {}
    BY DEF NoCall
  <2> QED
    BY <2>1, NoCallOK DEF Call, Stages
<1>2. call[o].stage = "write" /\ Write(o)
  BY DEF Commit
<1>1. PICK k \in Call : /\ k.stage \in {"idle", "list"} /\ k.todo = {}
                        /\ call' = [call EXCEPT ![o] = k]
  BY <1>0 DEF Commit, Return
<1>3. UNCHANGED <<secretVars, resolverVars, lossVars>> /\ disturbed' = disturbed
  BY DEF Commit
<1>4. CallOK(k)' /\ ~HoldsSecret(k)
  BY <1>1 DEF CallOK, HoldsSecret
<1>5. unanswered \subseteq unanswered' /\ unanswered' \in SUBSET made
  BY <1>3 DEF lossVars, IInv, TypeOK
<1>6. abandoned' = abandoned
  BY <1>3 DEF lossVars
<1> QED
  BY <1>1, <1>2, <1>3, <1>4, <1>5, <1>6, CallFacts, WriteStep DEF lossVars

LEMMA CommitFailsIInv ==
    ASSUME IInv, NEW o \in Operators, CommitFails(o)
    PROVE  IInv'
<1>1. /\ call[o].stage = "write" /\ AfterFailure(o)
      /\ UNCHANGED <<secretVars, resolverVars, abandoned>>
  BY DEF CommitFails
<1>2. disturbed' \in 0..MaxDisturbances
  BY DisturbType DEF CommitFails, IInv
<1>3. CASE UNCHANGED <<storeVars, unanswered>>
  BY <1>1, <1>2, <1>3, NothingWritten DEF lossVars
<1>4. CASE /\ Write(o)
           /\ unanswered' = IF call[o].kind = "revoke" THEN unanswered
                            ELSE unanswered \cup {call[o].ref}
  <2>1. CASE call[o].kind = "revoke"
    <3>1. call' = [call EXCEPT ![o] = NoCall]
      BY <1>1, <2>1 DEF AfterFailure, Return
    <3>2. CallOK(NoCall)'
      <4>1. NoCall.stage = "idle" /\ NoCall.todo = {}
        BY DEF NoCall
      <4> QED
        BY <4>1 DEF CallOK, HoldsSecret
    <3>3. unanswered \subseteq unanswered' /\ unanswered' \in SUBSET made
      BY <1>4, <2>1 DEF IInv, TypeOK
    <3> QED
      BY <1>1, <1>2, <1>4, <3>1, <3>2, <3>3, NoCallOK, WriteStep
  <2>2. CASE call[o].kind # "revoke"
    <3> DEFINE undo == [call[o] EXCEPT !.stage = "undo"]
    <3>a. /\ undo \in Call /\ undo.stage = "undo" /\ undo.kind = call[o].kind
          /\ undo.ref = call[o].ref /\ undo.todo = call[o].todo
      BY CallFacts DEF Call, Stages
    <3>b. call' = [call EXCEPT ![o] = undo]
      BY <1>1, <2>2 DEF AfterFailure, Goto, IInv, TypeOK
    <3> HIDE DEF undo
    <3>1. PICK k \in Call : /\ k.stage = "undo" /\ k.kind = call[o].kind
                            /\ k.ref = call[o].ref /\ k.todo = call[o].todo
                            /\ k = undo
      BY <3>a
    <3>2. call' = [call EXCEPT ![o] = k]
      BY <3>b, <3>1
    <3>3. call[o].kind \in {"set", "rotate"}
      BY <1>1, <2>2, CallFacts DEF CallOK
    <3>4. HoldsSecret(call[o]) /\ call[o].ref \in made
      BY <1>1, <3>3, CallFacts DEF CallOK, HoldsSecret
    <3>5. unanswered' = unanswered \cup {call[o].ref}
      BY <1>4, <2>2
    <3>6. unanswered \subseteq unanswered' /\ unanswered' \in SUBSET made
      BY <3>4, <3>5 DEF IInv, TypeOK
    <3>7. \A r \in call[o].todo : cleanup'[r] # "none"
      <4>1. \A r \in call[o].todo : r \in Refs /\ cleanup[r] # "none"
        BY CallFacts DEF CallOK, Call
      <4>2. \/ cleanup' = cleanup
            \/ cleanup' = [cleanup EXCEPT ![Current.ref] = "pending"]
        BY <1>1, <1>4, WriteFacts
      <4> QED
        BY <4>1, <4>2 DEF IInv, TypeOK
    <3>8. CallOK(k)'
      <4>1. k.ref \in made' /\ k.ref \in unanswered'
        BY <1>1, <3>1, <3>4, <3>5 DEF secretVars
      <4>2. \A r \in k.todo : cleanup'[r] # "none"
        BY <3>1, <3>7
      <4> HIDE <3>7
      <4> QED
        BY <3>1, <3>3, <4>1, <4>2 DEF CallOK, HoldsSecret
    <3> QED
      BY <1>1, <1>2, <1>4, <3>1, <3>2, <3>4, <3>6, <3>8, WriteStep
  <2> QED
    BY <2>1, <2>2
<1> QED
  BY <1>3, <1>4 DEF CommitFails

LEMMA RecordVerdictIInv ==
    ASSUME IInv, NEW o \in Operators, RecordVerdict(o)
    PROVE  IInv'
<1> DEFINE v == [ref |-> Current.ref, readiness |-> call[o].verdict]
<1>1. /\ InUse /\ Len(ledger) \in DOMAIN ledger /\ Current.ref \in made
      /\ Current.ref \in Refs
  BY LedgerFacts DEF RecordVerdict, Unchanged, IInv, StoreOK, Current, Version
<1>2. /\ v \in Version /\ v.ref = Current.ref /\ v.readiness = call[o].verdict
      /\ v.readiness # "revoked"
      /\ v.readiness = "valid" => v.ref \in Genuine
  BY <1>1, CallFacts DEF RecordVerdict, Unchanged, CallOK, Call, Version, Verdicts
<1>3. /\ ledger' = Append(ledger, v) /\ Len(ledger) < MaxVersions
      /\ call' = [call EXCEPT ![o] = NoCall] /\ ~HoldsSecret(call[o])
      /\ UNCHANGED <<cleanup, secretVars, resolverVars, lossVars, disturbed>>
  BY DEF RecordVerdict, Return, HoldsSecret
<1> HIDE DEF v
<1> USE DEF secretVars, lossVars
<1>4. /\ ledger' \in Seq(Version) /\ Len(ledger) \in Nat
      /\ Len(ledger') = Len(ledger) + 1
      /\ DOMAIN ledger = 1..Len(ledger)
      /\ DOMAIN ledger' = 1..(Len(ledger) + 1)
      /\ \A i \in DOMAIN ledger : ledger'[i] = ledger[i]
      /\ ledger'[Len(ledger) + 1] = v
      /\ Current' = v /\ (InUse' <=> v.readiness # "revoked")
  BY <1>2, <1>3, AppendFacts DEF IInv
<1>5. /\ call' \in [Operators -> Call] /\ call'[o] = NoCall
      /\ \A x \in Operators \ {o} : call'[x] = call[x]
  BY <1>3, NoCallOK DEF IInv, TypeOK
<1>6. TypeOK'
  <2>1. Len(ledger') <= MaxVersions
    BY <1>3, <1>4, CredentialAssumption
  <2> QED
    BY <1>3, <1>4, <1>5, <2>1 DEF IInv, TypeOK, resolverVars
<1>7. Keeps
  <2>1. Len(ledger) <= Len(ledger') /\ Len(ledger') # Len(ledger)
    <3>1. Len(ledger) \in Nat /\ Len(ledger') = Len(ledger) + 1
      BY <1>4
    <3> HIDE <1>4
    <3> QED
      BY ONLY <3>1
  <2> QED
    BY <1>3, <2>1 DEF Keeps
<1>8. \A r : InLedger(r)' <=> InLedger(r)
  <2>1. \A r : InLedger(r)' => InLedger(r)
    <3>1. ASSUME NEW i \in DOMAIN ledger'
          PROVE  InLedger(ledger'[i].ref)
      <4>1. i \in DOMAIN ledger \/ i = Len(ledger) + 1
        BY <1>4
      <4> QED
        BY <1>1, <1>2, <1>4, <4>1 DEF InLedger, Current
    <3> QED
      BY <3>1 DEF InLedger
  <2>2. \A r : InLedger(r) => InLedger(r)'
    BY <1>4 DEF InLedger
  <2> QED
    BY <2>1, <2>2
<1>9. CallsOK' /\ HoldersApart'
  <2>1. CallOK(NoCall)'
    <3>1. NoCall.stage = "idle" /\ NoCall.todo = {}
      BY DEF NoCall
    <3> QED
      BY <3>1 DEF CallOK, HoldsSecret
  <2>2. ASSUME NEW x \in Operators \ {o}, Untouched(call[x].ref)
        PROVE  Untouched(call[x].ref)'
    <3>1. PICK r : r = call[x].ref
      OBVIOUS
    <3>2. Untouched(r)'
      BY <1>3, <1>8, <2>2, <3>1 DEF Untouched
    <3> QED
      BY <1>5, <3>1, <3>2 DEF Untouched, InLedger
  <2> QED
    BY <1>3, <1>6, <1>7, <2>1, <2>2, NoCallOK, OneCall DEF IInv
<1>10. StoreOK'
  <2>1. \A i \in DOMAIN ledger' : ledger'[i].ref \in made'
    <3>1. ASSUME NEW i \in DOMAIN ledger'
          PROVE  ledger'[i].ref \in made
      <4>1. i \in DOMAIN ledger \/ i = Len(ledger) + 1
        BY <1>4
      <4> QED
        BY <1>1, <1>2, <1>4, <4>1 DEF IInv, StoreOK
    <3> QED
      BY <1>3, <3>1
  <2> QED
    BY <1>1, <1>2, <1>3, <1>4, <2>1 DEF IInv, StoreOK
<1>11. NoSecretLeaks'
  <2> SUFFICES ASSUME NEW r \in secrets \ abandoned,
                      ~(InUse' /\ Current.ref' = r), cleanup[r] # "pending"
               PROVE  \E x \in Operators : HoldsSecret(call'[x]) /\ call'[x].ref = r
    BY <1>3 DEF NoSecretLeaks, HoldsSecret
  <2>1. ~(InUse /\ Current.ref = r)
    BY <1>2, <1>4
  <2>2. PICK x \in Operators : HoldsSecret(call[x]) /\ call[x].ref = r
    BY <2>1 DEF IInv, NoSecretLeaks, HoldsSecret
  <2> QED
    BY <1>3, <1>5, <2>2
<1>12. ValidIsGenuine' /\ ResolverOK'
  BY <1>2, <1>3, AppendValid, AppendResolver DEF IInv
<1> QED
  BY <1>6, <1>9, <1>10, <1>11, <1>12 DEF IInv

-----------------------------------------------------------------------------
(* The steps that change the store of secrets or the cleanup queue.        *)

\* What such a step has to show.
LEMMA StoreStep ==
    ASSUME IInv, NEW o \in Operators, NEW k \in Call, call' = [call EXCEPT ![o] = k],
           UNCHANGED <<ledger, aged, resolverVars, lossVars>>,
           cleanup' \in [Refs -> {"none", "pending", "done"}],
           \A r \in Refs : cleanup[r] # "none" => cleanup'[r] # "none",
           made \subseteq made', made' \in SUBSET Refs,
           secrets' \in SUBSET made', secrets' \cap made \subseteq secrets,
           disturbed' \in 0..MaxDisturbances,
           CallOK(k)',
           \A x \in Operators \ {o} :
               HoldsSecret(call[x]) /\ Untouched(call[x].ref)
               => cleanup'[call[x].ref] = "none" /\ call[x].ref \in secrets',
           HoldsSecret(k) => \/ HoldsSecret(call[o]) /\ k.ref = call[o].ref
                             \/ k.ref \notin made,
           StoreOK', NoSecretLeaks'
    PROVE  IInv'
<1> USE DEF lossVars
<1>1. /\ call' \in [Operators -> Call] /\ call'[o] = k
      /\ \A x \in Operators \ {o} : call'[x] = call[x]
  BY DEF IInv, TypeOK
<1>2. TypeOK'
  BY <1>1 DEF IInv, TypeOK, resolverVars
<1>3. Keeps
  BY LenProperties DEF IInv, TypeOK, Keeps
<1>4. ASSUME NEW x \in Operators \ {o}, HoldsSecret(call[x]), Untouched(call[x].ref)
      PROVE  Untouched(call[x].ref)'
  <2>1. PICK r : r = call[x].ref
    OBVIOUS
  <2>2. cleanup'[r] = "none" /\ r \in secrets' /\ ~InLedger(r)
    BY <1>4, <2>1 DEF Untouched
  <2>3. Untouched(r)'
    BY <2>2 DEF Untouched, InLedger
  <2> QED
    BY <1>1, <2>1, <2>3 DEF Untouched, InLedger
<1>5. CallsOK' /\ HoldersApart'
  BY <1>2, <1>3, <1>4, OneCall DEF IInv
<1>6. ValidIsGenuine' /\ ResolverOK'
  BY DEF IInv, ValidIsGenuine, ResolverOK, resolverVars
<1> QED
  BY <1>2, <1>5, <1>6 DEF IInv

\* A request that ends, or drains on, has nothing in hand.
LEMMA EmptyHanded ==
    ASSUME NEW k \in Call, k.stage \in {"idle", "drain"},
           \A r \in k.todo : cleanup'[r] # "none"
    PROVE  CallOK(k)' /\ ~HoldsSecret(k)
BY DEF CallOK, HoldsSecret

LEMMA RemoveSecretIInv ==
    ASSUME IInv, NEW o \in Operators, RemoveSecret(o)
    PROVE  IInv'
<1>1. PICK r \in call[o].todo :
          /\ secrets' = secrets \ {r}
          /\ call' = [call EXCEPT ![o].stage = "complete", ![o].ref = r]
  BY DEF RemoveSecret
<1>2. /\ call[o].stage = "drain"
      /\ UNCHANGED <<storeVars, made, aged, resolverVars, lossVars, disturbed>>
  BY DEF RemoveSecret
<1>3. r \in Refs /\ cleanup[r] # "none" /\ r \in made
  BY CallFacts DEF CallOK, Call, IInv, StoreOK
<1> DEFINE removing == [call[o] EXCEPT !.stage = "complete", !.ref = r]
<1>4. /\ removing \in Call /\ removing.stage = "complete"
      /\ removing.ref = r /\ removing.todo = call[o].todo
  BY <1>3, CallFacts DEF Call, Stages
<1>5. call' = [call EXCEPT ![o] = removing]
  BY <1>1 DEF IInv, TypeOK
<1> HIDE DEF removing
<1>6. PICK k \in Call : /\ k = removing /\ k.stage = "complete"
                        /\ k.ref = r /\ k.todo = call[o].todo
  BY <1>4
<1> USE DEF storeVars, lossVars
<1>7. CallOK(k)' /\ ~HoldsSecret(k) /\ ~HoldsSecret(call[o])
  <2>1. \A q \in k.todo : cleanup'[q] # "none"
    BY <1>2, <1>6, CallFacts DEF CallOK
  <2>2. k.ref \in made' \ secrets' /\ cleanup'[k.ref] # "none"
    BY <1>1, <1>2, <1>3, <1>6
  <2> QED
    BY <1>2, <1>6, <2>1, <2>2 DEF CallOK, HoldsSecret
<1>8. ASSUME NEW x \in Operators, Untouched(call[x].ref)
      PROVE  cleanup'[call[x].ref] = "none" /\ call[x].ref \in secrets'
  BY <1>1, <1>2, <1>3, <1>8 DEF Untouched
<1>9. StoreOK'
  BY <1>1, <1>2, <1>3 DEF IInv, StoreOK, InUse, Current
<1>10. NoSecretLeaks'
  <2>1. \A x \in Operators \ {o} : call'[x] = call[x]
    BY <1>5 DEF IInv, TypeOK
  <2>3. secrets' \subseteq secrets /\ UNCHANGED <<ledger, cleanup, abandoned>>
    BY <1>1, <1>2
  <2> SUFFICES ASSUME NEW q \in secrets \ abandoned,
                      ~(InUse /\ Current.ref = q), cleanup[q] # "pending"
               PROVE  \E x \in Operators : HoldsSecret(call'[x]) /\ call'[x].ref = q
    BY <2>3 DEF NoSecretLeaks, HoldsSecret, InUse, Current
  <2>2. PICK x \in Operators : HoldsSecret(call[x]) /\ call[x].ref = q
    BY DEF IInv, NoSecretLeaks, HoldsSecret
  <2> QED
    BY <1>7, <2>1, <2>2
<1>11. /\ cleanup' \in [Refs -> {"none", "pending", "done"}]
       /\ made' \in SUBSET Refs /\ secrets' \in SUBSET made'
       /\ disturbed' \in 0..MaxDisturbances
       /\ UNCHANGED <<ledger, aged, resolverVars, lossVars>>
  BY <1>1, <1>2 DEF IInv, TypeOK
<1>12. /\ \A q \in Refs : cleanup[q] # "none" => cleanup'[q] # "none"
       /\ made \subseteq made' /\ secrets' \cap made \subseteq secrets
  BY <1>1, <1>2
<1>13. call' = [call EXCEPT ![o] = k]
  BY <1>5, <1>6
<1> QED
  BY <1>7, <1>8, <1>9, <1>10, <1>11, <1>12, <1>13, StoreStep

LEMMA CompleteCleanupIInv ==
    ASSUME IInv, NEW o \in Operators, CompleteCleanup(o)
    PROVE  IInv'
<1>1. /\ call[o].stage = "complete"
      /\ UNCHANGED <<ledger, secretVars, resolverVars, lossVars, disturbed>>
  BY DEF CompleteCleanup
<1>2. PICK r : r = call[o].ref
  OBVIOUS
<1>3. r \in Refs /\ r \in made \ secrets /\ ~HoldsSecret(call[o])
  BY <1>1, <1>2, CallFacts DEF CallOK, HoldsSecret, IInv, TypeOK
<1>4. CASE cleanup[r] # "pending"
  <2>1. Return(o) /\ UNCHANGED cleanup
    BY <1>2, <1>4 DEF CompleteCleanup
  <2> QED
    BY <1>1, <1>3, <2>1, CallFacts, ReturnStep DEF storeVars
<1>5. CASE cleanup[r] = "pending"
  <2>1. /\ cleanup' = [cleanup EXCEPT ![r] = "done"]
        /\ call' = [call EXCEPT ![o].stage = "drain",
                                ![o].todo = @ \ {r}, ![o].ref = None]
    BY <1>2, <1>5 DEF CompleteCleanup
  <2> DEFINE on == [call[o] EXCEPT !.stage = "drain", !.todo = @ \ {r}, !.ref = None]
  <2>2. /\ on \in Call /\ on.stage = "drain" /\ on.todo \subseteq call[o].todo
    BY CallFacts DEF Call, Stages
  <2>3. call' = [call EXCEPT ![o] = on]
    BY <2>1 DEF IInv, TypeOK
  <2> HIDE DEF on
  <2>4. PICK k \in Call : k = on /\ k.stage = "drain" /\ k.todo \subseteq call[o].todo
    BY <2>2
  <2>5. /\ cleanup \in [Refs -> {"none", "pending", "done"}]
        /\ cleanup' \in [Refs -> {"none", "pending", "done"}]
    BY <2>1 DEF IInv, TypeOK
  <2>6. \A q \in Refs : cleanup[q] # "none" => cleanup'[q] # "none"
    BY <2>1, <2>5
  <2>7. CallOK(k)' /\ ~HoldsSecret(k)
    <3>1. \A q \in k.todo : cleanup'[q] # "none"
      BY <2>4, <2>6, CallFacts DEF CallOK, Call
    <3> QED
      BY <2>4, <3>1, EmptyHanded
  <2> USE DEF secretVars, lossVars
  <2>8. ASSUME NEW x \in Operators, Untouched(call[x].ref)
        PROVE  cleanup'[call[x].ref] = "none" /\ call[x].ref \in secrets'
    BY <1>1, <1>3, <2>1, <2>5, <2>8 DEF Untouched
  <2>9. StoreOK'
    <3>1. \A q \in secrets : q \in Refs /\ q # r /\ cleanup'[q] = cleanup[q]
      BY <1>3, <2>1, <2>5 DEF IInv, TypeOK
    <3>2. InUse' => \/ Current.ref' \in unanswered'
                    \/ Current.ref' \in secrets' /\ cleanup'[Current.ref'] = "none"
      BY <1>1, <3>1 DEF IInv, StoreOK, InUse, Current
    <3> QED
      BY <1>1, <1>3, <2>1, <2>5, <3>1, <3>2 DEF IInv, StoreOK
  <2>10. NoSecretLeaks'
    <3>1. \A x \in Operators \ {o} : call'[x] = call[x]
      BY <2>3 DEF IInv, TypeOK
    <3>2. \A q \in secrets : cleanup'[q] = cleanup[q]
      BY <1>3, <2>1, <2>5 DEF IInv, TypeOK
    <3> SUFFICES ASSUME NEW q \in secrets \ abandoned,
                        ~(InUse /\ Current.ref = q), cleanup[q] # "pending"
                 PROVE  \E x \in Operators : HoldsSecret(call'[x]) /\ call'[x].ref = q
      BY <1>1, <3>2 DEF NoSecretLeaks, HoldsSecret, InUse, Current
    <3>3. PICK x \in Operators : HoldsSecret(call[x]) /\ call[x].ref = q
      BY DEF IInv, NoSecretLeaks, HoldsSecret
    <3> QED
      BY <1>3, <3>1, <3>3
  <2>11. /\ made' \in SUBSET Refs /\ secrets' \in SUBSET made'
         /\ made \subseteq made' /\ secrets' \cap made \subseteq secrets
         /\ disturbed' \in 0..MaxDisturbances
         /\ UNCHANGED <<ledger, aged, resolverVars, lossVars>>
    BY <1>1 DEF IInv, TypeOK
  <2>12. call' = [call EXCEPT ![o] = k]
    BY <2>3, <2>4
  <2> QED
    BY <2>5, <2>6, <2>7, <2>8, <2>9, <2>10, <2>11, <2>12, StoreStep
<1> QED
  BY <1>4, <1>5

LEMMA PutSecretIInv ==
    ASSUME IInv, NEW o \in Operators, PutSecret(o)
    PROVE  IInv'
<1>1. PICK r \in Refs \ made :
          /\ made' = made \cup {r} /\ secrets' = secrets \cup {r}
          /\ call' = [call EXCEPT ![o].stage = "stored", ![o].ref = r]
  BY DEF PutSecret
<1>2. /\ UNCHANGED <<storeVars, aged, resolverVars, lossVars, disturbed>>
      /\ call[o].stage = "drain" /\ call[o].kind \in {"set", "rotate"}
  BY DEF PutSecret, Drained
<1> USE DEF storeVars, lossVars
<1> DEFINE putting == [call[o] EXCEPT !.stage = "stored", !.ref = r]
<1>3. /\ putting \in Call /\ putting.stage = "stored" /\ putting.ref = r
      /\ putting.kind = call[o].kind /\ putting.todo = call[o].todo
  BY CallFacts DEF Call, Stages
<1>4. call' = [call EXCEPT ![o] = putting]
  BY <1>1 DEF IInv, TypeOK
<1> HIDE DEF putting
<1>5. PICK k \in Call : /\ k = putting /\ k.stage = "stored" /\ k.ref = r
                        /\ k.kind = call[o].kind /\ k.todo = call[o].todo
  BY <1>3
<1>6. call' = [call EXCEPT ![o] = k]
  BY <1>4, <1>5
<1>7. /\ call'[o] = k /\ \A x \in Operators \ {o} : call'[x] = call[x]
      /\ HoldsSecret(k) /\ ~HoldsSecret(call[o])
  BY <1>2, <1>5, <1>6 DEF IInv, TypeOK, HoldsSecret
<1>8. ~InLedger(r) /\ cleanup[r] = "none"
  BY <1>1 DEF IInv, StoreOK, InLedger
<1>9. CallOK(k)'
  <2>1. Untouched(r)'
    BY <1>1, <1>2, <1>8 DEF Untouched, InLedger
  <2>2. \A q \in k.todo : cleanup'[q] # "none"
    BY <1>2, <1>5, CallFacts DEF CallOK
  <2> QED
    BY <1>1, <1>2, <1>5, <2>1, <2>2 DEF CallOK, HoldsSecret, Untouched, InLedger
<1>10. ASSUME NEW x \in Operators, Untouched(call[x].ref)
       PROVE  cleanup'[call[x].ref] = "none" /\ call[x].ref \in secrets'
  BY <1>1, <1>2, <1>10 DEF Untouched
<1>11. /\ made \subseteq made' /\ secrets \subseteq secrets' /\ made' \subseteq Refs
       /\ secrets' \subseteq made' /\ secrets' \cap made \subseteq secrets
       /\ secrets' \subseteq secrets \cup {r}
       /\ UNCHANGED <<ledger, cleanup, abandoned, unanswered>>
  BY <1>1, <1>2 DEF IInv, TypeOK
<1>12. StoreOK'
  BY <1>8, <1>11 DEF IInv, StoreOK, InUse, Current
<1>13. NoSecretLeaks'
  <2> SUFFICES ASSUME NEW q \in secrets' \ abandoned,
                      ~(InUse /\ Current.ref = q), cleanup[q] # "pending"
               PROVE  \E x \in Operators : HoldsSecret(call'[x]) /\ call'[x].ref = q
    BY <1>11 DEF NoSecretLeaks, HoldsSecret, InUse, Current
  <2>1. CASE q = r
    BY <1>5, <1>7, <2>1
  <2>2. CASE q \in secrets
    <3>1. PICK x \in Operators : HoldsSecret(call[x]) /\ call[x].ref = q
      BY <2>2 DEF IInv, NoSecretLeaks, HoldsSecret
    <3> QED
      BY <1>7, <3>1
  <2> QED
    BY <1>11, <2>1, <2>2
<1>14. /\ cleanup' \in [Refs -> {"none", "pending", "done"}]
       /\ disturbed' \in 0..MaxDisturbances
       /\ UNCHANGED <<ledger, aged, resolverVars, lossVars>>
       /\ \A q \in Refs : cleanup[q] # "none" => cleanup'[q] # "none"
  BY <1>1, <1>2 DEF IInv, TypeOK
<1>15. k.ref \notin made
  BY <1>5
<1> QED
  BY <1>6, <1>9, <1>10, <1>11, <1>12, <1>13, <1>14, <1>15, StoreStep

\* What is withdrawn is in nobody else's hands and, unless its publication was
\* reported as failed, not current.
LEMMA UndoFacts ==
    ASSUME IInv, NEW o \in Operators, call[o].stage = "undo"
    PROVE  /\ HoldsSecret(call[o]) /\ call[o].ref \in made /\ call[o].ref \in Refs
           /\ InUse /\ Current.ref = call[o].ref => call[o].ref \in unanswered
           /\ \A x \in Operators \ {o} : HoldsSecret(call[x]) => call[x].ref # call[o].ref
<1>1. /\ HoldsSecret(call[o]) /\ call[o].ref \in made
      /\ Untouched(call[o].ref) \/ call[o].ref \in unanswered
  BY CallFacts DEF CallOK, HoldsSecret
<1>2. InUse => InLedger(Current.ref)
  BY LedgerFacts DEF IInv, InLedger, Current
<1> QED
  BY <1>1, <1>2 DEF IInv, TypeOK, HoldersApart, Untouched

LEMMA WithdrawIInv ==
    ASSUME IInv, NEW o \in Operators, Withdraw(o)
    PROVE  IInv'
<1>1. /\ secrets' = secrets \ {call[o].ref} /\ call[o].stage = "undo"
      /\ call' = [call EXCEPT ![o] = NoCall]
      /\ UNCHANGED <<storeVars, made, aged, resolverVars, lossVars, disturbed>>
  BY DEF Withdraw, Return
<1> USE DEF storeVars, lossVars
<1>2. PICK r \in Refs : r = call[o].ref /\ secrets' = secrets \ {r}
  BY <1>1, UndoFacts
<1>3. \A x \in Operators \ {o} : call'[x] = call[x]
  BY <1>1 DEF IInv, TypeOK
<1>4. ASSUME NEW x \in Operators \ {o}, HoldsSecret(call[x]), Untouched(call[x].ref)
      PROVE  cleanup'[call[x].ref] = "none" /\ call[x].ref \in secrets'
  BY <1>1, <1>4, UndoFacts DEF Untouched
<1>5. StoreOK'
  <2>1. InUse /\ Current.ref = r => r \in unanswered
    BY <1>1, <1>2, UndoFacts
  <2> QED
    BY <1>1, <1>2, <2>1 DEF IInv, StoreOK, InUse, Current
<1>6. NoSecretLeaks'
  <2>1. secrets' \subseteq secrets /\ r \notin secrets'
        /\ UNCHANGED <<ledger, cleanup, abandoned>>
    BY <1>1, <1>2
  <2> SUFFICES ASSUME NEW q \in secrets \ abandoned, q # r,
                      ~(InUse /\ Current.ref = q), cleanup[q] # "pending"
               PROVE  \E x \in Operators : HoldsSecret(call'[x]) /\ call'[x].ref = q
    BY <2>1 DEF NoSecretLeaks, HoldsSecret, InUse, Current
  <2>2. PICK x \in Operators : HoldsSecret(call[x]) /\ call[x].ref = q
    BY DEF IInv, NoSecretLeaks, HoldsSecret
  <2> QED
    BY <1>2, <1>3, <2>2
<1>7. /\ cleanup' \in [Refs -> {"none", "pending", "done"}]
      /\ \A q \in Refs : cleanup[q] # "none" => cleanup'[q] # "none"
      /\ made \subseteq made' /\ made' \in SUBSET Refs
      /\ secrets' \in SUBSET made' /\ secrets' \cap made \subseteq secrets
      /\ disturbed' \in 0..MaxDisturbances
      /\ UNCHANGED <<ledger, aged, resolverVars, lossVars>>
  BY <1>1, <1>2 DEF IInv, TypeOK
<1>8. CallOK(NoCall)'
  BY NoCallOK, EmptyHanded DEF NoCall
<1> QED
  BY <1>1, <1>4, <1>5, <1>6, <1>7, <1>8, NoCallOK, StoreStep

LEMMA WithdrawFailsIInv ==
    ASSUME IInv, NEW o \in Operators, WithdrawFails(o)
    PROVE  IInv'
<1>1. /\ call[o].stage = "undo"
      /\ call' = [call EXCEPT ![o] = NoCall]
      /\ UNCHANGED <<ledger, secretVars, resolverVars, lossVars>>
  BY DEF WithdrawFails, Return
<1> USE DEF secretVars, lossVars
<1>2. PICK r \in Refs : /\ r = call[o].ref /\ r \in made
                        /\ cleanup' = [cleanup EXCEPT ![r] =
                                          IF @ = "none" THEN "pending" ELSE @]
  BY <1>1, UndoFacts DEF WithdrawFails, Queue
<1>3. /\ cleanup \in [Refs -> {"none", "pending", "done"}]
      /\ cleanup' \in [Refs -> {"none", "pending", "done"}]
      /\ \A q \in Refs : q # r => cleanup'[q] = cleanup[q]
      /\ cleanup[r] # "none" => cleanup'[r] = cleanup[r]
      /\ cleanup[r] = "none" => cleanup'[r] = "pending"
  BY <1>2 DEF IInv, TypeOK
<1>4. \A x \in Operators \ {o} : call'[x] = call[x]
  BY <1>1 DEF IInv, TypeOK
<1>5. ASSUME NEW x \in Operators \ {o}, HoldsSecret(call[x]), Untouched(call[x].ref)
      PROVE  cleanup'[call[x].ref] = "none" /\ call[x].ref \in secrets'
  <2>1. call[x].ref # r /\ call[x].ref \in Refs
    BY <1>1, <1>2, <1>5, UndoFacts DEF Untouched, IInv, TypeOK
  <2> QED
    BY <1>1, <1>3, <1>5, <2>1 DEF Untouched
<1>6. StoreOK'
  <2>1. InUse /\ Current.ref = r => r \in unanswered
    BY <1>1, <1>2, UndoFacts
  <2>2. InUse' => \/ Current.ref' \in unanswered'
                  \/ Current.ref' \in secrets' /\ cleanup'[Current.ref'] = "none"
    <3>1. secrets \subseteq Refs
      BY DEF IInv, TypeOK
    <3> QED
      BY <1>1, <1>3, <2>1, <3>1 DEF IInv, StoreOK, InUse, Current
  <2>3. \A q \in secrets : cleanup'[q] # "done"
    BY <1>3 DEF IInv, StoreOK, TypeOK
  <2>4. \A q \in Refs : cleanup'[q] # "none" => q \in made
    BY <1>2, <1>3 DEF IInv, StoreOK
  <2> QED
    BY <1>1, <2>2, <2>3, <2>4 DEF IInv, StoreOK
<1>7. NoSecretLeaks'
  <2>1. \A q \in secrets : q \in Refs /\ cleanup[q] # "done"
    BY DEF IInv, TypeOK, StoreOK
  <2> SUFFICES ASSUME NEW q \in secrets \ abandoned,
                      ~(InUse /\ Current.ref = q), cleanup'[q] # "pending"
               PROVE  \E x \in Operators : HoldsSecret(call'[x]) /\ call'[x].ref = q
    BY <1>1 DEF NoSecretLeaks, HoldsSecret, InUse, Current
  <2>2. q # r /\ cleanup[q] # "pending"
    BY <1>3, <2>1
  <2>3. PICK x \in Operators : HoldsSecret(call[x]) /\ call[x].ref = q
    BY <2>2 DEF IInv, NoSecretLeaks, HoldsSecret
  <2> QED
    BY <1>2, <1>4, <2>2, <2>3
<1>8. /\ \A q \in Refs : cleanup[q] # "none" => cleanup'[q] # "none"
      /\ made \subseteq made' /\ made' \in SUBSET Refs
      /\ secrets' \in SUBSET made' /\ secrets' \cap made \subseteq secrets
      /\ UNCHANGED <<ledger, aged, resolverVars, lossVars>>
  BY <1>1, <1>3 DEF IInv, TypeOK
<1>9. disturbed' \in 0..MaxDisturbances
  BY DisturbType DEF IInv, WithdrawFails
<1>10. CallOK(NoCall)'
  BY NoCallOK, EmptyHanded DEF NoCall
<1> QED
  BY <1>1, <1>3, <1>5, <1>6, <1>7, <1>8, <1>9, <1>10, NoCallOK, StoreStep

-----------------------------------------------------------------------------
(* The resolver and the clock touch neither the ledger nor the secrets.    *)

LEMMA ResolverStep ==
    ASSUME IInv, UNCHANGED <<storeVars, secrets, made, call, lossVars>>,
           aged' \in SUBSET (made \cap Mortal),
           pin' \in [Works -> 0..MaxVersions], closed' \in SUBSET Works,
           resolving' \in SUBSET Works, lease' \in [Works -> Refs \cup {None}],
           disturbed' \in 0..MaxDisturbances, ResolverOK'
    PROVE  IInv'
<1> USE DEF storeVars, lossVars
<1>1. TypeOK'
  BY DEF IInv, TypeOK
<1>2. CallsOK' /\ HoldersApart'
  <2>1. \A o \in Operators : call'[o] = call[o]
    OBVIOUS
  <2>2. ASSUME NEW o \in Operators, CallOK(call[o])
        PROVE  CallOK(call[o])'
    BY <2>2 DEF CallOK, HoldsSecret, Allowed, InUse, Current, Untouched, InLedger
  <2> QED
    BY <2>1, <2>2 DEF IInv, CallsOK, HoldersApart, HoldsSecret
<1>3. StoreOK' /\ ValidIsGenuine'
  BY DEF IInv, StoreOK, ValidIsGenuine, InUse, Current
<1>4. NoSecretLeaks'
  BY DEF IInv, NoSecretLeaks, InUse, Current
<1> QED
  BY <1>1, <1>2, <1>3, <1>4 DEF IInv

\* A lease may always be dropped.
LEMMA DroppedLease ==
    ASSUME IInv, NEW w \in Works, lease' \in {lease, [lease EXCEPT ![w] = None]},
           closed' \in {closed, closed \cup {w}},
           closed' = closed \/ lease' = [lease EXCEPT ![w] = None],
           resolving' \subseteq resolving, UNCHANGED <<pin, ledger>>
    PROVE  ResolverOK' /\ lease' \in [Works -> Refs \cup {None}]
<1>1. lease \in [Works -> Refs \cup {None}] /\ lease' \in [Works -> Refs \cup {None}]
  BY DEF IInv, TypeOK
<1>2. \A x \in Works : lease'[x] # None =>
          lease'[x] = lease[x] /\ (x \in closed' => x \in closed)
  BY <1>1
<1> QED
  BY <1>1, <1>2 DEF IInv, ResolverOK

LEMMA ResolveIInv ==
    ASSUME IInv, NEW w \in Works, Resolve(w)
    PROVE  IInv'
<1> DEFINE late == ledger[PinnedVersion(w)].ref \in aged \/ w \in closed
<1>1. /\ Len(ledger) > 0 /\ Usable(w)
      /\ pin' = [pin EXCEPT ![w] = PinnedVersion(w)]
      /\ lease' = IF late THEN [lease EXCEPT ![w] = None] ELSE lease
      /\ resolving' = IF late \/ lease[w] # None THEN resolving
                      ELSE resolving \cup {w}
      /\ UNCHANGED <<storeVars, secretVars, call, closed, lossVars, disturbed>>
  BY Zenon DEF Resolve
<1> HIDE DEF late
<1>2. /\ lease \in [Works -> Refs \cup {None}] /\ lease' \in [Works -> Refs \cup {None}]
      /\ pin \in [Works -> 0..MaxVersions]
      /\ \A x \in Works : lease'[x] # None => lease'[x] = lease[x]
  BY <1>1 DEF IInv, TypeOK
<1>3. /\ PinnedVersion(w) \in DOMAIN ledger /\ PinnedVersion(w) \in 1..MaxVersions
      /\ ledger[PinnedVersion(w)].readiness = "valid"
      /\ pin[w] # 0 => PinnedVersion(w) = pin[w]
  <2>1. /\ Len(ledger) \in Nat /\ DOMAIN ledger = 1..Len(ledger)
        /\ Len(ledger) <= MaxVersions /\ MaxVersions \in Nat
    BY LedgerFacts, CredentialAssumption DEF IInv, TypeOK
  <2>2. CASE pin[w] = 0
    BY <1>1, <2>1, <2>2 DEF PinnedVersion, Usable, Current
  <2>3. CASE pin[w] # 0
    BY <2>1, <2>3 DEF PinnedVersion, IInv, ResolverOK
  <2> QED
    BY <2>2, <2>3
<1>4. /\ pin' \in [Works -> 0..MaxVersions] /\ pin'[w] = PinnedVersion(w)
      /\ pin'[w] # 0
      /\ \A x \in Works : pin[x] # 0 => pin'[x] = pin[x]
      /\ \A x \in Works : x # w => pin'[x] = pin[x]
  BY <1>1, <1>2, <1>3
<1>5. resolving' \subseteq resolving \cup {w} /\ resolving' \in SUBSET Works
  BY <1>1 DEF IInv, TypeOK
<1>6. ResolverOK'
  <2> SUFFICES ASSUME NEW x \in Works
               PROVE  /\ pin'[x] # 0 => /\ pin'[x] \in DOMAIN ledger
                                        /\ ledger[pin'[x]].readiness = "valid"
                      /\ x \in resolving' => pin'[x] # 0
                      /\ lease'[x] # None => /\ pin'[x] # 0 /\ x \notin closed
                                             /\ lease'[x] = ledger[pin'[x]].ref
    BY <1>1 DEF ResolverOK, storeVars
  <2>1. lease'[x] # None => /\ lease'[x] = lease[x] /\ pin'[x] = pin[x]
    BY <1>2, <1>4 DEF IInv, ResolverOK
  <2>2. CASE x = w
    BY <1>3, <1>4, <2>1, <2>2 DEF IInv, ResolverOK
  <2>3. CASE x # w
    BY <1>4, <1>5, <2>1, <2>3 DEF IInv, ResolverOK
  <2> QED
    BY <2>2, <2>3
<1>7. /\ UNCHANGED <<storeVars, secrets, made, call, lossVars>>
      /\ aged' \in SUBSET (made \cap Mortal) /\ closed' \in SUBSET Works
      /\ disturbed' \in 0..MaxDisturbances
  BY <1>1 DEF IInv, TypeOK, secretVars
<1> QED
  BY <1>2, <1>4, <1>5, <1>6, <1>7, ResolverStep

LEMMA CheckoutIInv ==
    ASSUME IInv, NEW w \in Works, Checkout(w)
    PROVE  IInv'
<1>1. /\ w \in resolving /\ resolving' = resolving \ {w}
      /\ lease' = IF ledger[pin[w]].ref \in secrets /\ w \notin closed
                  THEN [lease EXCEPT ![w] = ledger[pin[w]].ref] ELSE lease
      /\ UNCHANGED <<storeVars, secretVars, call, pin, closed, lossVars, disturbed>>
  BY Zenon DEF Checkout
<1>2. lease \in [Works -> Refs \cup {None}] /\ pin[w] # 0
  BY <1>1 DEF IInv, TypeOK, ResolverOK
<1>3. /\ lease' \in [Works -> Refs \cup {None}]
      /\ \A x \in Works : x # w => lease'[x] = lease[x]
      /\ lease'[w] # lease[w] => lease'[w] = ledger[pin[w]].ref /\ w \notin closed
  BY <1>1, <1>2 DEF IInv, TypeOK
<1>4. ResolverOK'
  <2> SUFFICES ASSUME NEW x \in Works
               PROVE  /\ pin[x] # 0 => /\ pin[x] \in DOMAIN ledger
                                       /\ ledger[pin[x]].readiness = "valid"
                      /\ x \in resolving' => pin[x] # 0
                      /\ lease'[x] # None => /\ pin[x] # 0 /\ x \notin closed
                                             /\ lease'[x] = ledger[pin[x]].ref
    BY <1>1 DEF ResolverOK, storeVars
  <2> QED
    BY <1>1, <1>2, <1>3 DEF IInv, ResolverOK
<1>5. /\ UNCHANGED <<storeVars, secrets, made, call, lossVars>>
      /\ aged' \in SUBSET (made \cap Mortal) /\ closed' \in SUBSET Works
      /\ pin' \in [Works -> 0..MaxVersions] /\ resolving' \in SUBSET Works
      /\ disturbed' \in 0..MaxDisturbances
  BY <1>1 DEF IInv, TypeOK, secretVars
<1> QED
  BY <1>3, <1>4, <1>5, ResolverStep

LEMMA ResolverIInv ==
    ASSUME IInv, NEW w \in Works,
           \/ ResolveRefused(w) \/ CheckoutFails(w) \/ CloseWindow(w) \/ DropLease(w)
    PROVE  IInv'
<1>1. /\ UNCHANGED <<storeVars, secretVars, call, pin, lossVars>>
      /\ lease' \in {lease, [lease EXCEPT ![w] = None]}
      /\ closed' \in {closed, closed \cup {w}}
      /\ closed' = closed \/ lease' = [lease EXCEPT ![w] = None]
      /\ resolving' \subseteq resolving
  BY DEF ResolveRefused, CheckoutFails, CloseWindow, DropLease
<1>2. disturbed' \in 0..MaxDisturbances
  BY DisturbType DEF ResolveRefused, CheckoutFails, CloseWindow, DropLease, IInv, TypeOK
<1>3. ResolverOK' /\ lease' \in [Works -> Refs \cup {None}]
  BY <1>1, DroppedLease DEF storeVars
<1>4. /\ aged' \in SUBSET (made \cap Mortal) /\ closed' \in SUBSET Works
      /\ pin' \in [Works -> 0..MaxVersions] /\ resolving' \in SUBSET Works
      /\ UNCHANGED <<secrets, made>>
  BY <1>1 DEF IInv, TypeOK, secretVars
<1> QED
  BY <1>1, <1>2, <1>3, <1>4, ResolverStep

LEMMA ExpireIInv ==
    ASSUME IInv, NEW r \in Refs, Expire(r)
    PROVE  IInv'
<1>1. /\ UNCHANGED <<storeVars, secrets, made, call, resolverVars, lossVars, disturbed>>
      /\ aged' \in SUBSET (made \cap Mortal)
  BY DEF Expire, IInv, TypeOK
<1>2. /\ ResolverOK' /\ pin' \in [Works -> 0..MaxVersions] /\ closed' \in SUBSET Works
      /\ resolving' \in SUBSET Works /\ lease' \in [Works -> Refs \cup {None}]
      /\ disturbed' \in 0..MaxDisturbances
  BY <1>1 DEF IInv, TypeOK, ResolverOK, resolverVars, storeVars
<1> QED
  BY <1>1, <1>2, ResolverStep

-----------------------------------------------------------------------------
(* The inductive invariant.                                                *)

LEMMA InitIInv == Init => IInv
<1> SUFFICES ASSUME Init PROVE IInv
  OBVIOUS
<1>1. ledger = <<>> /\ Len(ledger) = 0 /\ DOMAIN ledger = {} /\ ledger \in Seq(Version)
  <2>1. Len(<<>>) = 0 /\ <<>> \in Seq(Version) /\ DOMAIN <<>> = 1..0
    BY EmptySeq, LenProperties
  <2> QED
    BY <2>1 DEF Init
<1>2. TypeOK
  BY <1>1, NoCallOK, CredentialAssumption DEF Init, TypeOK
<1>3. CallsOK /\ HoldersApart
  BY NoCallOK DEF Init, CallsOK, HoldersApart
<1>4. StoreOK /\ NoSecretLeaks /\ ValidIsGenuine
  BY <1>1 DEF Init, StoreOK, NoSecretLeaks, ValidIsGenuine, InUse
<1>5. ResolverOK
  BY DEF Init, ResolverOK
<1> QED
  BY <1>2, <1>3, <1>4, <1>5 DEF IInv

LEMMA AdvanceIInv ==
    ASSUME IInv, NEW o \in Operators, Advance(o)
    PROVE  IInv'
<1>1. CASE ListCleanup(o)
  BY <1>1, ListCleanupIInv
<1>2. CASE RemoveSecret(o)
  BY <1>2, RemoveSecretIInv
<1>3. CASE CompleteCleanup(o)
  BY <1>3, CompleteCleanupIInv
<1>4. CASE Leave(o)
  <2>1. ~HoldsSecret(call[o]) /\ Return(o)
        /\ UNCHANGED <<storeVars, secretVars, resolverVars, lossVars>>
        /\ disturbed' \in 0..MaxDisturbances
    BY <1>4, CallFacts DEF Leave, Drained, HoldsSecret
  <2> QED
    BY <2>1, ReturnStep
<1>5. CASE PutSecret(o)
  BY <1>5, PutSecretIInv
<1>6. CASE ReadCurrent(o)
  BY <1>6, ReadCurrentIInv
<1>7. CASE NotAllowed(o)
  BY <1>7, NotAllowedIInv
<1>8. CASE Commit(o)
  BY <1>8, CommitIInv
<1>9. CASE CommitConflict(o)
  <2>1. /\ call[o].stage = "write" /\ AfterFailure(o)
        /\ UNCHANGED <<storeVars, secretVars, resolverVars, lossVars>>
        /\ disturbed' \in 0..MaxDisturbances
    BY <1>9, CallFacts DEF CommitConflict
  <2> QED
    BY <2>1, NothingWritten
<1>10. CASE Withdraw(o)
  BY <1>10, WithdrawIInv
<1>11. CASE ReadForValidation(o)
  BY <1>11, ReadForValidationIInv
<1>12. CASE Judge(o)
  BY <1>12, JudgeIInv
<1>13. CASE RecordVerdict(o)
  BY <1>13, RecordVerdictIInv
<1>14. CASE VerdictStale(o)
  <2>1. ~HoldsSecret(call[o]) /\ Return(o)
        /\ UNCHANGED <<storeVars, secretVars, resolverVars, lossVars>>
        /\ disturbed' \in 0..MaxDisturbances
    BY <1>14, CallFacts DEF VerdictStale, HoldsSecret
  <2> QED
    BY <2>1, ReturnStep
<1> QED
  BY <1>1, <1>2, <1>3, <1>4, <1>5, <1>6, <1>7, <1>8, <1>9, <1>10, <1>11, <1>12,
     <1>13, <1>14 DEF Advance

LEMMA TroubleIInv ==
    ASSUME IInv, NEW o \in Operators, Trouble(o)
    PROVE  IInv'
<1>1. CASE AuditFails(o)
  <2>1. /\ HoldsSecret(call[o]) /\ Goto(o, "undo") /\ Disturb
        /\ UNCHANGED <<storeVars, secretVars, resolverVars, lossVars>>
    BY <1>1, CallFacts DEF AuditFails, CallOK, HoldsSecret
  <2>2. disturbed' \in 0..MaxDisturbances
    BY <2>1, DisturbType DEF IInv
  <2> QED
    BY <2>1, <2>2, GotoUndo
<1> QED
  BY <1>1, RemoveFailsIInv, CommitFailsIInv, WithdrawFailsIInv, DieIInv DEF Trouble

LEMMA NextIInv == IInv /\ [Next]_vars => IInv'
<1> SUFFICES ASSUME IInv, [Next]_vars PROVE IInv'
  OBVIOUS
<1>1. ASSUME NEW o \in Operators, NEW kind \in Kinds, Begin(o, kind)
      PROVE  IInv'
  BY <1>1, BeginIInv
<1>2. ASSUME NEW o \in Operators, Advance(o)
      PROVE  IInv'
  BY <1>2, AdvanceIInv
<1>3. ASSUME NEW o \in Operators, Trouble(o)
      PROVE  IInv'
  BY <1>3, TroubleIInv
<1>4. ASSUME NEW w \in Works,
             \/ Resolve(w) \/ ResolveRefused(w) \/ Checkout(w)
             \/ CheckoutFails(w) \/ CloseWindow(w) \/ DropLease(w)
      PROVE  IInv'
  BY <1>4, ResolveIInv, CheckoutIInv, ResolverIInv
<1>5. ASSUME NEW r \in Refs, Expire(r)
      PROVE  IInv'
  BY <1>5, ExpireIInv
<1>6. CASE UNCHANGED vars
  <2>1. /\ UNCHANGED <<storeVars, secrets, made, call, lossVars>>
        /\ UNCHANGED <<ledger, aged, pin, closed, resolving, lease, disturbed>>
    BY <1>6 DEF vars, storeVars, lossVars
  <2>2. ResolverOK'
    BY <2>1 DEF IInv, ResolverOK
  <2>3. /\ aged' \in SUBSET (made \cap Mortal) /\ closed' \in SUBSET Works
        /\ pin' \in [Works -> 0..MaxVersions] /\ resolving' \in SUBSET Works
        /\ lease' \in [Works -> Refs \cup {None}] /\ disturbed' \in 0..MaxDisturbances
    BY <2>1 DEF IInv, TypeOK
  <2> QED
    BY <2>1, <2>2, <2>3, ResolverStep
<1> QED
  BY <1>1, <1>2, <1>3, <1>4, <1>5, <1>6 DEF Next

LEMMA Invariance == Spec => []IInv
BY InitIInv, NextIInv, PTL DEF Spec

-----------------------------------------------------------------------------
(* The life of the credential.                                             *)

\* What the ledger says of the credential.
LedgerReadiness == IF ledger = <<>> THEN "missing" ELSE Current.readiness
LedgerRef == IF ledger = <<>> THEN None ELSE Current.ref
LedgerUsed == {ledger[i].ref : i \in DOMAIN ledger}

LEMMA AppendedLife ==
    ASSUME TypeOK, NEW v \in Version, ledger' = Append(ledger, v)
    PROVE  /\ LedgerReadiness' = v.readiness /\ LedgerRef' = v.ref
           /\ LedgerUsed' = LedgerUsed \cup {v.ref}
<1>1. /\ ledger' \in Seq(Version) /\ Len(ledger) \in Nat
      /\ Len(ledger') = Len(ledger) + 1
      /\ DOMAIN ledger = 1..Len(ledger)
      /\ DOMAIN ledger' = 1..(Len(ledger) + 1)
      /\ \A i \in DOMAIN ledger : ledger'[i] = ledger[i]
      /\ ledger'[Len(ledger) + 1] = v
      /\ Current' = v
  BY AppendFacts
<1>2. ledger' # <<>>
  BY <1>1, EmptySeq
<1>3. LedgerUsed' = LedgerUsed \cup {v.ref}
  <2>1. LedgerUsed' \subseteq LedgerUsed \cup {v.ref}
    <3>1. ASSUME NEW i \in DOMAIN ledger'
          PROVE  ledger'[i].ref \in LedgerUsed \cup {v.ref}
      <4>1. i \in DOMAIN ledger \/ i = Len(ledger) + 1
        BY <1>1
      <4> QED
        BY <1>1, <4>1 DEF LedgerUsed
    <3> QED
      BY <3>1 DEF LedgerUsed
  <2>2. LedgerUsed \subseteq LedgerUsed'
    BY <1>1 DEF LedgerUsed
  <2>3. v.ref \in LedgerUsed'
    BY <1>1 DEF LedgerUsed
  <2> QED
    BY <2>1, <2>2, <2>3
<1> QED
  BY <1>1, <1>2, <1>3 DEF LedgerReadiness, LedgerRef

LEMMA LifeInUse ==
    ASSUME TypeOK
    PROVE  /\ InUse <=> LedgerReadiness \notin {"missing", "revoked"}
           /\ InUse => LedgerRef = Current.ref /\ LedgerRef \in LedgerUsed
<1>1. Len(ledger) = 0 <=> ledger = <<>>
  BY EmptySeq DEF TypeOK
<1>2. /\ Len(ledger) \in Nat /\ DOMAIN ledger = 1..Len(ledger)
      /\ \A i \in DOMAIN ledger : ledger[i] \in Version
  BY LedgerFacts
<1>3. CASE ledger = <<>>
  BY <1>1, <1>3 DEF InUse, LedgerReadiness
<1>4. CASE ledger # <<>>
  <2>1. /\ Len(ledger) > 0 /\ Len(ledger) \in DOMAIN ledger
        /\ Current \in Version /\ Current.readiness # "missing"
    BY <1>1, <1>2, <1>4 DEF Current, Version, Verdicts
  <2> QED
    BY <1>4, <2>1 DEF InUse, LedgerReadiness, LedgerRef, LedgerUsed, Current
<1> QED
  BY <1>3, <1>4

\* The only steps that write the ledger.
LEMMA LedgerSteps ==
    ASSUME [Next]_vars
    PROVE  \/ UNCHANGED ledger
           \/ \E o \in Operators : call[o].stage = "write" /\ Write(o)
           \/ \E o \in Operators : RecordVerdict(o)
<1> USE DEF storeVars
<1>1. ASSUME NEW o \in Operators, Advance(o)
      PROVE  UNCHANGED ledger \/ (call[o].stage = "write" /\ Write(o)) \/ RecordVerdict(o)
  BY <1>1 DEF Advance, ListCleanup, RemoveSecret, CompleteCleanup, Leave, PutSecret,
     ReadCurrent, NotAllowed, Commit, CommitConflict, Withdraw, ReadForValidation,
     Judge, VerdictStale
<1>2. ASSUME NEW o \in Operators, Trouble(o)
      PROVE  UNCHANGED ledger \/ (call[o].stage = "write" /\ Write(o))
  BY <1>2 DEF Trouble, RemoveFails, AuditFails, CommitFails, WithdrawFails, Die
<1>3. ASSUME NEW o \in Operators, NEW kind \in Kinds, Begin(o, kind)
      PROVE  UNCHANGED ledger
  BY <1>3 DEF Begin
<1>4. ASSUME NEW w \in Works,
             \/ Resolve(w) \/ ResolveRefused(w) \/ Checkout(w)
             \/ CheckoutFails(w) \/ CloseWindow(w) \/ DropLease(w)
      PROVE  UNCHANGED ledger
  BY <1>4 DEF Resolve, ResolveRefused, Checkout, CheckoutFails, CloseWindow, DropLease
<1>5. ASSUME NEW r \in Refs, Expire(r)
      PROVE  UNCHANGED ledger
  BY <1>5 DEF Expire
<1> QED
  BY <1>1, <1>2, <1>3, <1>4, <1>5 DEF Next, vars

LEMMA WriteLives ==
    ASSUME IInv, NEW o \in Operators, call[o].stage = "write", Write(o)
    PROVE  Lifecycle!Next
<1>1. PICK v \in Version :
          /\ ledger' = Append(ledger, v)
          /\ \/ call[o].kind = "revoke" /\ v = [ref |-> Current.ref, readiness |-> "revoked"]
             \/ /\ call[o].kind \in {"set", "rotate"}
                /\ v = [ref |-> call[o].ref, readiness |-> "configured"]
  BY WriteFacts
<1>2. /\ LedgerReadiness' = v.readiness /\ LedgerRef' = v.ref
      /\ LedgerUsed' = LedgerUsed \cup {v.ref}
  BY <1>1, AppendedLife DEF IInv
<1>3. /\ call[o].kind = "set" => ~InUse
      /\ call[o].kind \in {"rotate", "revoke"} => InUse
      /\ call[o].kind \in {"set", "rotate"} => /\ call[o].ref \in Refs
                                              /\ call[o].ref \notin LedgerUsed
  BY WriteFacts DEF Untouched, InLedger, LedgerUsed
<1>4. /\ InUse <=> LedgerReadiness \notin {"missing", "revoked"}
      /\ InUse => LedgerRef = Current.ref /\ LedgerRef \in LedgerUsed
  BY LifeInUse DEF IInv
<1>5. CASE call[o].kind = "revoke"
  <2>1. /\ LedgerReadiness \notin {"missing", "revoked"} /\ LedgerReadiness' = "revoked"
        /\ UNCHANGED <<LedgerRef, LedgerUsed>>
    BY <1>1, <1>2, <1>3, <1>4, <1>5
  <2>2. Lifecycle!Revoke
    BY <2>1 DEF Lifecycle!Revoke, Lifecycle!InUse, LedgerReadiness, LedgerRef, LedgerUsed
  <2> QED
    BY <2>2 DEF Lifecycle!Next
<1>6. CASE call[o].kind \in {"set", "rotate"}
  <2>1. PICK r \in Refs : r = call[o].ref
    BY <1>3, <1>6
  <2>2. /\ r \notin LedgerUsed /\ LedgerReadiness' = "configured"
        /\ LedgerRef' = r /\ LedgerUsed' = LedgerUsed \cup {r}
    BY <1>1, <1>2, <1>3, <1>6, <2>1
  <2>3. Lifecycle!Install(r)
    BY <2>2 DEF Lifecycle!Install, LedgerReadiness, LedgerRef, LedgerUsed
  <2>4. Lifecycle!Configure(r) \/ Lifecycle!Replace(r)
    BY <2>3 DEF Lifecycle!Configure, Lifecycle!Replace
  <2> QED
    BY <2>4 DEF Lifecycle!Next
<1> QED
  BY <1>1, <1>5, <1>6

LEMMA RecordVerdictLives ==
    ASSUME IInv, NEW o \in Operators, RecordVerdict(o)
    PROVE  Lifecycle!Next
<1>1. PICK u \in Verdicts : u = call[o].verdict
  BY CallFacts DEF Call
<1>2. /\ InUse /\ Current.ref \in Refs
      /\ u = "valid" => Current.ref \in Genuine
  BY <1>1, LedgerFacts, CallFacts DEF RecordVerdict, Unchanged, CallOK, IInv, Version
<1>3. PICK v \in Version : /\ ledger' = Append(ledger, v)
                           /\ v.ref = Current.ref /\ v.readiness = u
  <2> DEFINE d == [ref |-> Current.ref, readiness |-> u]
  <2>1. d \in Version /\ d.ref = Current.ref /\ d.readiness = u
    BY <1>1, <1>2 DEF Version
  <2>2. ledger' = Append(ledger, d)
    BY <1>1 DEF RecordVerdict
  <2> QED
    BY <2>1, <2>2
<1>4. /\ LedgerReadiness' = u /\ LedgerRef' = Current.ref
      /\ LedgerUsed' = LedgerUsed \cup {Current.ref}
  BY <1>3, AppendedLife DEF IInv
<1>5. /\ InUse <=> LedgerReadiness \notin {"missing", "revoked"}
      /\ InUse => LedgerRef = Current.ref /\ LedgerRef \in LedgerUsed
  BY LifeInUse DEF IInv
<1>6. /\ LedgerReadiness \notin {"missing", "revoked"} /\ LedgerReadiness' = u
      /\ u = "valid" => LedgerRef \in Genuine
      /\ UNCHANGED <<LedgerRef, LedgerUsed>>
  BY <1>2, <1>4, <1>5
<1>7. Lifecycle!Judge(u)
  BY <1>6 DEF Lifecycle!Judge, Lifecycle!InUse, LedgerReadiness, LedgerRef, LedgerUsed
<1> QED
  BY <1>1, <1>7 DEF Lifecycle!Next, Lifecycle!Verdicts, Verdicts

-----------------------------------------------------------------------------
(* The theorems.                                                           *)

\* Every request, every row and every lease is always what the code can hold.
THEOREM TypeCorrect == Spec => []TypeOK
BY Invariance, PTL DEF IInv

\* However requests interleave, fail and die, the secret that the ledger names
\* is in the store, unless its publication was reported as failed.
THEOREM CurrentStored == Spec => []CurrentSecretStored
<1>1. IInv => CurrentSecretStored
  BY DEF IInv, StoreOK, CurrentSecretStored
<1> QED
  BY <1>1, Invariance, PTL

\* A stored secret is current, queued for removal, held by a request or lost
\* with one that died: the drain, the withdrawal and the rotation leak none.
THEOREM NothingLeaks == Spec => []NoSecretLeaks
BY Invariance, PTL DEF IInv

\* A verdict is never recorded for another secret than the one it judged.
THEOREM VerdictOfItsSecret == Spec => []ValidIsGenuine
BY Invariance, PTL DEF IInv

\* The resolver leases only the secret of the validated version it pinned, and
\* holds no lease after the pin's window.
THEOREM LeasesPinned == Spec => []LeaseOfValidatedPin
<1>1. IInv => LeaseOfValidatedPin
  <2> SUFFICES ASSUME IInv, NEW w \in Works, lease[w] # None
               PROVE  /\ pin[w] \in DOMAIN ledger
                      /\ ledger[pin[w]] = [ref |-> lease[w], readiness |-> "valid"]
                      /\ w \notin closed
    BY DEF LeaseOfValidatedPin
  <2>1. /\ pin[w] \in DOMAIN ledger /\ w \notin closed
        /\ ledger[pin[w]].readiness = "valid" /\ ledger[pin[w]].ref = lease[w]
    BY DEF IInv, ResolverOK
  <2>2. ledger[pin[w]] \in Version
    BY <2>1, LedgerFacts DEF IInv
  <2> QED
    BY <2>1, <2>2 DEF Version
<1> QED
  BY <1>1, Invariance, PTL

\* The versioned ledger, written by concurrent requests whose commits may be
\* reported as failed, implements the life of one credential.
THEOREM RefinesCredentialLifecycle == Spec => ImplementsCredentialLifecycle
<1>1. Init => Lifecycle!Init
  BY DEF Init, Lifecycle!Init
<1>2. IInv /\ [Next]_vars => [Lifecycle!Next]_Lifecycle!vars
  <2> SUFFICES ASSUME IInv, [Next]_vars PROVE [Lifecycle!Next]_Lifecycle!vars
    OBVIOUS
  <2>1. CASE UNCHANGED ledger
    BY <2>1 DEF Lifecycle!vars, Current
  <2> QED
    BY <2>1, LedgerSteps, WriteLives, RecordVerdictLives
<1> QED
  BY <1>1, <1>2, Invariance, PTL DEF Spec, ImplementsCredentialLifecycle, Lifecycle!Spec

================================================================================
