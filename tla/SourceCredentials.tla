--------------------------- MODULE SourceCredentials ---------------------------
(***************************************************************************)
(* The credential of one data provider: the operations that set, rotate,   *)
(* revoke and validate it (operations_control.py), the append-only ledger  *)
(* of its versions and the queue of secrets to remove (state_store.py),    *)
(* the encrypted secret store, and the resolver that leases the secret to  *)
(* an ingest (source_credentials.py).  Providers share nothing, so one is  *)
(* enough.                                                                 *)
(*                                                                         *)
(* Operators are concurrent requests; each action is one transaction or    *)
(* one call of the secret store.  A transaction that reads the current     *)
(* version and inserts the next one is split between the two statements:   *)
(* only the primary key (provider_id, version) stands between concurrent   *)
(* requests.  A request that is denied or malformed changes nothing after  *)
(* its drain of the queue (Leave).                                        *)
(***************************************************************************)
EXTENDS Naturals, Sequences

CONSTANTS
    Operators,          \* concurrent requests to Operations
    Works,              \* ingest work ids, each resolved by one process
    Refs,               \* SecretRefs, each made by one put (uuid4)
    Genuine,            \* those whose secret the provider accepts
    Mortal,             \* those configured with an expires_at
    MaxVersions,        \* bound: versions in the ledger
    MaxDisturbances,    \* bound: crashes and failures of stores
    None

ASSUME CredentialAssumption ==
    /\ Genuine \subseteq Refs
    /\ Mortal \subseteq Refs
    /\ None \notin Refs
    /\ MaxVersions \in Nat
    /\ MaxDisturbances \in Nat

VARIABLES
    ledger,     \* source_credential_versions of the provider, by version
    cleanup,    \* [r]: row of source_secret_cleanup_queue
    secrets,    \* the refs the secret store holds
    made,       \* the refs it ever returned
    aged,       \* the refs whose expires_at has passed
    call,       \* [o]: the request that o serves
    pin,        \* [w]: version in the lease-pin event of w, 0 for none
    closed,     \* the works whose pinned five minutes are over
    resolving,  \* the works whose resolve call is about to check out
    lease,      \* [w]: the ref whose lease the process of w caches
    abandoned,  \* refs held by a request that died (no row names them)
    unanswered, \* refs whose publication committed and was reported as failed
    disturbed   \* disturbances so far

storeVars == <<ledger, cleanup>>
secretVars == <<secrets, made, aged>>
resolverVars == <<pin, closed, resolving, lease>>
lossVars == <<abandoned, unanswered>>
vars == <<ledger, cleanup, secrets, made, aged, call, pin, closed, resolving,
          lease, abandoned, unanswered, disturbed>>

\* Readiness of CredentialValidationResult.
Verdicts == {"valid", "configured", "validation_failed", "expired"}
Version == [ref : Refs, readiness : Verdicts \cup {"revoked"}]

\* "finish" stands for the drain that ends a rotation or a revocation.
Kinds == {"set", "rotate", "revoke", "validate", "finish"}
Stages == {"idle", "list", "drain", "complete", "stored", "write", "undo",
           "check", "verdict"}

\* todo are the listed refs still to remove, ref the secret at hand, seen the
\* version the transaction or the validation has read.
Call == [kind : Kinds, stage : Stages, todo : SUBSET Refs,
         ref : Refs \cup {None}, seen : 0..MaxVersions,
         verdict : Verdicts]

NoCall == [kind |-> "finish", stage |-> "idle", todo |-> {}, ref |-> None,
           seen |-> 0, verdict |-> "configured"]

TypeOK ==
    /\ ledger \in Seq(Version) /\ Len(ledger) <= MaxVersions
    /\ cleanup \in [Refs -> {"none", "pending", "done"}]
    /\ made \in SUBSET Refs
    /\ secrets \in SUBSET made
    /\ aged \in SUBSET (made \cap Mortal)
    /\ call \in [Operators -> Call]
    /\ pin \in [Works -> 0..MaxVersions]
    /\ closed \in SUBSET Works
    /\ resolving \in SUBSET Works
    /\ lease \in [Works -> Refs \cup {None}]
    /\ abandoned \in SUBSET made
    /\ unanswered \in SUBSET made
    /\ disturbed \in 0..MaxDisturbances

Init ==
    /\ ledger = <<>>
    /\ cleanup = [r \in Refs |-> "none"]
    /\ secrets = {} /\ made = {} /\ aged = {}
    /\ call = [o \in Operators |-> NoCall]
    /\ pin = [w \in Works |-> 0]
    /\ closed = {} /\ resolving = {}
    /\ lease = [w \in Works |-> None]
    /\ abandoned = {} /\ unanswered = {}
    /\ disturbed = 0

Current == ledger[Len(ledger)]
InUse == Len(ledger) > 0 /\ Current.readiness # "revoked"
PendingCleanup == {r \in Refs : cleanup[r] = "pending"}

Disturb ==
    /\ disturbed < MaxDisturbances
    /\ disturbed' = disturbed + 1

Goto(o, stage) == call' = [call EXCEPT ![o].stage = stage]
Return(o) == call' = [call EXCEPT ![o] = NoCall]

-----------------------------------------------------------------------------
(* Every request starts with a drain of the cleanup queue.                 *)

Begin(o, kind) ==
    /\ call[o].stage = "idle"
    /\ kind # "finish"
    /\ call' = [call EXCEPT ![o] = [NoCall EXCEPT !.kind = kind,
                                                  !.stage = "list"]]
    /\ UNCHANGED <<storeVars, secretVars, resolverVars, lossVars, disturbed>>

\* list_pending_source_secret_cleanup.
ListCleanup(o) ==
    /\ call[o].stage = "list"
    /\ call' = [call EXCEPT ![o].stage = "drain", ![o].todo = PendingCleanup]
    /\ UNCHANGED <<storeVars, secretVars, resolverVars, lossVars, disturbed>>

\* SecretProvider.revoke is idempotent: the file may be gone already.
RemoveSecret(o) ==
    /\ call[o].stage = "drain"
    /\ \E r \in call[o].todo :
          /\ secrets' = secrets \ {r}
          /\ call' = [call EXCEPT ![o].stage = "complete", ![o].ref = r]
    /\ UNCHANGED <<storeVars, made, aged, resolverVars, lossVars, disturbed>>

\* Mutant: the error of SecretProvider.revoke is swallowed.
RemoveFailsQuietly(o) ==
    /\ call[o].stage = "drain"
    /\ \E r \in call[o].todo :
          call' = [call EXCEPT ![o].stage = "complete", ![o].ref = r]
    /\ Disturb
    /\ UNCHANGED <<storeVars, secretVars, resolverVars, lossVars>>

\* SecretProvider.revoke raises: the row stays pending.
RemoveFails(o) ==
    /\ call[o].stage = "drain"
    /\ \E r \in call[o].todo : call' = [call EXCEPT ![o].todo = @ \ {r}]
    /\ Disturb
    /\ UNCHANGED <<storeVars, secretVars, resolverVars, lossVars>>

\* complete_source_secret_cleanup; rowcount # 1 raises, which ends the request.
CompleteCleanup(o) ==
    LET r == call[o].ref
    IN  /\ call[o].stage = "complete"
        /\ IF cleanup[r] = "pending"
           THEN /\ cleanup' = [cleanup EXCEPT ![r] = "done"]
                /\ call' = [call EXCEPT ![o].stage = "drain",
                                        ![o].todo = @ \ {r}, ![o].ref = None]
           ELSE Return(o) /\ UNCHANGED cleanup
        /\ UNCHANGED <<ledger, secretVars, resolverVars, lossVars, disturbed>>

Drained(o, kinds) ==
    /\ call[o].kind \in kinds
    /\ call[o].stage = "drain"
    /\ call[o].todo = {}

\* Nothing is left to do, or the fields, the expiry or the validator are
\* refused.
Leave(o) ==
    /\ Drained(o, Kinds)
    /\ Return(o)
    /\ UNCHANGED <<storeVars, secretVars, resolverVars, lossVars, disturbed>>

-----------------------------------------------------------------------------
(* Set and rotate: first the secret, then the version that names it.       *)

PutSecret(o) ==
    /\ Drained(o, {"set", "rotate"})
    /\ \E r \in Refs \ made :
          /\ made' = made \cup {r}
          /\ secrets' = secrets \cup {r}
          /\ call' = [call EXCEPT ![o].stage = "stored", ![o].ref = r]
    /\ UNCHANGED <<storeVars, aged, resolverVars, lossVars, disturbed>>

\* The audit record of the write fails: the secret is withdrawn.
AuditFails(o) ==
    /\ call[o].stage = "stored"
    /\ Goto(o, "undo")
    /\ Disturb
    /\ UNCHANGED <<storeVars, secretVars, resolverVars, lossVars>>

\* The guards of publish_, rotate_ and revoke_source_credential.
Allowed(kind) == IF kind = "set" THEN ~InUse ELSE InUse

\* The reads of the transaction that publishes, rotates or revokes; the two
\* reads of publish_source_credential are one, as a version committed between
\* them makes the insert fail in either case.
ReadCurrent(o) ==
    /\ \/ call[o].kind \in {"set", "rotate"} /\ call[o].stage = "stored"
       \/ Drained(o, {"revoke"})
    /\ Allowed(call[o].kind)
    /\ call' = [call EXCEPT ![o].stage = "write", ![o].seen = Len(ledger)]
    /\ UNCHANGED <<storeVars, secretVars, resolverVars, lossVars, disturbed>>

\* ImmutableStateConflict.
NotAllowed(o) ==
    /\ ~Allowed(call[o].kind)
    /\ \/ /\ call[o].kind \in {"set", "rotate"} /\ call[o].stage = "stored"
          /\ Goto(o, "undo")
       \/ /\ Drained(o, {"revoke"})
          /\ Return(o)
    /\ UNCHANGED <<storeVars, secretVars, resolverVars, lossVars, disturbed>>

\* Primary keys: the next version is free, and the secret that goes out of use
\* is not in the cleanup queue yet.  (At MaxVersions no version is free.)
Inserts(o) ==
    /\ Len(ledger) = call[o].seen
    /\ Len(ledger) < MaxVersions
    /\ call[o].kind # "set" => cleanup[Current.ref] = "none"

\* Mutant: a rotation queues the replacement.
RetireReplacement(o) ==
    CASE call[o].kind = "set" -> {}
      [] call[o].kind = "rotate" -> {call[o].ref}
      [] OTHER -> {Current.ref}

\* The secret that a rotation or a revocation queues for removal.
Retired(o) == IF call[o].kind = "set" THEN {} ELSE {Current.ref}

\* The rows that the transaction writes.
Write(o) ==
    /\ Inserts(o)
    /\ ledger' = Append(ledger,
          IF call[o].kind = "revoke"
          THEN [ref |-> Current.ref, readiness |-> "revoked"]
          ELSE [ref |-> call[o].ref, readiness |-> "configured"])
    /\ cleanup' = [r \in Refs |-> IF r \in Retired(o)
                                  THEN "pending" ELSE cleanup[r]]

Commit(o) ==
    /\ call[o].stage = "write"
    /\ Write(o)
    /\ IF call[o].kind = "set" THEN Return(o)
       ELSE call' = [call EXCEPT ![o] = [NoCall EXCEPT !.stage = "list"]]
    /\ UNCHANGED <<secretVars, resolverVars, lossVars, disturbed>>

\* After a failed transaction a new secret is withdrawn.
AfterFailure(o) == IF call[o].kind = "revoke" THEN Return(o) ELSE Goto(o, "undo")

\* IntegrityError.
CommitConflict(o) ==
    /\ call[o].stage = "write"
    /\ ~Inserts(o)
    /\ AfterFailure(o)
    /\ UNCHANGED <<storeVars, secretVars, resolverVars, lossVars, disturbed>>

\* The database fails; it may have committed before the answer was lost.
CommitFails(o) ==
    /\ call[o].stage = "write"
    /\ \/ UNCHANGED <<storeVars, unanswered>>
       \/ /\ Write(o)
          /\ unanswered' = IF call[o].kind = "revoke" THEN unanswered
                           ELSE unanswered \cup {call[o].ref}
    /\ AfterFailure(o)
    /\ Disturb
    /\ UNCHANGED <<secretVars, resolverVars, abandoned>>

Withdraw(o) ==
    /\ call[o].stage = "undo"
    /\ secrets' = secrets \ {call[o].ref}
    /\ Return(o)
    /\ UNCHANGED <<storeVars, made, aged, resolverVars, lossVars, disturbed>>

\* Mutant: a failed withdrawal is not queued.
QueueNothing(r) == UNCHANGED cleanup

\* queue_source_secret_cleanup.
Queue(r) ==
    cleanup' = [cleanup EXCEPT ![r] = IF @ = "none" THEN "pending" ELSE @]

WithdrawFails(o) ==
    /\ call[o].stage = "undo"
    /\ Queue(call[o].ref)
    /\ Return(o)
    /\ Disturb
    /\ UNCHANGED <<ledger, secretVars, resolverVars, lossVars>>

-----------------------------------------------------------------------------
(* Validate: read, ask the provider, record if nothing has changed.        *)

\* An expired credential is judged without asking.
ReadForValidation(o) ==
    /\ Drained(o, {"validate"})
    /\ InUse
    /\ call' = [call EXCEPT
          ![o].stage = IF Current.ref \in aged THEN "verdict" ELSE "check",
          ![o].verdict = IF Current.ref \in aged THEN "expired" ELSE @,
          ![o].ref = Current.ref,
          ![o].seen = Len(ledger)]
    /\ UNCHANGED <<storeVars, secretVars, resolverVars, lossVars, disturbed>>

\* What a validation of r may report: a secret that cannot be checked out has
\* failed it, and only a secret the provider accepts is "valid".
Reported(r) ==
    {v \in Verdicts : /\ v = "valid" => r \in Genuine
                      /\ r \notin secrets => v = "validation_failed"}

\* Mutant: a validator may report any readiness.
JudgeUnchecked(o) ==
    /\ call[o].stage = "check"
    /\ \E v \in Reported(call[o].ref) \cup {"missing"} :
          call' = [call EXCEPT ![o].stage = "verdict", ![o].verdict = v]
    /\ UNCHANGED <<storeVars, secretVars, resolverVars, lossVars, disturbed>>

\* Checkout and the validator's probe of the provider.
Judge(o) ==
    /\ call[o].stage = "check"
    /\ \E v \in Reported(call[o].ref) :
          call' = [call EXCEPT ![o].stage = "verdict", ![o].verdict = v]
    /\ UNCHANGED <<storeVars, secretVars, resolverVars, lossVars, disturbed>>

\* Mutants: the verdict is recorded on whatever is current.
UnchangedReadiness(o) == InUse
UnchangedRef(o) == Len(ledger) > 0 /\ Current.ref = call[o].ref

\* The guards of record_source_credential_validation and the primary key.
Unchanged(o) ==
    /\ InUse
    /\ Len(ledger) = call[o].seen
    /\ Current.ref = call[o].ref

RecordVerdict(o) ==
    /\ call[o].stage = "verdict"
    /\ Unchanged(o)
    /\ Len(ledger) < MaxVersions
    /\ ledger' = Append(ledger, [ref |-> Current.ref,
                                 readiness |-> call[o].verdict])
    /\ Return(o)
    /\ UNCHANGED <<cleanup, secretVars, resolverVars, lossVars, disturbed>>

\* source_credential_validation_stale or _not_configured, or IntegrityError.
VerdictStale(o) ==
    /\ call[o].stage = "verdict"
    /\ ~Unchanged(o) \/ Len(ledger) = MaxVersions
    /\ Return(o)
    /\ UNCHANGED <<storeVars, secretVars, resolverVars, lossVars, disturbed>>

\* The request dies, or a store fails where nothing catches it, as when a failed
\* withdrawal cannot be queued: what it holds in memory is lost.
Die(o) ==
    /\ call[o].stage # "idle"
    /\ abandoned' = IF call[o].kind \in {"set", "rotate"}
                       /\ call[o].stage \in {"stored", "write", "undo"}
                    THEN abandoned \cup {call[o].ref} ELSE abandoned
    /\ Return(o)
    /\ Disturb
    /\ UNCHANGED <<storeVars, secretVars, resolverVars, unanswered>>

-----------------------------------------------------------------------------
(* The resolver of an ingest (ManagedSourceCredentialResolver).            *)

\* Mutant: the pin follows the current version.
LatestVersion(w) == Len(ledger)

\* The version that w works with: pinned once, by its first resolve.
PinnedVersion(w) == IF pin[w] = 0 THEN Len(ledger) ELSE pin[w]

Usable(w) ==
    /\ Current.readiness \notin {"expired", "revoked", "validation_failed"}
    /\ pin[w] = 0 => Current.readiness = "valid"

\* CredentialNotReady; a terminal readiness also drops the cached lease.
ResolveRefused(w) ==
    /\ w \notin resolving
    /\ Len(ledger) > 0
    /\ ~Usable(w)
    /\ lease' = IF Current.readiness \in {"expired", "revoked",
                                          "validation_failed"}
                THEN [lease EXCEPT ![w] = None] ELSE lease
    /\ UNCHANGED <<storeVars, secretVars, call, pin, closed, resolving,
                   lossVars, disturbed>>

\* The read of the current version, the pin and the checks of its times: the
\* pin is w's own row, so no other process can tell when it is written.  A
\* cached lease is returned as it is.
Resolve(w) ==
    LET v == PinnedVersion(w)
        late == ledger[v].ref \in aged \/ w \in closed
    IN  /\ w \notin resolving
        /\ Len(ledger) > 0
        /\ Usable(w)
        /\ pin' = [pin EXCEPT ![w] = v]
        /\ lease' = IF late THEN [lease EXCEPT ![w] = None] ELSE lease
        /\ resolving' = IF late \/ lease[w] # None THEN resolving
                        ELSE resolving \cup {w}
        /\ UNCHANGED <<storeVars, secretVars, call, closed, lossVars, disturbed>>

\* AuditedSecretCheckout and the construction of the SecretLease.
Checkout(w) ==
    LET r == ledger[pin[w]].ref
    IN  /\ w \in resolving
        /\ resolving' = resolving \ {w}
        /\ lease' = IF r \in secrets /\ w \notin closed
                    THEN [lease EXCEPT ![w] = r] ELSE lease
        /\ UNCHANGED <<storeVars, secretVars, call, pin, closed, lossVars,
                       disturbed>>

\* An audit record or the secret store fails.
CheckoutFails(w) ==
    /\ w \in resolving
    /\ resolving' = resolving \ {w}
    /\ Disturb
    /\ UNCHANGED <<storeVars, secretVars, call, pin, closed, lease, lossVars>>

\* The lease window of the pin ends; the timer revokes the cached lease.
CloseWindow(w) ==
    /\ pin[w] # 0
    /\ w \notin closed
    /\ closed' = closed \cup {w}
    /\ lease' = [lease EXCEPT ![w] = None]
    /\ UNCHANGED <<storeVars, secretVars, call, pin, resolving, lossVars,
                   disturbed>>

\* The process restarts or its cache of leases evicts this one.
DropLease(w) ==
    /\ lease[w] # None
    /\ lease' = [lease EXCEPT ![w] = None]
    /\ UNCHANGED <<storeVars, secretVars, call, pin, closed, resolving,
                   lossVars, disturbed>>

\* The clock passes the expires_at of a secret.
Expire(r) ==
    /\ r \in (made \cap Mortal) \ aged
    /\ aged' = aged \cup {r}
    /\ UNCHANGED <<storeVars, secrets, made, call, resolverVars, lossVars,
                   disturbed>>

-----------------------------------------------------------------------------

\* What a request does next once it has begun.
Advance(o) ==
    \/ ListCleanup(o)
    \/ RemoveSecret(o)
    \/ CompleteCleanup(o)
    \/ Leave(o)
    \/ PutSecret(o)
    \/ ReadCurrent(o)
    \/ NotAllowed(o)
    \/ Commit(o)
    \/ CommitConflict(o)
    \/ Withdraw(o)
    \/ ReadForValidation(o)
    \/ Judge(o)
    \/ RecordVerdict(o)
    \/ VerdictStale(o)

Trouble(o) ==
    \/ RemoveFails(o)
    \/ AuditFails(o)
    \/ CommitFails(o)
    \/ WithdrawFails(o)
    \/ Die(o)

Next ==
    \/ \E o \in Operators :
          \/ \E kind \in Kinds : Begin(o, kind)
          \/ Advance(o)
          \/ Trouble(o)
    \/ \E w \in Works :
          \/ Resolve(w)
          \/ ResolveRefused(w)
          \/ Checkout(w)
          \/ CheckoutFails(w)
          \/ CloseWindow(w)
          \/ DropLease(w)
    \/ \E r \in Refs : Expire(r)

Spec == Init /\ [][Next]_vars

\* Operators keep coming back, and a request that began goes on.
Fairness ==
    /\ \A o \in Operators : WF_vars(Advance(o))
    /\ \A o \in Operators : WF_vars(\E kind \in Kinds : Begin(o, kind))

FairSpec == Spec /\ Fairness

-----------------------------------------------------------------------------
(* Properties.                                                             *)

\* The secret that the ledger calls current is in the store, so a rotation that
\* fails, a drain and a withdrawal never remove it; the exception is a
\* publication whose commit was reported as failed, which withdraws its secret.
CurrentSecretStored ==
    InUse => \/ Current.ref \in secrets
             \/ Current.ref \in unanswered

\* Every stored secret is the current one, queued for removal, or in the hands
\* of a request: no interleaving of requests and failing stores leaks a secret,
\* only a request that dies does.
NoSecretLeaks ==
    \A r \in secrets \ abandoned :
        \/ InUse /\ Current.ref = r
        \/ cleanup[r] = "pending"
        \/ \E o \in Operators : /\ call[o].ref = r
                                /\ call[o].kind \in {"set", "rotate"}
                                /\ call[o].stage \in {"stored", "write", "undo"}

\* A version is "valid" only if the provider accepted its own secret: a verdict
\* is never recorded for a secret rotated in, or a version set, meanwhile.
ValidIsGenuine ==
    \A i \in DOMAIN ledger :
        ledger[i].readiness = "valid" => ledger[i].ref \in Genuine

\* A process only ever caches the lease of the version its work is pinned to,
\* which had been validated when it was pinned, and only in the pin's window.
LeaseOfValidatedPin ==
    \A w \in Works :
        lease[w] # None =>
            /\ pin[w] \in DOMAIN ledger
            /\ ledger[pin[w]] = [ref |-> lease[w], readiness |-> "valid"]
            /\ w \notin closed

\* The cleanup queue empties: a secret queued for removal is removed from the
\* store and stays removed.
QueuedIsRemoved ==
    \A r \in Refs :
        cleanup[r] = "pending" ~> cleanup[r] = "done" /\ r \notin secrets

\* The ledger implements the life of a credential (CredentialLifecycle).
Lifecycle == INSTANCE CredentialLifecycle WITH
    readiness <- IF ledger = <<>> THEN "missing" ELSE Current.readiness,
    ref <- IF ledger = <<>> THEN None ELSE Current.ref,
    used <- {ledger[i].ref : i \in DOMAIN ledger}
ImplementsCredentialLifecycle == Lifecycle!Spec

================================================================================
