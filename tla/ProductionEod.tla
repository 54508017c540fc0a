----------------------------- MODULE ProductionEod -----------------------------
(***************************************************************************)
(* The production forecast of one model family (ForecastExecution in       *)
(* production_eod.py): a run pins the serving assignment of its batch      *)
(* (ServingAssignmentResolver in model_governance.py), predicts, and       *)
(* publishes the batch in one transaction (publish_production_trace in     *)
(* state_store.py).                                                        *)
(*                                                                         *)
(* The pin and the publication are transactions of PostgreSQL at READ      *)
(* COMMITTED; an action is a transaction, or the part of one up to the     *)
(* next read that others can make stale.  A run that fails only ends.      *)
(* Assignments come from ModelLifecycle, which appends them while runs are *)
(* under way.  The rows of one publication commit together, so they are    *)
(* one record; the audit rows are left out.                                *)
(***************************************************************************)
EXTENDS Naturals, Sequences

CONSTANTS
    Runs,               \* concurrent calls of ForecastExecution.run
    Batches,            \* forecast batches, by market and information cutoff
    Cutoff,             \* [b]: tick of the information cutoff of b
    Commands,           \* the commands that callers send and send again
    NextBatch,          \* "next-unstarted-eod"
    Named,              \* the batches that assignments name instead
    MaxAssignments,     \* bound: assignments
    MaxTime,            \* bound: ticks of the clock
    None

ASSUME ProductionAssumption ==
    /\ Cutoff \in [Batches -> Nat]
    /\ \A m \in Commands : m.batch \in Batches
    /\ NextBatch \notin Batches /\ Named \subseteq Batches
    /\ MaxAssignments \in Nat /\ MaxTime \in Nat
    /\ None \notin [assignment : Nat, started : Nat]

VARIABLES
    now,                \* the clock of the runs and of the promotions
    assignments,        \* the assignments of the family, in ledger order
    pin,                \* [b]: serving_production_assignment_pins
    publications,       \* ops_work_attempts with their events and records
    run                 \* [r]: the call that r is serving

vars == <<now, assignments, pin, publications, run>>

Times == 0..MaxTime
Assignments == 1..MaxAssignments
Assignment == [from : Named \cup {NextBatch}, at : Times]

Pin == [assignment : Assignments, started : Times]
Publication == [command : Commands, assignment : Assignments]

\* "publish" is the call until its transaction has found nothing published,
\* "insert" until it has written the rows that others may write as well, "commit"
\* holds the locks of these rows.
Stages == {"idle", "prepare", "put", "publish", "insert", "commit"}

\* fresh: the transaction inserts the artifacts of its assignment.  started is
\* forgotten once the pin is there.
Call == [stage : Stages, command : Commands \cup {None}, started : Times,
         assignment : 0..MaxAssignments, fresh : BOOLEAN]
NoCall == [stage |-> "idle", command |-> None, started |-> 0,
           assignment |-> 0, fresh |-> FALSE]

TypeOK ==
    /\ now \in Times
    /\ assignments \in Seq(Assignment) /\ Len(assignments) <= MaxAssignments
    /\ pin \in [Batches -> Pin \cup {None}]
    /\ \A b \in Batches :
          pin[b] # None => pin[b].assignment \in DOMAIN assignments
    /\ publications \in SUBSET Publication
    /\ run \in [Runs -> Call]
    /\ \A r \in Runs :
          run[r].stage \notin {"idle", "prepare"} =>
              run[r].assignment \in DOMAIN assignments

Init ==
    /\ now = 0
    /\ assignments = <<>>
    /\ pin = [b \in Batches |-> None]
    /\ publications = {}
    /\ run = [r \in Runs |-> NoCall]

BatchOf(r) == run[r].command.batch
Published(b) == \E p \in publications : p.command.batch = b
KeyTaken(m) == \E p \in publications : p.command.key = m.key

-----------------------------------------------------------------------------
(* Around the runs.                                                        *)

Tick ==
    /\ now < MaxTime
    /\ now' = now + 1
    /\ UNCHANGED <<assignments, pin, publications, run>>

\* ModelLifecycle appends an assignment.  Its assigned_at is the moment at which
\* the operator sent the command, after the assignment before it.
Assign(from, at) ==
    /\ Len(assignments) < MaxAssignments
    /\ at <= now
    /\ assignments # <<>> => at >= assignments[Len(assignments)].at
    /\ assignments' = Append(assignments, [from |-> from, at |-> at])
    /\ UNCHANGED <<now, pin, publications, run>>

-----------------------------------------------------------------------------
(* ForecastExecution.run up to the pin.                                    *)

Becomes(r, call) == run' = [run EXCEPT ![r] = call]
Ends(r) == Becomes(r, NoCall)

\* The clock has reached the cutoff.
Start(r, m) ==
    /\ run[r].stage = "idle"
    /\ now >= Cutoff[m.batch]
    /\ Becomes(r, [NoCall EXCEPT !.stage = "prepare", !.command = m, !.started = now])
    /\ UNCHANGED <<now, assignments, pin, publications>>

-----------------------------------------------------------------------------
(* ServingAssignmentResolver.pin.                                          *)

Newest(S) == IF S = {} THEN 0 ELSE CHOOSE x \in S : \A y \in S : y <= x

\* The newest assignment made by the time a run started, 0 if there is none.
Eligible(started) ==
    Newest({a \in DOMAIN assignments : assignments[a].at <= started})

\* Mutant: a run with another start makes a pin of its own.
PinOfRun(r) ==
    IF pin[BatchOf(r)] # None /\ pin[BatchOf(r)].started = run[r].started
    THEN pin[BatchOf(r)] ELSE None

PinOf(r) == pin[BatchOf(r)]

\* The run has assignment a and goes on to compute its publication.
Pinned(r, a) == Becomes(r, [NoCall EXCEPT !.stage = "publish",
                                !.command = run[r].command, !.assignment = a])

\* Mutant: a family without an assignment goes on.
Unserved(r, a) == ~KeyTaken(run[r].command)

\* The work of the key is not done, and there is an assignment to serve it.
Servable(r, a) == ~KeyTaken(run[r].command) /\ a # 0

\* If the work of the key is done the run ends with its publication, or with a
\* conflict.  Otherwise it resolves its data and its assignment: the pin of the
\* batch holds, or one is chosen and has yet to be put.
Prepare(r) ==
    LET a == IF PinOf(r) # None THEN PinOf(r).assignment
             ELSE Eligible(run[r].started)
    IN  /\ run[r].stage = "prepare"
        /\ IF ~Servable(r, a) THEN Ends(r)
           ELSE IF PinOf(r) # None THEN Pinned(r, a)
           ELSE Becomes(r, [run[r] EXCEPT !.stage = "put", !.assignment = a])
        /\ UNCHANGED <<now, assignments, pin, publications>>

\* assignment_is_active: some batch is pinned to a.
Active(a) == \E b \in Batches : pin[b] # None /\ pin[b].assignment = a

\* Mutant: the assignment is in effect wherever it is not named.
EffectiveAnywhere(a, b) == TRUE

\* Assignment a is in effect for b: it says so, or serves some batch already.
Effective(a, b) == assignments[a].from \in {b, NextBatch} \/ Active(a)

\* Mutant: a run that loses the race to the pin goes on with its own choice.
KeepsOwnChoice(r) == TRUE

\* The pin that is there is the one the run would have made.
SamePin(r) ==
    /\ pin[BatchOf(r)].assignment = run[r].assignment
    /\ pin[BatchOf(r)].started = run[r].started

\* The insert, or the unique key (family, batch, market): a pin made in the
\* meantime must be the same one.
PutPin(r) ==
    LET b == BatchOf(r)
        a == run[r].assignment
    IN  /\ run[r].stage = "put"
        /\ IF /\ Effective(a, b)
              /\ pin[b] # None => SamePin(r)
           THEN Pinned(r, a)
           ELSE Ends(r)
        /\ pin' = IF Effective(a, b) /\ pin[b] = None
                  THEN [pin EXCEPT ![b] = [assignment |-> a,
                                           started |-> run[r].started]]
                  ELSE pin
        /\ UNCHANGED <<now, assignments, publications>>

-----------------------------------------------------------------------------
(* publish_production_trace.                                               *)

\* The artifacts of an assignment are stored with its first publication.
Stored(a) == \E p \in publications : p.assignment = a

\* The reads: the key is new, the batch is new; otherwise the run ends with the
\* same publication or a conflict.
ReadPublished(r) ==
    /\ run[r].stage = "publish"
    /\ IF KeyTaken(run[r].command) \/ Published(BatchOf(r))
       THEN Ends(r)
       ELSE Becomes(r, [run[r] EXCEPT !.stage = "insert",
                                      !.fresh = ~Stored(run[r].assignment)])
    /\ UNCHANGED <<now, assignments, pin, publications>>

\* Unique keys that r and a transaction that is writing both insert: those of
\* the batch, an artifact, and (trace_id, artifact_id).
Collide(r, x) ==
    \/ BatchOf(r) = BatchOf(x)
    \/ /\ run[r].assignment = run[x].assignment
       /\ \/ run[r].fresh /\ run[x].fresh
          \/ run[r].command.trace = run[x].command.trace

\* Such a key is already there.
Duplicate(r) ==
    \/ Published(BatchOf(r))
    \/ \E p \in publications :
          /\ p.assignment = run[r].assignment
          /\ run[r].fresh \/ p.command.trace = run[r].command.trace

\* The inserts wait for a transaction that is writing the same keys, and fail if
\* it has committed.
Insert(r) ==
    /\ run[r].stage = "insert"
    /\ \A x \in Runs \ {r} : run[x].stage = "commit" => ~Collide(r, x)
    /\ IF Duplicate(r) THEN Ends(r)
       ELSE Becomes(r, [run[r] EXCEPT !.stage = "commit"])
    /\ UNCHANGED <<now, assignments, pin, publications>>

\* Mutant: the idempotency key is not unique.
KeyFree(r) == TRUE

\* The unique idempotency_key of ops_work_attempts, inserted last.
KeyUnique(r) == ~KeyTaken(run[r].command)

Commit(r) ==
    /\ run[r].stage = "commit"
    /\ publications' =
          IF KeyUnique(r)
          THEN publications \cup {[command |-> run[r].command,
                                   assignment |-> run[r].assignment]}
          ELSE publications
    /\ Ends(r)
    /\ UNCHANGED <<now, assignments, pin>>

\* The run ends without a result, and a transaction of it is rolled back: the
\* process dies, the database, the data, the artifact or the forecaster fails, or
\* the policy denies the publication, before it is computed or when it is
\* persisted (finalize_publication).
Fail(r) ==
    /\ run[r].stage # "idle"
    /\ Ends(r)
    /\ UNCHANGED <<now, assignments, pin, publications>>

Step(r) ==
    \/ Prepare(r) \/ PutPin(r)
    \/ ReadPublished(r) \/ Insert(r) \/ Commit(r)

Next ==
    \/ Tick
    \/ \E from \in Named \cup {NextBatch}, at \in Times : Assign(from, at)
    \/ \E r \in Runs : (\E m \in Commands : Start(r, m)) \/ Step(r) \/ Fail(r)

Spec == Init /\ [][Next]_vars

\* A call runs until it returns, and the caller of a batch sends its command
\* again as long as the batch is not published.
Resend(m) == ~Published(m.batch) /\ \E r \in Runs : Start(r, m)
FairSpec ==
    /\ Spec
    /\ \A r \in Runs : WF_vars(Step(r))
    /\ \A m \in Commands : SF_vars(Resend(m))

-----------------------------------------------------------------------------
(* Properties.                                                             *)

\* Each batch and each idempotency key has at most one publication, whoever
\* computes the same batch at the same time (publish_production_trace).
PublishedOnce ==
    \A p, q \in publications :
        p.command.batch = q.command.batch \/ p.command.key = q.command.key
        => p = q

\* An assignment that names a batch serves that batch before any other
\* (effective_from_batch_id, ServingAssignmentResolver.pin).
EffectiveFrom ==
    \A b \in Batches : pin[b] # None =>
        LET a == pin[b].assignment
            from == assignments[a].from
        IN  from # NextBatch => pin[from] # None /\ pin[from].assignment = a

\* Runs and publications agree with the pin of their batch, which never
\* changes: competing runs, promotions under way and repeated commands make
\* the history of one choice and at most one publication for each batch.
Serving == INSTANCE BatchServing WITH
    made <- Len(assignments),
    serving <- [b \in Batches |-> IF pin[b] = None THEN 0
                                  ELSE pin[b].assignment],
    released <- [b \in Batches |->
        IF Published(b)
        THEN (CHOOSE p \in publications : p.command.batch = b).assignment
        ELSE 0]
ImplementsBatchServing == Serving!Spec

\* A batch that has its pin is published in the end, if runs stop failing (they
\* end only where the code ends them) and the caller sends the command again,
\* unless it has used the key for another batch: neither a lost race nor a failed
\* or killed run leaves anything in the way.
EventuallyPublished ==
    <>[][\A r \in Runs : Fail(r) => Step(r)]_vars =>
        \A m \in Commands :
            pin[m.batch] # None ~> Published(m.batch) \/ KeyTaken(m)

=================================================================================
