-------------------------- MODULE ProductionEodProofs --------------------------
(***************************************************************************)
(* Proofs about ProductionEod, for any runs, batches, commands and any     *)
(* bounds on assignments and time.                                         *)
(***************************************************************************)
EXTENDS ProductionEod, SequenceTheorems, FiniteSetTheorems,
        WellFoundedInduction, TLAPS

\* What a run knows at each stage still holds: the command it serves, the pin of
\* its batch once it has one, and that nobody has published its batch once it
\* holds the locks of the batch.
RunsKnow ==
    \A r \in Runs :
        /\ run[r].stage # "idle" => run[r].command \in Commands
        /\ run[r].stage \in {"publish", "insert", "commit"} =>
              /\ pin[BatchOf(r)] # None
              /\ pin[BatchOf(r)].assignment = run[r].assignment
        /\ run[r].stage = "commit" => ~Published(BatchOf(r))

\* At most one transaction is writing the rows of a batch.
WritersApart ==
    \A r, x \in Runs :
        /\ run[r].stage = "commit" /\ run[x].stage = "commit"
        /\ BatchOf(r) = BatchOf(x)
        => r = x

IInv == TypeOK /\ RunsKnow /\ WritersApart /\ PublishedOnce /\ EffectiveFrom

-----------------------------------------------------------------------------
(* The newest assignment.                                                  *)

\* A set of numbers up to n has a greatest one: a minimal set of those above.
LEMMA MaxExists ==
    ASSUME NEW n \in Nat, NEW S \in SUBSET (0..n), S # {}
    PROVE  \E x \in S : \A y \in S : y <= x
<1> DEFINE Above(s) == {k \in 1..n : k > s}
           T == {Above(s) : s \in S}
           R == StrictSubsetOrdering(1..n)
<1>1. T \subseteq FiniteSubsetsOf(1..n) /\ T # {}
  <2>1. IsFiniteSet(1..n)
    BY FS_Interval
  <2>2. ASSUME NEW s \in S
        PROVE  Above(s) \in SUBSET (1..n) /\ IsFiniteSet(Above(s))
    BY <2>1, FS_Subset
  <2> QED
    BY <2>2 DEF FiniteSubsetsOf
<1>2. \E x \in T : \A y \in T : ~(<<y, x>> \in R)
  <2>1. IsWellFoundedOn(R, FiniteSubsetsOf(1..n))
    BY FS_StrictSubsetOrderingWellFounded
  <2> HIDE DEF T, R
  <2> QED
    BY <1>1, <2>1, WFMin
<1>3. PICK s \in S : \A y \in S : ~(<<Above(y), Above(s)>> \in R)
  BY <1>2
<1>4. ASSUME NEW y \in S PROVE y <= s
  <2> SUFFICES ASSUME ~(y <= s) PROVE FALSE
    OBVIOUS
  <2>1. s \in 0..n /\ y \in 0..n
    OBVIOUS
  <2>2. Above(y) \subseteq Above(s)
    BY <2>1
  <2>3. y \in Above(s) /\ y \notin Above(y)
    BY <2>1
  <2> QED
    BY <1>3, <2>2, <2>3 DEF StrictSubsetOrdering
<1> QED
  BY <1>4

\* Eligible finds an assignment or none.
LEMMA EligibleAssignment ==
    ASSUME TypeOK, NEW t
    PROVE  Eligible(t) \in DOMAIN assignments \cup {0}
<1> DEFINE S == {a \in DOMAIN assignments : assignments[a].at <= t}
<1>1. DOMAIN assignments = 1..Len(assignments) /\ Len(assignments) \in Nat
  BY LenProperties DEF TypeOK
<1>2. CASE S = {}
  BY <1>2 DEF Eligible, Newest
<1>3. CASE S # {}
  <2>1. S \in SUBSET (0..Len(assignments))
    BY <1>1
  <2>2. \E x \in S : \A y \in S : y <= x
    <3> HIDE DEF S
    <3> QED
      BY <1>1, <1>3, <2>1, MaxExists
  <2>3. Eligible(t) \in S
    <3>1. Eligible(t) = CHOOSE x \in S : \A y \in S : y <= x
      BY <1>3 DEF Eligible, Newest
    <3> HIDE DEF S
    <3> QED
      BY <2>2, <3>1
  <2> QED
    BY <2>3
<1> QED
  BY <1>2, <1>3

\* The assignments are numbered from 1 and within the bound.
LEMMA AssignmentNumbers ==
    ASSUME TypeOK
    PROVE  /\ Len(assignments) \in Nat
           /\ DOMAIN assignments = 1..Len(assignments)
           /\ DOMAIN assignments \subseteq Assignments
<1>1. Len(assignments) \in Nat /\ DOMAIN assignments = 1..Len(assignments)
  BY LenProperties DEF TypeOK
<1> QED
  BY <1>1, ProductionAssumption DEF TypeOK, Assignments

-----------------------------------------------------------------------------
(* Forms of the calls.                                                     *)

LEMMA NoCallType == NoCall \in Call
BY ProductionAssumption DEF NoCall, Call, Stages, Times

LEMMA NoCallStage == NoCall.stage = "idle"
BY DEF NoCall

LEMMA NonePin == None \notin Pin
BY ProductionAssumption DEF Pin, Assignments, Times

\* The batch of a run that is under way.
LEMMA RunBatch ==
    ASSUME RunsKnow, NEW r \in Runs, run[r].stage # "idle"
    PROVE  run[r].command \in Commands /\ BatchOf(r) \in Batches
BY ProductionAssumption DEF RunsKnow, BatchOf

-----------------------------------------------------------------------------
(* The invariant.                                                          *)

LEMMA InitIInv == Init => IInv
<1> SUFFICES ASSUME Init PROVE IInv
  OBVIOUS
<1>1. TypeOK
  <2>1. assignments \in Seq(Assignment) /\ Len(assignments) = 0
    BY EmptySeq DEF Init
  <2> QED
    BY <2>1, NoCallType, NoCallStage, ProductionAssumption DEF Init, TypeOK, Times
<1>2. RunsKnow /\ WritersApart
  BY NoCallStage DEF Init, RunsKnow, WritersApart
<1>3. PublishedOnce /\ EffectiveFrom
  BY DEF Init, PublishedOnce, EffectiveFrom
<1> QED
  BY <1>1, <1>2, <1>3 DEF IInv

\* A run may become any call that knows what is true of its batch.
LEMMA BecomesIInv ==
    ASSUME IInv, NEW r \in Runs, NEW c \in Call, Becomes(r, c),
           UNCHANGED <<now, assignments, pin, publications>>,
           c.stage # "idle" => c.command \in Commands,
           c.stage \notin {"idle", "prepare"} =>
               c.assignment \in DOMAIN assignments,
           c.stage \in {"publish", "insert", "commit"} =>
               /\ pin[c.command.batch] # None
               /\ pin[c.command.batch].assignment = c.assignment,
           c.stage = "commit" =>
               /\ ~Published(c.command.batch)
               /\ \A x \in Runs \ {r} :
                     run[x].stage = "commit" => BatchOf(x) # c.command.batch
    PROVE  IInv'
<1>1. run' \in [Runs -> Call] /\ run'[r] = c
      /\ \A x \in Runs \ {r} : run'[x] = run[x]
  BY DEF Becomes, IInv, TypeOK
<1>2. TypeOK'
  BY <1>1 DEF IInv, TypeOK
<1>3. RunsKnow'
  BY <1>1 DEF IInv, RunsKnow, BatchOf, Published
<1>4. WritersApart'
  BY <1>1 DEF IInv, WritersApart, BatchOf
<1>5. PublishedOnce' /\ EffectiveFrom'
  BY DEF IInv, PublishedOnce, EffectiveFrom
<1> QED
  BY <1>2, <1>3, <1>4, <1>5 DEF IInv

\* A run may end at any time.
LEMMA EndsIInv ==
    ASSUME IInv, NEW r \in Runs, Ends(r),
           UNCHANGED <<now, assignments, pin, publications>>
    PROVE  IInv'
BY BecomesIInv, NoCallType, NoCallStage DEF Ends

\* The call of a run that has its pin.
LEMMA PinnedCall ==
    ASSUME TypeOK, RunsKnow, NEW r \in Runs, run[r].stage # "idle",
           NEW a \in DOMAIN assignments
    PROVE  LET c == [NoCall EXCEPT !.stage = "publish",
                         !.command = run[r].command, !.assignment = a]
           IN  /\ c \in Call
               /\ c.stage = "publish"
               /\ c.command = run[r].command
               /\ c.assignment = a
<1>1. a \in 0..MaxAssignments
  BY AssignmentNumbers, ProductionAssumption DEF Assignments
<1> QED
  BY <1>1, RunBatch, NoCallType DEF Call, Stages

\* A run may go on with the pin that is there.
LEMMA PinnedIInv ==
    ASSUME IInv, NEW r \in Runs, run[r].stage # "idle",
           pin[BatchOf(r)] # None, Pinned(r, pin[BatchOf(r)].assignment),
           UNCHANGED <<now, assignments, pin, publications>>
    PROVE  IInv'
<1> DEFINE a == pin[BatchOf(r)].assignment
           c == [NoCall EXCEPT !.stage = "publish",
                     !.command = run[r].command, !.assignment = a]
<1>1. run[r].command \in Commands /\ BatchOf(r) \in Batches
  BY RunBatch DEF IInv
<1>2. a \in DOMAIN assignments
  BY <1>1 DEF IInv, TypeOK
<1>3. /\ c \in Call /\ c.stage = "publish"
      /\ c.command = run[r].command /\ c.assignment = a
  <2> HIDE DEF a
  <2> QED
    BY <1>2, PinnedCall DEF IInv
<1>4. Becomes(r, c)
  BY DEF Pinned
<1> HIDE DEF c
<1> QED
  BY <1>1, <1>2, <1>3, <1>4, BecomesIInv DEF BatchOf

LEMMA TickIInv ==
    ASSUME IInv, Tick
    PROVE  IInv'
<1>1. TypeOK'
  BY ProductionAssumption DEF IInv, TypeOK, Tick, Times
<1> QED
  BY <1>1 DEF Tick, IInv, RunsKnow, WritersApart, BatchOf, Published,
              PublishedOnce, EffectiveFrom

LEMMA AssignIInv ==
    ASSUME IInv, NEW from \in Named \cup {NextBatch}, NEW at \in Times,
           Assign(from, at)
    PROVE  IInv'
<1> DEFINE new == [from |-> from, at |-> at]
<1>1. new \in Assignment /\ assignments \in Seq(Assignment)
  BY DEF Assignment, IInv, TypeOK
<1>2. /\ assignments' \in Seq(Assignment)
      /\ Len(assignments') = Len(assignments) + 1
      /\ DOMAIN assignments \subseteq DOMAIN assignments'
      /\ \A a \in DOMAIN assignments : assignments'[a] = assignments[a]
  <2> HIDE DEF new
  <2>1. assignments' = Append(assignments, new)
    BY DEF Assign, new
  <2> QED
    BY <1>1, <2>1, AppendProperties, LenProperties
<1>3. TypeOK'
  <2>1. Len(assignments') <= MaxAssignments
    BY <1>1, <1>2, LenProperties, ProductionAssumption DEF Assign
  <2> QED
    BY <1>2, <2>1 DEF IInv, TypeOK, Assign
<1>4. EffectiveFrom'
  BY <1>2 DEF Assign, IInv, TypeOK, EffectiveFrom
<1> QED
  BY <1>3, <1>4 DEF Assign, IInv, RunsKnow, WritersApart, BatchOf, Published,
                    PublishedOnce

LEMMA StartIInv ==
    ASSUME IInv, NEW r \in Runs, NEW m \in Commands, Start(r, m)
    PROVE  IInv'
<1> DEFINE c == [NoCall EXCEPT !.stage = "prepare", !.command = m, !.started = now]
<1>1. c \in Call /\ c.stage = "prepare" /\ c.command = m
  BY NoCallType DEF Call, Stages, IInv, TypeOK
<1>2. Becomes(r, c) /\ UNCHANGED <<now, assignments, pin, publications>>
  BY DEF Start
<1> HIDE DEF c
<1> QED
  BY <1>1, <1>2, BecomesIInv

LEMMA PrepareIInv ==
    ASSUME IInv, NEW r \in Runs, Prepare(r)
    PROVE  IInv'
<1> DEFINE a == IF PinOf(r) # None THEN PinOf(r).assignment
                ELSE Eligible(run[r].started)
<1>1. /\ run[r].stage = "prepare" /\ run[r] \in Call
      /\ UNCHANGED <<now, assignments, pin, publications>>
      /\ BatchOf(r) \in Batches /\ run[r].command \in Commands
      /\ TypeOK
  BY RunBatch DEF Prepare, IInv, TypeOK
<1>2. a \in DOMAIN assignments \cup {0}
  BY <1>1, EligibleAssignment DEF PinOf, TypeOK
<1>3. CASE ~Servable(r, a)
  <2>1. Ends(r)
    BY <1>3 DEF Prepare
  <2> QED
    BY <1>1, <2>1, EndsIInv
<1>4. CASE Servable(r, a) /\ PinOf(r) # None
  <2>1. Pinned(r, a) /\ a = pin[BatchOf(r)].assignment /\ pin[BatchOf(r)] # None
    BY <1>4 DEF Prepare, PinOf
  <2> HIDE DEF a
  <2> QED
    BY <1>1, <2>1, PinnedIInv
<1>5. CASE Servable(r, a) /\ PinOf(r) = None
  <2> DEFINE c == [run[r] EXCEPT !.stage = "put", !.assignment = a]
  <2>1. Becomes(r, c)
    BY <1>5 DEF Prepare
  <2>2. a \in DOMAIN assignments
    BY <1>2, <1>5 DEF Servable
  <2> HIDE DEF a
  <2>3. c \in Call /\ c.stage = "put" /\ c.assignment = a /\ c.command = run[r].command
    <3>1. a \in 0..MaxAssignments
      BY <1>1, <2>2, AssignmentNumbers, ProductionAssumption DEF Assignments
    <3> QED
      BY <1>1, <3>1 DEF Call, Stages
  <2> HIDE DEF c
  <2> QED
    BY <1>1, <2>1, <2>2, <2>3, BecomesIInv
<1> QED
  BY <1>3, <1>4, <1>5

LEMMA ReadPublishedIInv ==
    ASSUME IInv, NEW r \in Runs, ReadPublished(r)
    PROVE  IInv'
<1> DEFINE c == [run[r] EXCEPT !.stage = "insert",
                               !.fresh = ~Stored(run[r].assignment)]
<1>1. CASE KeyTaken(run[r].command) \/ Published(BatchOf(r))
  BY <1>1, EndsIInv DEF ReadPublished
<1>2. CASE ~(KeyTaken(run[r].command) \/ Published(BatchOf(r)))
  <2>1. /\ Becomes(r, c) /\ run[r].stage = "publish" /\ run[r] \in Call
        /\ UNCHANGED <<now, assignments, pin, publications>>
    BY <1>2 DEF ReadPublished, IInv, TypeOK
  <2>2. /\ c \in Call /\ c.stage = "insert"
        /\ c.command = run[r].command /\ c.assignment = run[r].assignment
    BY <2>1 DEF Call, Stages
  <2> HIDE DEF c
  <2>3. /\ run[r].command \in Commands
        /\ run[r].assignment \in DOMAIN assignments
        /\ pin[run[r].command.batch] # None
        /\ pin[run[r].command.batch].assignment = run[r].assignment
    BY <2>1 DEF IInv, RunsKnow, TypeOK, BatchOf
  <2> QED
    BY <2>1, <2>2, <2>3, BecomesIInv
<1> QED
  BY <1>1, <1>2

LEMMA InsertIInv ==
    ASSUME IInv, NEW r \in Runs, Insert(r)
    PROVE  IInv'
<1> DEFINE c == [run[r] EXCEPT !.stage = "commit"]
<1>1. CASE Duplicate(r)
  BY <1>1, EndsIInv DEF Insert
<1>2. CASE ~Duplicate(r)
  <2>1. /\ Becomes(r, c) /\ run[r].stage = "insert" /\ run[r] \in Call
        /\ UNCHANGED <<now, assignments, pin, publications>>
    BY <1>2 DEF Insert, IInv, TypeOK
  <2>2. /\ c \in Call /\ c.stage = "commit"
        /\ c.command = run[r].command /\ c.assignment = run[r].assignment
    BY <2>1 DEF Call, Stages
  <2> HIDE DEF c
  <2>3. /\ run[r].command \in Commands
        /\ run[r].assignment \in DOMAIN assignments
        /\ pin[run[r].command.batch] # None
        /\ pin[run[r].command.batch].assignment = run[r].assignment
    BY <2>1 DEF IInv, RunsKnow, TypeOK, BatchOf
  <2>4. ~Published(run[r].command.batch)
    BY <1>2 DEF Duplicate, BatchOf
  <2>5. \A x \in Runs \ {r} :
            run[x].stage = "commit" => BatchOf(x) # run[r].command.batch
    BY DEF Insert, Collide, BatchOf
  <2> QED
    BY <2>1, <2>2, <2>3, <2>4, <2>5, BecomesIInv
<1> QED
  BY <1>1, <1>2

\* What putting a pin does: it is the pin of its batch, or nothing changes.
LEMMA PutPinCases ==
    ASSUME IInv, NEW r \in Runs, PutPin(r)
    PROVE  LET b == BatchOf(r)
               a == run[r].assignment
           IN  /\ run[r].stage = "put" /\ run[r] \in Call
               /\ b \in Batches /\ a \in DOMAIN assignments
               /\ run[r].command \in Commands
               /\ UNCHANGED <<now, assignments, publications>>
               /\ \/ pin' = pin /\ Ends(r)
                  \/ pin' = pin /\ Pinned(r, a) /\ pin[b] # None
                     /\ pin[b].assignment = a
                  \/ /\ pin[b] = None /\ Effective(a, b) /\ Pinned(r, a)
                     /\ pin' = [pin EXCEPT ![b] = [assignment |-> a,
                                                  started |-> run[r].started]]
<1>1. run[r].stage = "put" /\ run[r] \in Call /\ run[r].assignment \in DOMAIN assignments
  BY DEF PutPin, IInv, TypeOK
<1>2. run[r].command \in Commands /\ BatchOf(r) \in Batches
  BY <1>1, RunBatch DEF IInv
<1> QED
  BY <1>1, <1>2, Zenon DEF PutPin, SamePin

LEMMA PutPinIInv ==
    ASSUME IInv, NEW r \in Runs, PutPin(r)
    PROVE  IInv'
<1> DEFINE b == BatchOf(r)
           a == run[r].assignment
           new == [assignment |-> a, started |-> run[r].started]
<1>1. /\ run[r].stage = "put" /\ run[r] \in Call
      /\ b \in Batches /\ a \in DOMAIN assignments
      /\ run[r].command \in Commands /\ b = run[r].command.batch
      /\ UNCHANGED <<now, assignments, publications>>
  BY PutPinCases DEF BatchOf
<1>2. CASE pin' = pin /\ Ends(r)
  BY <1>1, <1>2, EndsIInv
<1>3. CASE pin' = pin /\ Pinned(r, a) /\ pin[b] # None /\ pin[b].assignment = a
  BY <1>1, <1>3, PinnedIInv
<1>4. CASE /\ pin[b] = None /\ Effective(a, b) /\ Pinned(r, a)
           /\ pin' = [pin EXCEPT ![b] = new]
  <2> DEFINE c == [NoCall EXCEPT !.stage = "publish",
                       !.command = run[r].command, !.assignment = a]
  <2>1. /\ c \in Call /\ c.stage = "publish"
        /\ c.command = run[r].command /\ c.assignment = a
    BY <1>1, PinnedCall DEF IInv
  <2>2. /\ run' = [run EXCEPT ![r] = c]
        /\ run' \in [Runs -> Call] /\ run'[r] = c
        /\ \A x \in Runs \ {r} : run'[x] = run[x]
    BY <1>4, <2>1 DEF Pinned, Becomes, IInv, TypeOK
  <2> HIDE DEF c
  <2>3. new \in Pin /\ new # None /\ new.assignment = a
    BY <1>1, NonePin, AssignmentNumbers DEF Pin, IInv, Call
  <2> HIDE DEF new
  <2>4. /\ pin' \in [Batches -> Pin \cup {None}] /\ pin'[b] = new
        /\ \A x \in Batches \ {b} : pin'[x] = pin[x]
    BY <1>1, <1>4, <2>3 DEF IInv, TypeOK
  <2>5. TypeOK'
    BY <1>1, <2>1, <2>2, <2>3, <2>4 DEF IInv, TypeOK
  <2>6. RunsKnow'
    <3>1. ASSUME NEW x \in Runs \ {r},
                 run[x].stage \in {"publish", "insert", "commit"}
          PROVE  BatchOf(x) \in Batches \ {b}
      BY <1>4, <3>1, RunBatch DEF IInv, RunsKnow
    <3> QED
      BY <1>1, <2>1, <2>2, <2>3, <2>4, <3>1 DEF IInv, RunsKnow, BatchOf, Published
  <2>7. WritersApart'
    BY <2>1, <2>2 DEF IInv, WritersApart, BatchOf
  <2>8. EffectiveFrom'
    <3> SUFFICES ASSUME NEW x \in Batches, pin'[x] # None,
                        assignments[pin'[x].assignment].from # NextBatch
                 PROVE  LET from == assignments[pin'[x].assignment].from
                        IN  /\ pin'[from] # None
                            /\ pin'[from].assignment = pin'[x].assignment
      BY <1>1 DEF EffectiveFrom
    <3>1. \A y \in DOMAIN assignments :
              assignments[y].from # NextBatch => assignments[y].from \in Batches
      <4>1. ASSUME NEW y \in DOMAIN assignments
            PROVE  assignments[y].from \in Named \cup {NextBatch}
        <5>1. assignments[y] \in Assignment
          BY ElementOfSeq DEF IInv, TypeOK
        <5> QED
          BY <5>1 DEF Assignment
      <4> QED
        BY <4>1, ProductionAssumption
    <3>2. CASE x # b
      <4>1. pin'[x] = pin[x] /\ pin[x].assignment \in DOMAIN assignments
        BY <2>4, <3>2 DEF IInv, TypeOK
      <4>2. pin[assignments[pin[x].assignment].from] # None
            /\ pin[assignments[pin[x].assignment].from].assignment = pin[x].assignment
        BY <4>1 DEF IInv, EffectiveFrom
      <4> QED
        BY <1>4, <2>4, <3>1, <4>1, <4>2
    <3>3. CASE x = b /\ assignments[a].from = b
      BY <2>3, <2>4, <3>3
    <3>4. CASE x = b /\ Active(a)
      <4>1. PICK y \in Batches : pin[y] # None /\ pin[y].assignment = a
        BY <3>4 DEF Active
      <4>2. pin[assignments[a].from] # None /\ pin[assignments[a].from].assignment = a
        BY <2>3, <2>4, <3>4, <4>1 DEF IInv, EffectiveFrom
      <4> QED
        BY <1>1, <1>4, <2>3, <2>4, <3>1, <3>4, <4>2
    <3> QED
      BY <1>4, <2>3, <2>4, <3>2, <3>3, <3>4 DEF Effective
  <2> QED
    BY <1>1, <2>5, <2>6, <2>7, <2>8 DEF IInv, PublishedOnce
<1> QED
  BY <1>2, <1>3, <1>4, PutPinCases

LEMMA CommitIInv ==
    ASSUME IInv, NEW r \in Runs, Commit(r)
    PROVE  IInv'
<1> DEFINE new == [command |-> run[r].command, assignment |-> run[r].assignment]
<1>1. /\ run[r].stage = "commit" /\ Ends(r)
      /\ UNCHANGED <<now, assignments, pin>>
  BY DEF Commit
<1>2. CASE ~KeyUnique(r)
  BY <1>1, <1>2, EndsIInv DEF Commit
<1>3. CASE KeyUnique(r)
  <2>1. /\ publications' = publications \cup {new}
        /\ run' \in [Runs -> Call] /\ run'[r] = NoCall
        /\ \A x \in Runs \ {r} : run'[x] = run[x]
    BY <1>1, <1>3, NoCallType DEF Commit, Ends, Becomes, IInv, TypeOK
  <2>2. new \in Publication /\ new.command = run[r].command
    BY <1>1, RunBatch, AssignmentNumbers DEF IInv, TypeOK, Publication
  <2> HIDE DEF new
  <2>3. TypeOK'
    BY <1>1, <2>1, <2>2, NoCallStage DEF IInv, TypeOK
  <2>4. RunsKnow'
    <3>1. \A x \in Runs \ {r} :
              run[x].stage = "commit" => run[x].command.batch # run[r].command.batch
      BY <1>1 DEF IInv, WritersApart, BatchOf
    <3> QED
      BY <1>1, <2>1, <2>2, <3>1, NoCallStage DEF IInv, RunsKnow, BatchOf, Published
  <2>5. WritersApart'
    BY <2>1, NoCallStage DEF IInv, WritersApart, BatchOf
  <2>6. PublishedOnce'
    <3>1. \A p \in publications : /\ p.command.batch # new.command.batch
                                  /\ p.command.key # new.command.key
      BY <1>1, <1>3, <2>2 DEF IInv, RunsKnow, Published, BatchOf, KeyUnique, KeyTaken
    <3> QED
      BY <2>1, <3>1 DEF IInv, PublishedOnce
  <2> QED
    BY <1>1, <2>3, <2>4, <2>5, <2>6 DEF IInv, EffectiveFrom
<1> QED
  BY <1>2, <1>3

LEMMA NextIInv ==
    ASSUME IInv, [Next]_vars
    PROVE  IInv'
<1>1. CASE UNCHANGED vars
  BY <1>1 DEF vars, IInv, TypeOK, RunsKnow, WritersApart, BatchOf, Published,
              PublishedOnce, EffectiveFrom
<1>2. CASE Tick
  BY <1>2, TickIInv
<1>3. CASE \E from \in Named \cup {NextBatch}, at \in Times : Assign(from, at)
  BY <1>3, AssignIInv
<1>4. ASSUME NEW r \in Runs,
             (\E m \in Commands : Start(r, m)) \/ Step(r) \/ Fail(r)
      PROVE  IInv'
  <2>1. CASE \E m \in Commands : Start(r, m)
    BY <2>1, StartIInv
  <2>2. CASE Prepare(r)
    BY <2>2, PrepareIInv
  <2>3. CASE PutPin(r)
    BY <2>3, PutPinIInv
  <2>4. CASE ReadPublished(r)
    BY <2>4, ReadPublishedIInv
  <2>5. CASE Insert(r)
    BY <2>5, InsertIInv
  <2>6. CASE Commit(r)
    BY <2>6, CommitIInv
  <2>7. CASE Fail(r)
    BY <2>7, EndsIInv DEF Fail
  <2> QED
    BY <1>4, <2>1, <2>2, <2>3, <2>4, <2>5, <2>6, <2>7 DEF Step
<1> QED
  BY <1>1, <1>2, <1>3, <1>4 DEF Next

LEMMA Invariance == Spec => []IInv
BY InitIInv, NextIInv, PTL DEF Spec

\* Whatever runs, promotions and failures interleave, the state keeps its type,
\* and a pin or a run refers to an assignment that has been made.
THEOREM TypeCorrect == Spec => []TypeOK
<1>1. IInv => TypeOK
  BY DEF IInv
<1> QED
  BY <1>1, Invariance, PTL

\* Each batch and each idempotency key has at most one publication
\* (publish_production_trace): of two runs that computed the same batch, the
\* unique keys and the locks on them let one commit.
THEOREM OnePublication == Spec => []PublishedOnce
<1>1. IInv => PublishedOnce
  BY DEF IInv
<1> QED
  BY <1>1, Invariance, PTL

\* An assignment that names a batch serves that batch before any other
\* (ServingAssignmentResolver.pin).
THEOREM NamedBatchFirst == Spec => []EffectiveFrom
<1>1. IInv => EffectiveFrom
  BY DEF IInv
<1> QED
  BY <1>1, Invariance, PTL

-----------------------------------------------------------------------------
(* The refinement of BatchServing.                                         *)

ServingOf == [b \in Batches |-> IF pin[b] = None THEN 0 ELSE pin[b].assignment]
ReleasedIn(P) == [b \in Batches |->
    IF \E p \in P : p.command.batch = b
    THEN (CHOOSE p \in P : p.command.batch = b).assignment
    ELSE 0]
ReleasedOf == ReleasedIn(publications)

\* A batch is released under the assignment of its only publication.
LEMMA ReleasedUnder ==
    ASSUME NEW P, NEW p \in P, p.command.batch \in Batches,
           \A q \in P : q.command.batch = p.command.batch => q = p
    PROVE  ReleasedIn(P)[p.command.batch] = p.assignment
<1> DEFINE b == p.command.batch
           q == CHOOSE x \in P : x.command.batch = b
<1>1. q \in P /\ q.command.batch = b
  OBVIOUS
<1>2. q = p
  <2> HIDE DEF q
  <2> QED
    BY <1>1
<1>3. ReleasedIn(P)[b] = q.assignment
  BY DEF ReleasedIn
<1> QED
  BY <1>2, <1>3

LEMMA NotReleased ==
    ASSUME NEW P, NEW b \in Batches, \A p \in P : p.command.batch # b
    PROVE  ReleasedIn(P)[b] = 0
BY DEF ReleasedIn

\* What the batches were released under changes only with the publications.
LEMMA SamePublications ==
    ASSUME UNCHANGED publications
    PROVE  UNCHANGED ReleasedOf
BY DEF ReleasedOf

LEMMA ImplementsInit == Init => Serving!Init
<1> SUFFICES ASSUME Init PROVE Serving!Init
  OBVIOUS
<1>1. Len(assignments) = 0
  BY EmptySeq DEF Init
<1>2. ServingOf = [b \in Batches |-> 0]
  BY DEF Init, ServingOf
<1>3. ReleasedOf = [b \in Batches |-> 0]
  BY DEF Init, ReleasedOf, ReleasedIn
<1> QED
  BY <1>1, <1>2, <1>3 DEF Serving!Init, ServingOf, ReleasedOf, ReleasedIn, Published

LEMMA AssignIsMake ==
    ASSUME IInv, NEW from, NEW at, Assign(from, at)
    PROVE  Serving!Make
<1>1. Len(assignments') = Len(assignments) + 1
  BY AppendProperties DEF Assign, IInv, TypeOK
<1>2. UNCHANGED ServingOf
  BY DEF Assign, ServingOf
<1>3. UNCHANGED ReleasedOf
  BY SamePublications DEF Assign
<1> QED
  BY <1>1, <1>2, <1>3 DEF Serving!Make, ServingOf, ReleasedOf, ReleasedIn, Published

LEMMA PutPinIsServe ==
    ASSUME IInv, NEW r \in Runs, PutPin(r), NEW b \in Batches, b = BatchOf(r)
    PROVE  Serving!Serve(b) \/ UNCHANGED Serving!vars
<1> DEFINE a == run[r].assignment
           new == [assignment |-> a, started |-> run[r].started]
<1>1. /\ run[r].stage = "put" /\ run[r] \in Call
      /\ b \in Batches /\ a \in DOMAIN assignments
      /\ UNCHANGED <<assignments, publications>>
      /\ \/ pin' = pin
         \/ pin[b] = None /\ pin' = [pin EXCEPT ![b] = new]
  BY PutPinCases
<1>2. UNCHANGED ReleasedOf
  BY <1>1, SamePublications
<1>3. CASE pin' = pin
  <2>1. UNCHANGED ServingOf
    BY <1>3 DEF ServingOf
  <2> QED
    BY <1>1, <1>2, <2>1 DEF Serving!vars, ServingOf, ReleasedOf, ReleasedIn, Published
<1>4. CASE pin[b] = None /\ pin' = [pin EXCEPT ![b] = new]
  <2>1. new # None /\ new.assignment = a /\ a \in 1..Len(assignments)
    BY <1>1, NonePin, AssignmentNumbers DEF Pin, IInv, Call
  <2> HIDE DEF new
  <2>2. ServingOf[b] = 0
    BY <1>1, <1>4 DEF ServingOf
  <2>3. ServingOf' = [ServingOf EXCEPT ![b] = a]
    <3>1. \A x \in Batches : pin'[x] = IF x = b THEN new ELSE pin[x]
      BY <1>4 DEF IInv, TypeOK
    <3> QED
      BY <1>1, <2>1, <3>1 DEF ServingOf
  <2>4. Serving!Serve(b)
    BY <1>1, <1>2, <2>1, <2>2, <2>3 DEF Serving!Serve, ServingOf, ReleasedOf, ReleasedIn, Published
  <2> QED
    BY <2>4
<1> QED
  BY <1>1, <1>3, <1>4

LEMMA CommitIsRelease ==
    ASSUME IInv, NEW r \in Runs, Commit(r), NEW b \in Batches, b = BatchOf(r)
    PROVE  Serving!Release(b) \/ UNCHANGED Serving!vars
<1> DEFINE new == [command |-> run[r].command, assignment |-> run[r].assignment]
<1>1. /\ run[r].stage = "commit" /\ UNCHANGED <<assignments, pin>>
      /\ publications' = IF KeyUnique(r) THEN publications \cup {new}
                         ELSE publications
  BY DEF Commit
<1>2. UNCHANGED ServingOf
  BY <1>1 DEF ServingOf
<1>3. CASE ~KeyUnique(r)
  <2>1. UNCHANGED ReleasedOf
    BY <1>1, <1>3, SamePublications
  <2> QED
    BY <1>1, <1>2, <2>1 DEF Serving!vars, ServingOf, ReleasedOf, ReleasedIn, Published
<1>4. CASE KeyUnique(r)
  <2>1. publications' = publications \cup {new} /\ new.command.batch = b
        /\ new.assignment = run[r].assignment
    BY <1>1, <1>4 DEF BatchOf
  <2>2. b \in Batches
    BY <1>1, RunBatch DEF IInv
  <2>3. pin[b] # None /\ pin[b].assignment = run[r].assignment /\ ~Published(b)
    BY <1>1 DEF IInv, RunsKnow
  <2>4. ServingOf[b] = run[r].assignment /\ run[r].assignment # 0
    BY <1>1, <2>2, <2>3, AssignmentNumbers DEF ServingOf, IInv, TypeOK
  <2> HIDE DEF new
  <2>5. /\ \A p \in publications : p.command.batch # b
        /\ \A p, q \in publications :
              p.command.batch = q.command.batch => p = q
    BY <2>3 DEF IInv, PublishedOnce, Published
  <2>6. ReleasedOf'[b] = run[r].assignment
    <3>1. ReleasedIn(publications')[b] = new.assignment
      <4>1. /\ new \in publications' /\ new.command.batch = b
            /\ \A q \in publications' : q.command.batch = b => q = new
        BY <2>1, <2>5
      <4> QED
        BY <4>1, ReleasedUnder
    <3> QED
      BY <2>1, <3>1 DEF ReleasedOf
  <2>7. ASSUME NEW x \in Batches \ {b} PROVE ReleasedOf'[x] = ReleasedOf[x]
    <3>1. CASE \E p \in publications : p.command.batch = x
      <4>1. PICK p \in publications : p.command.batch = x
        BY <3>1
      <4>2. ReleasedIn(publications)[x] = p.assignment
        BY <2>5, <4>1, ReleasedUnder
      <4>3. ReleasedIn(publications')[x] = p.assignment
        <5>1. /\ p \in publications'
              /\ \A q \in publications' : q.command.batch = x => q = p
          BY <2>1, <2>5, <4>1
        <5> QED
          BY <4>1, <5>1, ReleasedUnder
      <4> QED
        BY <4>2, <4>3 DEF ReleasedOf
    <3>2. CASE \A p \in publications : p.command.batch # x
      <4>1. ReleasedIn(publications)[x] = 0
        BY <3>2, NotReleased
      <4>2. ReleasedIn(publications')[x] = 0
        BY <2>1, <3>2, NotReleased
      <4> QED
        BY <4>1, <4>2 DEF ReleasedOf
    <3> QED
      BY <3>1, <3>2
  <2>8. ReleasedOf' = [ReleasedOf EXCEPT ![b] = run[r].assignment]
    <3>1. ReleasedOf' = [x \in Batches |-> ReleasedOf'[x]]
          /\ ReleasedOf = [x \in Batches |-> ReleasedOf[x]]
      BY DEF ReleasedOf, ReleasedIn
    <3> QED
      BY <2>2, <2>6, <2>7, <3>1
  <2>9. ReleasedOf[b] = 0
    BY <2>2, <2>5, NotReleased DEF ReleasedOf
  <2>10. Serving!Release(b)
    BY <1>1, <1>2, <2>4, <2>8, <2>9 DEF Serving!Release, ServingOf, ReleasedOf, ReleasedIn, Published
  <2> QED
    BY <2>10
<1> QED
  BY <1>3, <1>4

LEMMA ImplementsNext ==
    ASSUME IInv, [Next]_vars
    PROVE  [Serving!Next]_(Serving!vars)
<1>1. CASE UNCHANGED <<assignments, pin, publications>>
  <2>1. UNCHANGED ReleasedOf /\ UNCHANGED ServingOf
    BY <1>1, SamePublications DEF ServingOf
  <2> QED
    BY <1>1, <2>1 DEF Serving!vars, ServingOf, ReleasedOf, ReleasedIn, Published
<1>2. CASE \E from \in Named \cup {NextBatch}, at \in Times : Assign(from, at)
  BY <1>2, AssignIsMake DEF Serving!Next
<1>3. ASSUME NEW r \in Runs, PutPin(r)
      PROVE  [Serving!Next]_(Serving!vars)
  <2>1. BatchOf(r) \in Batches
    BY <1>3, PutPinCases
  <2>2. PICK b \in Batches : b = BatchOf(r)
    BY <2>1
  <2>3. Serving!Serve(b) \/ UNCHANGED Serving!vars
    BY <1>3, <2>2, PutPinIsServe
  <2> QED
    BY <2>3 DEF Serving!Next
<1>4. ASSUME NEW r \in Runs, Commit(r)
      PROVE  [Serving!Next]_(Serving!vars)
  <2>1. BatchOf(r) \in Batches
    BY <1>4, RunBatch DEF IInv, Commit
  <2>2. PICK b \in Batches : b = BatchOf(r)
    BY <2>1
  <2>3. Serving!Release(b) \/ UNCHANGED Serving!vars
    BY <1>4, <2>2, CommitIsRelease
  <2> QED
    BY <2>3 DEF Serving!Next
<1>5. CASE Tick
  BY <1>1, <1>5 DEF Tick
<1>6. ASSUME NEW r \in Runs,
             \/ \E m \in Commands : Start(r, m)
             \/ Prepare(r) \/ ReadPublished(r) \/ Insert(r) \/ Fail(r)
      PROVE  UNCHANGED <<assignments, pin, publications>>
  BY <1>6, Zenon DEF Start, Prepare, ReadPublished, Insert, Fail
<1>7. CASE UNCHANGED vars
  BY <1>1, <1>7 DEF vars
<1> QED
  BY <1>1, <1>2, <1>3, <1>4, <1>5, <1>6, <1>7 DEF Next, Step

\* Competing runs, promotions under way, repeated commands and failures make,
\* for each batch, one choice among the assignments made so far that is never
\* revised, and at most one publication, under that choice.
THEOREM RefinesBatchServing == Spec => ImplementsBatchServing
BY Invariance, ImplementsInit, ImplementsNext, PTL
   DEF Spec, ImplementsBatchServing, Serving!Spec

=================================================================================
