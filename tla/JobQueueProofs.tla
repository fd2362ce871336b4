--------------------------- MODULE JobQueueProofs ---------------------------
(***************************************************************************)
(* Theorems about JobQueue for any set of jobs, any set of workers and any *)
(* bound on the faults.                                                    *)
(***************************************************************************)
EXTENDS JobQueue, FiniteSetTheorems, TLAPS

\* Every step keeps every variable in its type.
LEMMA TypeStep == ASSUME TypeOK, [Next]_vars PROVE TypeOK'
<1> USE QueueAssumption DEF TypeOK, Stages, States, ReadyStates, Events
<1> USE DEF brokerVars, memoryVars, Transition, Store, Acknowledge, Record
<1>1. ASSUME NEW j \in Jobs, Submit(j) PROVE TypeOK'
  BY <1>1 DEF Submit
<1>2. ASSUME NEW j \in Jobs, SendRevoke(j) PROVE TypeOK'
  BY <1>2 DEF SendRevoke
<1>3. ASSUME NEW w \in Workers, MessageStep(w) PROVE TypeOK'
  <2>1. ASSUME NEW j \in Jobs, Receive(w, j) PROVE TypeOK'
    BY <2>1 DEF Receive
  <2>2. CASE DiscardRevoked(w)
    BY <2>2 DEF DiscardRevoked
  <2>3. CASE Launch(w)
    BY <2>3 DEF Launch
  <2>4. CASE BeginTask(w)
    BY <2>4 DEF BeginTask
  <2>5. CASE ProcessorReturns(w)
    BY <2>5 DEF ProcessorReturns
  <2>6. CASE TaskRaises(w)
    BY <2>6 DEF TaskRaises
  <2>7. CASE HardTimeLimit(w)
    BY <2>7 DEF HardTimeLimit
  <2>8. CASE StoreOutcome(w)
    BY <2>8 DEF StoreOutcome
  <2>9. CASE AckOutcome(w)
    BY <2>9 DEF AckOutcome
  <2>10. QED
    BY <1>3, <2>1, <2>2, <2>3, <2>4, <2>5, <2>6, <2>7, <2>8, <2>9 DEF MessageStep
<1>4. ASSUME NEW w \in Workers, NEW j \in Jobs, ReadRevoke(w, j) PROVE TypeOK'
  BY <1>4 DEF ReadRevoke
<1>5. ASSUME NEW w \in Workers, ChildLost(w) PROVE TypeOK'
  BY <1>5 DEF ChildLost, Requeue, Fault
<1>6. ASSUME NEW w \in Workers, WorkerRestart(w) PROVE TypeOK'
  BY <1>6 DEF WorkerRestart, Requeue, Fault
<1>7. ASSUME NEW w \in Workers, AuditDown(w) PROVE TypeOK'
  BY <1>7 DEF AuditDown, Fault
<1>8. ASSUME NEW w \in Workers, VisibilityTimeout(w) PROVE TypeOK'
  BY <1>8 DEF VisibilityTimeout, Fault
<1>9. CASE UNCHANGED vars
  BY <1>9 DEF vars
<1>10. QED
  BY <1>1, <1>2, <1>3, <1>4, <1>5, <1>6, <1>7, <1>8, <1>9 DEF Next

\* Type correctness: every message, result and audit event is a legal one.
THEOREM QueueTypeCorrect == Spec => []TypeOK
<1>1. Init => TypeOK
  BY QueueAssumption DEF Init, TypeOK, Stages, States, ReadyStates, Events
<1>2. QED
  BY <1>1, TypeStep, PTL DEF Spec

-----------------------------------------------------------------------------
(* The inductive invariant.                                                *)

\* A worker holds a message exactly while it is busy with one, and only a
\* launched one gets overdue.
Holding ==
    /\ \A w \in Workers : held[w] = NoJob <=> stage[w] = "idle"
    /\ \A w \in overdue : stage[w] \in Executing

\* Messages are of dispatched jobs, remembered revokes of revoked ones.
OnlyDispatched ==
    /\ queue \subseteq dispatched
    /\ \A w \in Workers : held[w] # NoJob => held[w] \in dispatched
    /\ \A w \in Workers : inbox[w] \union known[w] \subseteq revoked
    /\ revoked \subseteq dispatched

\* A launched job has left PENDING for good.
ResultFollowsRun ==
    \A w \in Workers : stage[w] \in Executing => result[held[w]] # "PENDING"

\* NoJobLost, strengthened to a copy whose run is still to end and which the
\* broker will give out again if it does not.
LiveCopy(j) ==
    \/ j \in queue
    \/ \E w \in Workers \ overdue : held[w] = j /\ stage[w] # "stored"

JobsLive == \A j \in dispatched : Ready(j) \/ LiveCopy(j)

\* ... and so does the audit trail.
AuditFollowsRun ==
    \A w \in Workers :
        /\ stage[w] \in {"running", "returning"} => "job.started" \in audit[held[w]]
        /\ stage[w] = "returning" => "tool.raw_result" \in audit[held[w]]

QueueInv ==
    /\ TypeOK
    /\ Holding
    /\ OneCopy
    /\ OnlyDispatched
    /\ ResultFollowsRun
    /\ AuditFollowsRun
    /\ JobsLive
    /\ SuccessIsAudited

\* Before the first submission there is nothing to lose.
LEMMA QueueInvInit == Init => QueueInv
  BY QueueAssumption DEF Init, QueueInv, TypeOK, Stages, States, ReadyStates, Events, Holding,
     OneCopy, OnlyDispatched, ResultFollowsRun, AuditFollowsRun, JobsLive, SuccessIsAudited,
     Ready, Executing

\* Every step keeps the invariant: one step per action.
LEMMA QueueInvStep == ASSUME QueueInv, [Next]_vars PROVE QueueInv'
<1> USE QueueAssumption DEF QueueInv
<1>1. TypeOK'
  BY TypeStep
<1> USE <1>1 DEF TypeOK, Stages, States, ReadyStates, Ready, Executing, Events,
        brokerVars, memoryVars, Transition, Store, Acknowledge, Record,
        Holding, OneCopy, OnlyDispatched,
        ResultFollowsRun, AuditFollowsRun, JobsLive, LiveCopy, SuccessIsAudited
<1>2. ASSUME NEW j \in Jobs, Submit(j) PROVE QueueInv'
  BY <1>2 DEF Submit
<1>3. ASSUME NEW j \in Jobs, SendRevoke(j) PROVE QueueInv'
  BY <1>3 DEF SendRevoke
<1>4. ASSUME NEW w \in Workers, NEW j \in Jobs, Receive(w, j) PROVE QueueInv'
  BY <1>4 DEF Receive
<1>5. ASSUME NEW w \in Workers, DiscardRevoked(w) PROVE QueueInv'
  BY <1>5 DEF DiscardRevoked
<1>6. ASSUME NEW w \in Workers, Launch(w) PROVE QueueInv'
  BY <1>6 DEF Launch
<1>7. ASSUME NEW w \in Workers, BeginTask(w) PROVE QueueInv'
  BY <1>7 DEF BeginTask
<1>8. ASSUME NEW w \in Workers, ProcessorReturns(w) PROVE QueueInv'
  BY <1>8 DEF ProcessorReturns
<1>9. ASSUME NEW w \in Workers, TaskRaises(w) PROVE QueueInv'
  BY <1>9 DEF TaskRaises
<1>10. ASSUME NEW w \in Workers, HardTimeLimit(w) PROVE QueueInv'
  BY <1>10 DEF HardTimeLimit
<1>11. ASSUME NEW w \in Workers, StoreOutcome(w) PROVE QueueInv'
  BY <1>11 DEF StoreOutcome
<1>12. ASSUME NEW w \in Workers, AckOutcome(w) PROVE QueueInv'
  BY <1>12 DEF AckOutcome
<1>13. ASSUME NEW w \in Workers, NEW j \in Jobs, ReadRevoke(w, j) PROVE QueueInv'
  BY <1>13 DEF ReadRevoke, Terminates
<1>14. ASSUME NEW w \in Workers, ChildLost(w) PROVE QueueInv'
  BY <1>14 DEF ChildLost, Requeue, Fault
<1>15. ASSUME NEW w \in Workers, WorkerRestart(w) PROVE QueueInv'
  BY <1>15 DEF WorkerRestart, Requeue, Fault
<1>16. ASSUME NEW w \in Workers, AuditDown(w) PROVE QueueInv'
  BY <1>16 DEF AuditDown, Fault
<1>17. ASSUME NEW w \in Workers, VisibilityTimeout(w) PROVE QueueInv'
  BY <1>17 DEF VisibilityTimeout, Fault
<1>18. CASE UNCHANGED vars
  BY <1>18 DEF vars
<1>19. QED
  BY <1>2, <1>3, <1>4, <1>5, <1>6, <1>7, <1>8, <1>9, <1>10, <1>11,
     <1>12, <1>13, <1>14, <1>15, <1>16, <1>17, <1>18 DEF Next, MessageStep

\* The invariant holds throughout.
LEMMA QueueInvariant == Spec => []QueueInv
BY QueueInvInit, QueueInvStep, PTL DEF Spec

\* Late acknowledgement and requeueing lose no dispatched job.
THEOREM NoJobIsLost == Spec => []NoJobLost
<1>1. QueueInv => NoJobLost
  BY DEF QueueInv, JobsLive, LiveCopy, NoJobLost
<1>2. QED
  BY <1>1, QueueInvariant, PTL

\* Whatever dies, a job is never in two places, so never run twice at once,
\* save next to a run that the broker took for lost.
THEOREM JobsHaveOneCopy == Spec => []OneCopy
<1>1. QueueInv => OneCopy
  BY DEF QueueInv
<1>2. QED
  BY <1>1, QueueInvariant, PTL

\* What the API reports as succeeded is in the audit trail.
THEOREM SuccessesAreAudited == Spec => []SuccessIsAudited
<1>1. QueueInv => SuccessIsAudited
  BY DEF QueueInv
<1>2. QED
  BY <1>1, QueueInvariant, PTL

-----------------------------------------------------------------------------
(* Revokes.                                                                *)

\* Workers that would run a revoked job.
Forgetting == {w \in Workers : \E j \in revoked : j \notin inbox[w] \union known[w]}

\* Only a restart makes a worker one of them.
LEMMA ForgettingStep ==
    ASSUME TypeOK, [Next]_vars
    PROVE  \/ Forgetting' \subseteq Forgetting /\ faults' >= faults
           \/ \E w \in Workers : Forgetting' \subseteq Forgetting \union {w} /\ faults' = faults + 1
<1> USE DEF TypeOK, Forgetting, brokerVars, memoryVars, Transition, Store, Acknowledge, Record
<1> DEFINE Goal ==
        \/ Forgetting' \subseteq Forgetting /\ faults' >= faults
        \/ \E w \in Workers : Forgetting' \subseteq Forgetting \union {w} /\ faults' = faults + 1
<1>1. ASSUME NEW j \in Jobs, Submit(j) PROVE Goal
  BY <1>1 DEF Submit
<1>2. ASSUME NEW j \in Jobs, SendRevoke(j) PROVE Goal
  BY <1>2 DEF SendRevoke
<1>3. ASSUME NEW w \in Workers, MessageStep(w) PROVE Goal
  BY <1>3 DEF MessageStep, Receive, DiscardRevoked, Launch, BeginTask, ProcessorReturns, TaskRaises,
     HardTimeLimit, StoreOutcome, AckOutcome
<1>4. ASSUME NEW w \in Workers, NEW j \in Jobs, ReadRevoke(w, j) PROVE Goal
  BY <1>4 DEF ReadRevoke
<1>5. ASSUME NEW w \in Workers, AuditDown(w) \/ ChildLost(w) \/ VisibilityTimeout(w) PROVE Goal
  BY <1>5 DEF AuditDown, ChildLost, VisibilityTimeout, Requeue, Fault
<1>6. ASSUME NEW w \in Workers, WorkerRestart(w) PROVE Goal
  <2>1. Forgetting' \subseteq Forgetting \union {w} /\ faults' = faults + 1
    BY <1>6 DEF WorkerRestart, Requeue, Fault
  <2>2. QED
    BY <2>1
<1>7. CASE UNCHANGED vars
  BY <1>7 DEF vars
<1>8. QED
  BY <1>1, <1>2, <1>3, <1>4, <1>5, <1>6, <1>7 DEF Next

\* No more workers run a job that was revoked than were restarted since.
THEOREM ForgettingIsBounded == Spec => []ForgettingBounded
<1>1. Init => ForgettingBounded
  <2>1. SUFFICES ASSUME Init PROVE ForgettingBounded
    OBVIOUS
  <2>2. Forgetting = {}
    BY <2>1 DEF Init, Forgetting
  <2>3. QED
    BY <2>1, <2>2, FS_EmptySet DEF Init, Forgetting, ForgettingBounded
<1>2. ASSUME TypeOK, TypeOK', ForgettingBounded, [Next]_vars PROVE ForgettingBounded'
  <2>1. IsFiniteSet(Workers) /\ faults \in Nat /\ faults' \in Nat
    BY <1>2, QueueAssumption DEF TypeOK
  <2>2. IsFiniteSet(Forgetting) /\ Cardinality(Forgetting) \in Nat /\ Cardinality(Forgetting) <= faults
    <3>1. Forgetting \subseteq Workers
      BY DEF Forgetting
    <3>2. Cardinality(Forgetting) <= faults
      BY <1>2 DEF ForgettingBounded, Forgetting
    <3>3. QED
      BY <2>1, <3>1, <3>2, FS_Subset, FS_CardinalityType
  <2>3. SUFFICES Cardinality(Forgetting') <= faults'
    BY DEF ForgettingBounded, Forgetting
  <2>4. CASE Forgetting' \subseteq Forgetting /\ faults' >= faults
    <3>1. Cardinality(Forgetting') <= Cardinality(Forgetting) /\ Cardinality(Forgetting') \in Nat
      BY <2>2, <2>4, FS_Subset, FS_CardinalityType
    <3>2. QED
      BY <2>1, <2>2, <2>4, <3>1
  <2>5. ASSUME NEW w \in Workers, Forgetting' \subseteq Forgetting \union {w}, faults' = faults + 1
        PROVE  Cardinality(Forgetting') <= faults'
    <3> DEFINE F == Forgetting
    <3>1. IsFiniteSet(F \union {w}) /\ Cardinality(F \union {w}) <= Cardinality(F) + 1
      <4>1. IsFiniteSet(F) /\ Cardinality(F) \in Nat
        BY <2>2
      <4> HIDE DEF F
      <4>2. /\ IsFiniteSet(F \union {w})
            /\ Cardinality(F \union {w}) = IF w \in F THEN Cardinality(F) ELSE Cardinality(F) + 1
        BY <4>1, FS_AddElement
      <4>3. QED
        BY <4>1, <4>2
    <3>2. /\ Cardinality(Forgetting') <= Cardinality(Forgetting \union {w})
          /\ Cardinality(Forgetting') \in Nat /\ Cardinality(Forgetting \union {w}) \in Nat
      BY <2>5, <3>1, FS_Subset, FS_CardinalityType
    <3>3. QED
      BY <2>1, <2>2, <2>5, <3>1, <3>2
  <2>6. QED
    BY <1>2, <2>4, <2>5, ForgettingStep
<1>3. QED
  BY <1>1, <1>2, QueueTypeCorrect, PTL DEF Spec

-----------------------------------------------------------------------------
(* How many runs of one job there can be.                                  *)

Holders(j) == {w \in Workers : held[w] = j}

\* The places a job is in: the workers that have it, and the broker.
Copies(j) == Cardinality(Holders(j)) + (IF j \in queue THEN 1 ELSE 0)

OverdueCounted == Cardinality(overdue) <= faults

\* A run gets overdue by a fault, which is counted.
LEMMA OverdueStep ==
    ASSUME TypeOK, [Next]_vars
    PROVE  \/ overdue' \subseteq overdue /\ faults' >= faults
           \/ \E w \in Workers : overdue' = overdue \union {w} /\ faults' = faults + 1
<1> USE DEF TypeOK, brokerVars, memoryVars, Acknowledge
<1> DEFINE Goal ==
        \/ overdue' \subseteq overdue /\ faults' >= faults
        \/ \E w \in Workers : overdue' = overdue \union {w} /\ faults' = faults + 1
<1>1. ASSUME NEW j \in Jobs, Submit(j) \/ SendRevoke(j) PROVE Goal
  BY <1>1 DEF Submit, SendRevoke
<1>2. ASSUME NEW w \in Workers, MessageStep(w) PROVE Goal
  BY <1>2 DEF MessageStep, Receive, DiscardRevoked, Launch, BeginTask, ProcessorReturns, TaskRaises,
     HardTimeLimit, StoreOutcome, AckOutcome
<1>3. ASSUME NEW w \in Workers, NEW j \in Jobs, ReadRevoke(w, j) PROVE Goal
  BY <1>3 DEF ReadRevoke
<1>4. ASSUME NEW w \in Workers, AuditDown(w) \/ ChildLost(w) \/ WorkerRestart(w) PROVE Goal
  BY <1>4 DEF AuditDown, ChildLost, WorkerRestart, Requeue, Fault
<1>5. ASSUME NEW w \in Workers, VisibilityTimeout(w) PROVE Goal
  BY <1>5 DEF VisibilityTimeout, Fault
<1>6. CASE UNCHANGED vars
  BY <1>6 DEF vars
<1>7. QED
  BY <1>1, <1>2, <1>3, <1>4, <1>5, <1>6 DEF Next

LEMMA OverdueCountedStep ==
    ASSUME TypeOK, OverdueCounted, [Next]_vars PROVE OverdueCounted'
<1>1. IsFiniteSet(overdue) /\ Cardinality(overdue) \in Nat /\ faults \in Nat
  BY QueueAssumption, FS_Subset, FS_CardinalityType DEF TypeOK
<1>2. CASE overdue' \subseteq overdue /\ faults' >= faults
  <2>1. faults' \in Nat /\ Cardinality(overdue') \in Nat
    BY <1>1, <1>2, TypeStep, FS_Subset, FS_CardinalityType DEF TypeOK
  <2>2. Cardinality(overdue') <= Cardinality(overdue)
    BY <1>1, <1>2, FS_Subset
  <2>3. QED
    BY <1>1, <1>2, <2>1, <2>2 DEF OverdueCounted
<1>3. ASSUME NEW w \in Workers, overdue' = overdue \union {w}, faults' = faults + 1
      PROVE  OverdueCounted'
  BY <1>1, <1>3, FS_AddElement DEF OverdueCounted
<1>4. QED
  BY <1>2, <1>3, OverdueStep

\* Of the places a job is in, one at most is not an overdue run.
LEMMA CopiesOfJob ==
    ASSUME TypeOK, OneCopy, NEW j \in Jobs
    PROVE  Copies(j) <= 1 + Cardinality(overdue)
<1> DEFINE Punctual == Holders(j) \ overdue
<1>1. IsFiniteSet(Workers) /\ Holders(j) \subseteq Workers /\ overdue \subseteq Workers
  BY QueueAssumption DEF TypeOK, Holders
<1>2. /\ IsFiniteSet(overdue) /\ Cardinality(overdue) \in Nat
      /\ IsFiniteSet(Holders(j)) /\ Cardinality(Holders(j)) \in Nat
  BY <1>1, FS_Subset, FS_CardinalityType
<1>3. CASE Punctual = {}
  <2>1. Holders(j) \subseteq overdue
    BY <1>3
  <2>2. Cardinality(Holders(j)) <= Cardinality(overdue)
    BY <1>2, <2>1, FS_Subset
  <2>3. QED
    BY <1>2, <2>2 DEF Copies
<1>4. ASSUME NEW w \in Punctual PROVE Copies(j) <= 1 + Cardinality(overdue)
  <2>1. w \in Workers \ overdue /\ held[w] = j /\ j # NoJob
    BY <1>4, QueueAssumption DEF Holders
  <2>2. j \notin queue
    BY <2>1 DEF OneCopy
  <2>3. Holders(j) \subseteq overdue \union {w}
    BY <2>1 DEF OneCopy, Holders
  <2>4. IsFiniteSet(overdue \union {w}) /\ Cardinality(overdue \union {w}) = Cardinality(overdue) + 1
    BY <1>2, <2>1, FS_AddElement
  <2>5. Cardinality(Holders(j)) <= Cardinality(overdue) + 1
    BY <2>3, <2>4, FS_Subset
  <2>6. QED
    BY <1>2, <2>2, <2>5 DEF Copies
<1>5. QED
  BY <1>3, <1>4

CopiesBounded == \A j \in Jobs : Copies(j) <= 1 + faults

\* A job is in no more places than one and the faults: with redelivery at least
\* once, each further run costs a fault that made it.
THEOREM CopiesAreBounded == Spec => []CopiesBounded
<1>1. Init => OverdueCounted
  BY FS_EmptySet DEF Init, OverdueCounted
<1>2. Spec => []OverdueCounted
  BY <1>1, OverdueCountedStep, QueueTypeCorrect, PTL DEF Spec
<1>3. TypeOK /\ OneCopy /\ OverdueCounted => CopiesBounded
  <2>1. SUFFICES ASSUME TypeOK, OneCopy, OverdueCounted, NEW j \in Jobs
                 PROVE  Copies(j) <= 1 + faults
    BY DEF CopiesBounded
  <2>2. /\ Cardinality(overdue) \in Nat /\ faults \in Nat
        /\ Cardinality(Holders(j)) \in Nat
    BY <2>1, QueueAssumption, FS_Subset, FS_CardinalityType DEF TypeOK, Holders
  <2>3. QED
    BY <2>1, <2>2, CopiesOfJob DEF OverdueCounted, Copies
<1>4. QED
  BY <1>2, <1>3, QueueTypeCorrect, JobsHaveOneCopy, PTL

-----------------------------------------------------------------------------
(* The safety half of JobsSettle: workers cannot be busy for ever.         *)

\* How many steps a worker has before it with its message.
StepsOf == [idle |-> 0, stored |-> 1, raising |-> 2, returning |-> 3, running |-> 4,
            launched |-> 5, received |-> 6]

Owed == {p \in Workers \X (1 .. 6) : p[2] <= StepsOf[stage[p[1]]]}

\* A message that waits costs its receipt and the steps that follow.
WorkLeft == 7 * Cardinality(queue) + Cardinality(Owed)

FiniteQueue == IsFiniteSet(queue)

\* One step puts at most one message into the broker.
LEMMA QueueGrowth ==
    ASSUME [Next]_vars
    PROVE  \E x : queue' \subseteq queue \union {x}
<1> USE DEF brokerVars, memoryVars
<1>1. ASSUME NEW j \in Jobs, Submit(j) PROVE queue' = queue \union {j}
  BY <1>1 DEF Submit
<1>2. ASSUME NEW w \in Workers, ChildLost(w) \/ WorkerRestart(w) \/ VisibilityTimeout(w)
      PROVE  queue' \subseteq queue \union {held[w]}
  BY <1>2 DEF ChildLost, WorkerRestart, VisibilityTimeout, Requeue
<1>3. ASSUME NEW w \in Workers, MessageStep(w) \/ AuditDown(w) PROVE queue' \subseteq queue
  BY <1>3 DEF MessageStep, Receive, DiscardRevoked, Launch, BeginTask, ProcessorReturns,
     TaskRaises, HardTimeLimit, StoreOutcome, AckOutcome, AuditDown
<1>4. ASSUME NEW j \in Jobs, SendRevoke(j) \/ \E w \in Workers : ReadRevoke(w, j)
      PROVE  queue' = queue
  BY <1>4 DEF SendRevoke, ReadRevoke
<1>5. UNCHANGED vars => queue' = queue
  BY DEF vars
<1>6. \/ queue' \subseteq queue
      \/ \E j \in Jobs : queue' = queue \union {j}
      \/ \E w \in Workers : queue' \subseteq queue \union {held[w]}
  BY <1>1, <1>2, <1>3, <1>4, <1>5 DEF Next
<1>7. QED
  BY <1>6

LEMMA FiniteQueueStep == ASSUME FiniteQueue, [Next]_vars PROVE FiniteQueue'
<1>1. PICK x : queue' \subseteq queue \union {x}
  BY QueueGrowth
<1>2. IsFiniteSet(queue \union {x})
  BY FS_AddElement DEF FiniteQueue
<1>3. QED
  BY <1>1, <1>2, FS_Subset DEF FiniteQueue

LEMMA SixSteps == IsFiniteSet(1 .. 6) /\ Cardinality(1 .. 6) = 6
<1> DEFINE a == 1  b == 6
<1>1. a \in Int /\ b \in Int /\ ~ (a > b) /\ b - a + 1 = 6
  OBVIOUS
<1> HIDE DEF a, b
<1>2. IsFiniteSet(a .. b) /\ Cardinality(a .. b) = 6
  BY <1>1, FS_Interval
<1>3. QED
  BY <1>2 DEF a, b

\* The measure is a number.
LEMMA WorkIsFinite ==
    ASSUME TypeOK, FiniteQueue
    PROVE  /\ IsFiniteSet(Owed) /\ Cardinality(Owed) \in Nat
           /\ Cardinality(queue) \in Nat /\ WorkLeft \in Nat
<1>1. IsFiniteSet(Workers \X (1 .. 6))
  BY SixSteps, QueueAssumption, FS_Product
<1>2. IsFiniteSet(Owed)
  BY <1>1, FS_Subset DEF Owed
<1>3. Cardinality(Owed) \in Nat /\ Cardinality(queue) \in Nat
  BY <1>2, FS_CardinalityType DEF FiniteQueue
<1>4. QED
  BY <1>2, <1>3 DEF WorkLeft

GetsOn(w) ==
    /\ queue' = queue
    /\ \E s \in Stages :
          /\ StepsOf[s] < StepsOf[stage[w]]
          /\ stage' = [stage EXCEPT ![w] = s]

LessWork == WorkLeft' \in Nat /\ WorkLeft' < WorkLeft

\* A worker that gets on with its message has less before it.
LEMMA StageStep ==
    ASSUME TypeOK, FiniteQueue, NEW w \in Workers, GetsOn(w)
    PROVE  LessWork
<1>0. PICK s \in Stages : /\ StepsOf[s] < StepsOf[stage[w]]
                          /\ stage' = [stage EXCEPT ![w] = s]
  BY DEF GetsOn
<1> DEFINE p == <<w, StepsOf[stage[w]]>>
<1>1. StepsOf[s] \in 0 .. 6 /\ StepsOf[stage[w]] \in 1 .. 6
  BY <1>0 DEF TypeOK, Stages, StepsOf
<1>2. p \in Owed
  BY <1>1 DEF Owed
<1>3. Owed' \subseteq Owed \ {p}
  <2>1. SUFFICES ASSUME NEW v \in Workers, NEW k \in 1 .. 6, k <= StepsOf[stage'[v]]
                 PROVE  k <= StepsOf[stage[v]] /\ <<v, k>> # p
    BY DEF Owed
  <2>2. CASE v = w
    BY <1>0, <1>1, <2>1, <2>2 DEF TypeOK
  <2>3. CASE v # w
    BY <1>0, <2>1, <2>3 DEF TypeOK
  <2>4. QED
    BY <2>2, <2>3
<1>4. /\ IsFiniteSet(Owed \ {p})
      /\ Cardinality(Owed \ {p}) = Cardinality(Owed) - 1
  BY <1>2, WorkIsFinite, FS_RemoveElement
<1>5. Cardinality(Owed') <= Cardinality(Owed) - 1 /\ Cardinality(Owed') \in Nat
  BY <1>3, <1>4, FS_Subset, FS_CardinalityType
<1>6. QED
  BY <1>5, WorkIsFinite DEF WorkLeft, GetsOn, LessWork

\* A message received costs one less than it did in the broker.
LEMMA ReceiptStep ==
    ASSUME TypeOK, FiniteQueue, NEW w \in Workers, NEW j \in Jobs, Receive(w, j)
    PROVE  LessWork
<1> DEFINE New == {w} \X (1 .. 6)
<1>1. j \in queue /\ queue' = queue \ {j} /\ stage' = [stage EXCEPT ![w] = "received"]
  BY DEF Receive, Transition
<1>2. Cardinality(queue') = Cardinality(queue) - 1 /\ Cardinality(queue) \in Nat
  BY <1>1, FS_RemoveElement, FS_CardinalityType DEF FiniteQueue
<1>3. IsFiniteSet(New) /\ Cardinality(New) = 6
  <2>1. IsFiniteSet({w}) /\ Cardinality({w}) = 1
    BY FS_Singleton
  <2>2. IsFiniteSet(New) /\ Cardinality(New) = Cardinality({w}) * Cardinality(1 .. 6)
    BY <2>1, SixSteps, FS_Product
  <2>3. QED
    BY <2>1, <2>2, SixSteps
<1>4. Owed' \subseteq Owed \union New
  BY <1>1 DEF Owed, TypeOK
<1>5. /\ IsFiniteSet(Owed \union New)
      /\ Cardinality(Owed \union New) = Cardinality(Owed) + 6 - Cardinality(Owed \intersect New)
  BY <1>3, WorkIsFinite, FS_Union
<1>6. Cardinality(Owed \intersect New) \in Nat
  BY <1>3, FS_Subset, FS_CardinalityType
<1>7. Cardinality(Owed') <= Cardinality(Owed \union New) /\ Cardinality(Owed') \in Nat
  BY <1>4, <1>5, FS_Subset, FS_CardinalityType
<1>8. Cardinality(Owed') <= Cardinality(Owed) + 6
  BY <1>5, <1>6, <1>7, WorkIsFinite
<1>9. Cardinality(queue') \in Nat
  BY <1>1, FS_RemoveElement, FS_CardinalityType DEF FiniteQueue
<1>10. QED
  BY <1>2, <1>7, <1>8, <1>9, WorkIsFinite DEF WorkLeft, LessWork

\* Every step of a worker with its message leaves less work, and nothing but
\* submissions and faults makes more.
LEMMA WorkStep ==
    ASSUME QueueInv, FiniteQueue, [Next]_vars
    PROVE  /\ \A w \in Workers : MessageStep(w) => WorkLeft' < WorkLeft
           /\ (\A j \in Jobs : ~ Submit(j)) /\ faults' = faults => WorkLeft' <= WorkLeft
<1> USE DEF QueueInv
<1>1. ASSUME NEW w \in Workers, MessageStep(w) PROVE LessWork
  <2>1. ASSUME NEW j \in Jobs, Receive(w, j) PROVE LessWork
    BY <2>1, ReceiptStep
  <2>2. CASE \A j \in Jobs : ~ Receive(w, j)
    <3>1. GetsOn(w)
      BY <1>1, <2>2
         DEF MessageStep, DiscardRevoked, Launch, BeginTask, ProcessorReturns, TaskRaises,
             HardTimeLimit, StoreOutcome, AckOutcome, GetsOn, TypeOK, Stages, Executing, StepsOf,
             brokerVars, Transition, Acknowledge
    <3>2. QED
      BY <3>1, StageStep
  <2>3. QED
    BY <2>1, <2>2
<1>2. ASSUME \A j \in Jobs : ~ Submit(j), faults' = faults PROVE WorkLeft' <= WorkLeft
  <2>1. CASE queue' = queue /\ stage' = stage
    <3>1. Owed' = Owed
      BY <2>1 DEF Owed
    <3>2. QED
      BY <2>1, <3>1, WorkIsFinite DEF WorkLeft
  <2>2. ASSUME NEW w \in Workers, MessageStep(w) PROVE WorkLeft' <= WorkLeft
    BY <1>1, <2>2, WorkIsFinite DEF LessWork
  <2>3. ASSUME NEW w \in Workers, NEW j \in Jobs, ReadRevoke(w, j) PROVE WorkLeft' <= WorkLeft
    <3>1. CASE Terminates(w, j)
      <4>1. GetsOn(w)
        BY <2>3, <3>1
           DEF ReadRevoke, Terminates, GetsOn, TypeOK, Stages, Executing, StepsOf, brokerVars,
               Acknowledge
      <4>2. QED
        BY <4>1, StageStep, WorkIsFinite DEF LessWork
    <3>2. CASE ~ Terminates(w, j)
      BY <2>1, <2>3, <3>2 DEF ReadRevoke, brokerVars
    <3>3. QED
      BY <3>1, <3>2
  <2>4. ASSUME NEW j \in Jobs, SendRevoke(j) PROVE WorkLeft' <= WorkLeft
    BY <2>1, <2>4 DEF SendRevoke
  <2>5. ASSUME NEW w \in Workers,
               AuditDown(w) \/ ChildLost(w) \/ WorkerRestart(w) \/ VisibilityTimeout(w)
        PROVE  FALSE
    BY <1>2, <2>5 DEF AuditDown, ChildLost, WorkerRestart, VisibilityTimeout, Fault, TypeOK
  <2>6. CASE UNCHANGED vars
    BY <2>1, <2>6 DEF vars
  <2>7. QED
    BY <1>2, <2>2, <2>3, <2>4, <2>5, <2>6 DEF Next
<1>3. QED
  BY <1>1, <1>2 DEF LessWork

\* Between two submissions or faults the workers take finitely many steps: no
\* message goes round for ever, however revokes and outcomes interleave.
THEOREM WorkRunsOut ==
    Spec => [][/\ WorkLeft \in Nat
               /\ \A w \in Workers : MessageStep(w) => WorkLeft' < WorkLeft
               /\ (\A j \in Jobs : ~ Submit(j)) /\ faults' = faults
                      => WorkLeft' <= WorkLeft]_vars
<1>1. Init => FiniteQueue
  BY FS_EmptySet DEF Init, FiniteQueue
<1>2. Spec => []FiniteQueue
  BY <1>1, FiniteQueueStep, PTL DEF Spec
<1>3. QueueInv /\ FiniteQueue => WorkLeft \in Nat
  BY WorkIsFinite DEF QueueInv
<1>4. QED
  BY <1>2, <1>3, WorkStep, QueueInvariant, PTL DEF Spec

-----------------------------------------------------------------------------
(* The queue implements JobLifecycle.                                      *)

\* An outcome stored for a job that has been launched is a lifecycle step.
LEMMA OutcomeStep ==
    ASSUME TypeOK, NEW j \in Jobs, result[j] # "PENDING",
           Lifecycle!Store(j, "SUCCESS") \/ Lifecycle!Store(j, "FAILURE")
    PROVE  [Lifecycle!LifecycleNext]_(Lifecycle!lifecycleVars)
<1> USE DEF Lifecycle!LifecycleNext, Lifecycle!Execute, Lifecycle!Redelivered
<1>1. CASE result[j] = "STARTED"
  BY <1>1 DEF Lifecycle!Succeed, Lifecycle!Fail
<1>2. CASE result[j] \in {"FAILURE", "REVOKED"}
  BY <1>2 DEF Lifecycle!LateOutcome
<1>3. CASE result[j] = "SUCCESS"
  BY <1>3 DEF TypeOK, Lifecycle!Store, Lifecycle!lifecycleVars
<1>4. QED
  BY <1>1, <1>2, <1>3 DEF TypeOK, States, ReadyStates

\* Every step of the queue is a step of the lifecycle or leaves it unchanged.
LEMMA LifecycleStep == ASSUME QueueInv, [Next]_vars
                       PROVE  [Lifecycle!LifecycleNext]_(Lifecycle!lifecycleVars)
<1> USE QueueAssumption DEF QueueInv, TypeOK, Stages, States, ReadyStates, Ready, Executing,
        brokerVars, memoryVars, Transition, Store, Acknowledge, Record, Holding, OneCopy,
        OnlyDispatched, ResultFollowsRun, Lifecycle!LifecycleNext, Lifecycle!lifecycleVars,
        Lifecycle!Store, Lifecycle!Ready, Lifecycle!ReadyStates,
        Lifecycle!Execute, Lifecycle!Redelivered
<1> DEFINE Goal == [Lifecycle!LifecycleNext]_(Lifecycle!lifecycleVars)
<1>1. ASSUME NEW j \in Jobs, Submit(j) PROVE Goal
  BY <1>1 DEF Submit, Lifecycle!Dispatch
<1>2. ASSUME NEW j \in Jobs, SendRevoke(j) PROVE Goal
  BY <1>2 DEF SendRevoke, Lifecycle!Revoke
<1>3. ASSUME NEW w \in Workers, NEW j \in Jobs, Receive(w, j) PROVE Goal
  BY <1>3 DEF Receive
<1>4. ASSUME NEW w \in Workers, DiscardRevoked(w) PROVE Goal
  <2>1. held[w] \in Jobs /\ held[w] \in dispatched \intersect revoked
    BY <1>4 DEF DiscardRevoked
  <2>2. Lifecycle!Store(held[w], "REVOKED")
    BY <1>4 DEF DiscardRevoked
  <2>3. CASE result[held[w]] \in {"PENDING", "STARTED"}
    BY <2>1, <2>2, <2>3 DEF Lifecycle!Withdraw
  <2>4. CASE result[held[w]] = "FAILURE"
    BY <2>1, <2>2, <2>4 DEF Lifecycle!WithdrawAgain
  <2>5. CASE result[held[w]] \in {"SUCCESS", "REVOKED"}
    BY <2>1, <2>2, <2>5
  <2>6. QED
    BY <2>1, <2>3, <2>4, <2>5
<1>5. ASSUME NEW w \in Workers, Launch(w) PROVE Goal
  <2>1. held[w] \in Jobs /\ held[w] \in dispatched
    BY <1>5 DEF Launch
  <2>2. Lifecycle!Store(held[w], "STARTED")
    BY <1>5 DEF Launch
  <2>3. CASE result[held[w]] = "PENDING"
    BY <2>1, <2>2, <2>3 DEF Lifecycle!Start
  <2>4. CASE result[held[w]] \in {"FAILURE", "REVOKED"}
    BY <2>1, <2>2, <2>4 DEF Lifecycle!Rerun
  <2>5. CASE result[held[w]] \in {"SUCCESS", "STARTED"}
    BY <2>1, <2>2, <2>5
  <2>6. QED
    BY <2>1, <2>3, <2>4, <2>5
<1>6. ASSUME NEW w \in Workers, BeginTask(w) PROVE Goal
  BY <1>6 DEF BeginTask
<1>7. ASSUME NEW w \in Workers, ProcessorReturns(w) PROVE Goal
  BY <1>7 DEF ProcessorReturns
<1>8. ASSUME NEW w \in Workers, TaskRaises(w) PROVE Goal
  BY <1>8 DEF TaskRaises
<1>9. ASSUME NEW w \in Workers, HardTimeLimit(w) PROVE Goal
  <2>1. held[w] \in Jobs /\ Lifecycle!Store(held[w], "FAILURE")
    BY <1>9 DEF HardTimeLimit
  <2>2. QED
    BY <1>9, <2>1, OutcomeStep DEF HardTimeLimit
<1>10. ASSUME NEW w \in Workers, StoreOutcome(w) PROVE Goal
  <2>1. held[w] \in Jobs
    BY <1>10 DEF StoreOutcome
  <2>2. Lifecycle!Store(held[w], "SUCCESS") \/ Lifecycle!Store(held[w], "FAILURE")
    BY <1>10 DEF StoreOutcome
  <2>3. QED
    BY <1>10, <2>1, <2>2, OutcomeStep DEF StoreOutcome
<1>11. ASSUME NEW w \in Workers, AckOutcome(w) PROVE Goal
  BY <1>11 DEF AckOutcome
<1>12. ASSUME NEW w \in Workers, NEW j \in Jobs, ReadRevoke(w, j) PROVE Goal
  <2>1. CASE Terminates(w, j)
    <3>1. j \in dispatched \intersect revoked /\ result[j] # "PENDING"
      BY <1>12, <2>1 DEF ReadRevoke, Terminates
    <3>2. Lifecycle!Store(j, "REVOKED")
      BY <1>12, <2>1 DEF ReadRevoke
    <3>3. CASE result[j] = "STARTED"
      BY <3>1, <3>2, <3>3 DEF Lifecycle!Withdraw
    <3>4. CASE result[j] = "FAILURE"
      BY <3>1, <3>2, <3>4 DEF Lifecycle!WithdrawAgain
    <3>5. CASE result[j] \in {"SUCCESS", "REVOKED"}
      BY <3>1, <3>2, <3>5
    <3>6. QED
      BY <3>1, <3>3, <3>4, <3>5
  <2>2. CASE ~ Terminates(w, j)
    BY <1>12, <2>2 DEF ReadRevoke
  <2>3. QED
    BY <2>1, <2>2
<1>13. ASSUME NEW w \in Workers,
              ChildLost(w) \/ WorkerRestart(w) \/ AuditDown(w) \/ VisibilityTimeout(w)
       PROVE  Goal
  BY <1>13 DEF ChildLost, WorkerRestart, AuditDown, VisibilityTimeout, Requeue
<1>14. CASE UNCHANGED vars
  BY <1>14 DEF vars
<1>15. QED
  BY <1>1, <1>2, <1>3, <1>4, <1>5, <1>6, <1>7, <1>8, <1>9, <1>10, <1>11, <1>12, <1>13, <1>14
     DEF Next, MessageStep

\* Every behaviour of workers, broker and faults is one of the lifecycle that
\* the API relies on.
THEOREM QueueImplementsLifecycle == Spec => ImplementsLifecycle
<1>1. Init => Lifecycle!LifecycleInit
  BY DEF Init, Lifecycle!LifecycleInit
<1>2. QED
  BY <1>1, QueueInvariant, LifecycleStep, PTL
     DEF Spec, ImplementsLifecycle, Lifecycle!LifecycleSpec
=============================================================================
