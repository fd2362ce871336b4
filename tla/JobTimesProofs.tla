---------------------------- MODULE JobTimesProofs ----------------------------
(***************************************************************************)
(* Theorems about JobTimes for any kinds, processes and limits.            *)
(***************************************************************************)
EXTENDS JobTimes, FiniteSetTheorems, TLAPS

\* The subprocess is in an isis3 job, nobody is older than its deadline, and a
\* process without a run has nothing left of one.
Deadlines ==
    \A s \in Slots :
        /\ ~ run[s].on => ~ run[s].isis /\ run[s].age = 0
        /\ run[s].isis => kind = "isis3" /\ run[s].age <= IsisTimeout
        /\ run[s].age <= Limit

\* Runs began at least a visibility timeout after each other: the one that owes
\* the acknowledgement is the youngest, and a message in the queue is given out
\* when the youngest has reached the timeout.
Spaced ==
    /\ \A s, t \in Active :
          s # t => run[s].age + Visibility <= run[t].age \/ run[t].age + Visibility <= run[s].age
    /\ message = "queue" => \A s \in Active : Visibility <= run[s].age
    /\ \A h \in Slots : message = h =>
          /\ run[h].on
          /\ \A s \in Active \ {h} : run[h].age + Visibility <= run[s].age

\* A result has a state as long as it lives; before the first delivery there is
\* nothing, after it the result outlives a record that was not written again.
Lifetimes ==
    /\ result.state = "PENDING" <=> result.ttl = 0
    /\ deliveries = 0 => result = NoResult /\ output = Absent /\ Active = {}
    /\ deliveries > 0 /\ ~ renewed => metadata <= result.ttl

\* A job delivered once has one run at most; its output is not older than the
\* run, or than the time the success has been there and the run before it.
FirstRun ==
    deliveries = 1 =>
        /\ \A s, t \in Active : s = t
        /\ result.state = "SUCCESS" => Active = {}
        /\ output # Absent => \A s \in Active : output <= run[s].age
        /\ result.state = "SUCCESS" /\ output # Absent => output + result.ttl <= Limit + Retention

\* What a preview listed and nobody has written to since is old, or not there.
Listed == "unchanged" \in listings => output = Absent \/ output > MinAge

TimesInv ==
    TypeOK /\ Deadlines /\ Spaced /\ Lifetimes /\ FirstRun /\ Listed /\ ArtifactsOutliveSuccess

-----------------------------------------------------------------------------

\* Limits are positive, and no longer than that of isis3.
LEMMA LimitType ==
    ASSUME kind \in Kinds
    PROVE  /\ Limit \in Nat \ {0} /\ Limit <= IsisLimit
           /\ IsisTimeout \in Nat \ {0}
           /\ kind = "isis3" => IsisTimeout <= Limit
  BY TimesAssumption DEF Limit, IsisTimeout

LEMMA TimesInvInit == Init => TimesInv
<1> SUFFICES ASSUME Init PROVE TimesInv
  OBVIOUS
<1>1. TypeOK
  <2>1. run \in [Slots -> [on : BOOLEAN, age : 0 .. IsisLimit, isis : BOOLEAN]]
    BY TimesAssumption DEF Init, Off
  <2>2. result \in [state : {"PENDING", "STARTED", "SUCCESS", "FAILURE"}, ttl : 0 .. Retention]
    BY TimesAssumption DEF Init, NoResult
  <2>3. output \in Absent .. MinAge + 1 /\ metadata \in 0 .. Retention /\ deliveries \in 0 .. 2
    BY TimesAssumption DEF Init, Absent
  <2>4. QED
    BY <2>1, <2>2, <2>3 DEF Init, TypeOK
<1>2. Active = {}
  BY DEF Init, Active, Off
<1>3. Deadlines
  BY LimitType DEF Init, Deadlines, Off
<1>4. Spaced
  BY <1>2, TimesAssumption DEF Init, Spaced
<1>5. QED
  BY <1>1, <1>2, <1>3, <1>4
     DEF Init, TimesInv, Lifetimes, FirstRun, Listed, ArtifactsOutliveSuccess, NoResult

-----------------------------------------------------------------------------
(* Types and deadlines.                                                    *)

\* The end of the subprocess changes nothing else of a run.
LEMMA EndIsisEffect ==
    ASSUME TypeOK, NEW s \in Slots, EndIsis(s)
    PROVE  /\ run' \in [Slots -> [on : BOOLEAN, age : 0 .. IsisLimit, isis : BOOLEAN]]
           /\ \A t \in Slots : /\ (run'[t].on <=> run[t].on) /\ run'[t].age = run[t].age
                               /\ run'[t].isis => run[t].isis
           /\ \A t \in Slots \ {s} : run'[t] = run[t]
<1>1. run' = [run EXCEPT ![s] = [run[s] EXCEPT !.isis = FALSE]]
  BY DEF EndIsis, TypeOK
<1>2. run[s] \in [on : BOOLEAN, age : 0 .. IsisLimit, isis : BOOLEAN]
  BY DEF TypeOK
<1>3. /\ [run[s] EXCEPT !.isis = FALSE] \in [on : BOOLEAN, age : 0 .. IsisLimit, isis : BOOLEAN]
      /\ [run[s] EXCEPT !.isis = FALSE].on = run[s].on
      /\ [run[s] EXCEPT !.isis = FALSE].age = run[s].age
      /\ ~ [run[s] EXCEPT !.isis = FALSE].isis
  BY <1>2
<1>4. QED
  BY <1>1, <1>3 DEF TypeOK

LEMMA TypeStep == ASSUME TypeOK, Deadlines, [Next]_vars PROVE TypeOK'
<1> USE TimesAssumption DEF TypeOK, Absent, Off, NoResult, Older
<1>1. CASE Tick
  <2>1. run' \in [Slots -> [on : BOOLEAN, age : 0 .. IsisLimit, isis : BOOLEAN]]
    <3>1. ASSUME NEW s \in Slots, run[s].on PROVE run[s].age < IsisLimit
      BY <1>1, <3>1, LimitType DEF Tick, Active, IsisTimeout
    <3>2. QED
      BY <1>1, <3>1 DEF Tick
  <2>2. cancelled' \in BOOLEAN /\ listings' \in SUBSET {"unchanged", "written"}
    BY <1>1 DEF Tick, cleanupVars
  <2>3. /\ metadata' \in 0 .. Retention /\ output' \in Absent .. MinAge + 1
        /\ result' \in [state : {"PENDING", "STARTED", "SUCCESS", "FAILURE"}, ttl : 0 .. Retention]
    BY <1>1 DEF Tick, Shorter
  <2>4. QED
    BY <1>1, <2>1, <2>2, <2>3 DEF Tick, cleanupVars
<1>2. ASSUME NEW s \in Slots, Deliver(s) PROVE TypeOK'
  BY <1>2 DEF Deliver, Store, ResultExpires, cleanupVars
<1>3. ASSUME NEW s \in Slots, EndRun(s) PROVE TypeOK'
  <2>1. orphaned' \in BOOLEAN
    BY <1>3 DEF EndRun
  <2>2. /\ run' \in [Slots -> [on : BOOLEAN, age : 0 .. IsisLimit, isis : BOOLEAN]]
        /\ result' \in [state : {"PENDING", "STARTED", "SUCCESS", "FAILURE"}, ttl : 0 .. Retention]
        /\ message' \in Slots \union {"queue", "acknowledged"}
    BY <1>3 DEF EndRun, Store, ResultExpires
  <2>3. QED
    BY <1>3, <2>1, <2>2 DEF EndRun, cleanupVars
<1>4. ASSUME NEW s \in Slots, EndIsis(s) PROVE TypeOK'
  BY <1>4, EndIsisEffect DEF EndIsis, cleanupVars
<1>5. ASSUME NEW s \in Slots, Write(s) \/ Restore(s) PROVE TypeOK'
  <2>1. output' \in Absent .. MinAge + 1 /\ message' \in Slots \union {"queue", "acknowledged"}
    BY <1>5 DEF Write, Restore, MakeEntry
  <2>2. listings' \in SUBSET {"unchanged", "written"} /\ swept' \in BOOLEAN
    BY <1>5 DEF Write, Restore, MakeEntry, cleanupVars
  <2>3. QED
    BY <1>5, <2>1, <2>2 DEF Write, Restore
<1>6. CASE Cancel \/ Publish
  <2>1. cancelled' \in BOOLEAN /\ renewed' \in BOOLEAN
    BY <1>6 DEF Cancel, Publish
  <2>2. metadata' \in 0 .. Retention
    BY <1>6 DEF Cancel, Publish
  <2>3. QED
    BY <1>6, <2>1, <2>2 DEF Cancel, Publish, cleanupVars
<1>7. CASE OrphanWrites \/ OrphanEnds \/ PreviewLists
  <2>1. listings' \in SUBSET {"unchanged", "written"} /\ swept' \in BOOLEAN
    BY <1>7 DEF OrphanWrites, OrphanEnds, PreviewLists, MakeEntry, cleanupVars
  <2>2. output' \in {0, output} /\ orphaned' \in {FALSE, orphaned}
    BY <1>7 DEF OrphanWrites, OrphanEnds, PreviewLists, MakeEntry
  <2>3. output' \in Absent .. MinAge + 1
    BY <2>2
  <2>4. orphaned' \in BOOLEAN
    BY <2>2, Zenon
  <2>5. QED
    BY <1>7, <2>1, <2>3, <2>4 DEF OrphanWrites, OrphanEnds, PreviewLists, cleanupVars
<1>8. ASSUME NEW l \in {"unchanged", "written"}, PreviewLapses(l) \/ CleanupRemoves(l)
      PROVE  TypeOK'
  <2>1. listings' \in SUBSET {"unchanged", "written"}
    BY <1>8 DEF PreviewLapses, CleanupRemoves
  <2>2. output' \in Absent .. MinAge + 1
    BY <1>8 DEF PreviewLapses, CleanupRemoves
  <2>3. swept' \in BOOLEAN
    BY <1>8, Zenon DEF PreviewLapses, CleanupRemoves
  <2>4. QED
    BY <1>8, <2>1, <2>2, <2>3 DEF PreviewLapses, CleanupRemoves
<1>9. CASE UNCHANGED vars
  BY <1>9 DEF vars, cleanupVars
<1>10. QED
  BY <1>1, <1>2, <1>3, <1>4, <1>5, <1>6, <1>7, <1>8, <1>9 DEF Next

\* Orphans, the cleanup and the service touch neither runs nor message.
LEMMA OthersKeepRuns ==
    ASSUME \/ OrphanWrites \/ OrphanEnds \/ Cancel \/ Publish \/ PreviewLists
           \/ \E l \in {"unchanged", "written"} : PreviewLapses(l) \/ CleanupRemoves(l)
           \/ \E s \in Slots : Write(s)
           \/ UNCHANGED vars
    PROVE  run' = run /\ message' = message /\ kind' = kind
  BY DEF OrphanWrites, OrphanEnds, Cancel, Publish, PreviewLists, PreviewLapses, CleanupRemoves,
         Write, vars

\* The kind of the job is fixed.
LEMMA KindIsFixed == [Next]_vars => kind' = kind
  BY OthersKeepRuns DEF Next, Tick, Deliver, EndRun, EndIsis, Restore

LEMMA DeadlinesStep == ASSUME TypeOK, Deadlines, [Next]_vars PROVE Deadlines'
<1>1. kind \in Kinds /\ kind' = kind
  BY KindIsFixed DEF TypeOK
<1>2. /\ Limit \in Nat \ {0} /\ IsisTimeout \in Nat \ {0}
      /\ kind = "isis3" => IsisTimeout <= Limit
      /\ Limit' = Limit /\ IsisTimeout' = IsisTimeout
  BY <1>1, LimitType DEF Limit, IsisTimeout
<1>3. ASSUME NEW s \in Slots, EndIsis(s) PROVE Deadlines'
  <2>1. \A t \in Slots : /\ (run'[t].on <=> run[t].on) /\ run'[t].age = run[t].age
                         /\ run'[t].isis => run[t].isis
    BY <1>3, EndIsisEffect DEF EndIsis
  <2>2. QED
    BY <1>1, <1>2, <2>1 DEF Deadlines
<1> USE <1>1, <1>2 DEF TypeOK, Deadlines, Off
<1>4. CASE Tick
  BY <1>4 DEF Tick, Active
<1>5. ASSUME NEW s \in Slots, Deliver(s) PROVE Deadlines'
  BY <1>5 DEF Deliver
<1>6. ASSUME NEW s \in Slots, EndRun(s) PROVE Deadlines'
  BY <1>6 DEF EndRun
<1>7. ASSUME UNCHANGED run PROVE Deadlines'
  BY <1>7
<1>8. QED
  BY <1>3, <1>4, <1>5, <1>6, <1>7, OthersKeepRuns DEF Next, Restore

-----------------------------------------------------------------------------
(* Redelivered runs.                                                       *)

LEMMA SpacedStep == ASSUME TypeOK, Deadlines, Spaced, [Next]_vars PROVE Spaced'
<1> USE TimesAssumption DEF TypeOK, Spaced, Active, Off
<1>1. CASE Tick
  <2>1. \A s \in Slots : /\ run'[s].on = run[s].on
                         /\ run[s].on => run'[s].age = run[s].age + 1
    BY <1>1 DEF Tick
  <2>2. message' = message
    BY <1>1 DEF Tick
  <2>3. QED
    BY <2>1, <2>2
<1>2. ASSUME NEW h \in Slots, Deliver(h) PROVE Spaced'
  <2>1. /\ message = "queue" /\ message' = h /\ h # "queue"
        /\ run'[h].on /\ run'[h].age = 0 /\ ~ run[h].on
        /\ \A s \in Slots \ {h} : run'[s] = run[s]
    BY <1>2 DEF Deliver
  <2>2. \A s \in Active' \ {h} : s \in Active /\ run'[s] = run[s] /\ Visibility <= run[s].age
    BY <2>1
  <2>3. QED
    BY <2>1, <2>2
<1>3. ASSUME NEW h \in Slots, EndRun(h) PROVE Spaced'
  <2>1. /\ ~ run'[h].on
        /\ \A s \in Slots \ {h} : run'[s] = run[s]
        /\ message' = IF message = h THEN "acknowledged" ELSE message
    BY <1>3 DEF EndRun
  <2>2. \A s \in Active' : s \in Active /\ run'[s] = run[s]
    BY <2>1
  <2>3. QED
    BY <2>1, <2>2
<1>4. ASSUME NEW s \in Slots, EndIsis(s) PROVE Spaced'
  <2>1. /\ \A t \in Slots : (run'[t].on <=> run[t].on) /\ run'[t].age = run[t].age
        /\ message' = message
    BY <1>4, EndIsisEffect DEF EndIsis
  <2>2. QED
    BY <2>1
<1>5. ASSUME NEW h \in Slots, Restore(h) PROVE Spaced'
  <2>1. /\ message = h /\ message' = "queue" /\ run' = run
        /\ Visibility <= run[h].age
    BY <1>5 DEF Restore
  <2>2. \A s \in Active : Visibility <= run[s].age
    BY <2>1
  <2>3. QED
    BY <2>1, <2>2
<1>6. ASSUME UNCHANGED <<run, message>> PROVE Spaced'
  BY <1>6
<1>7. QED
  BY <1>1, <1>2, <1>3, <1>4, <1>5, <1>6, OthersKeepRuns DEF Next

-----------------------------------------------------------------------------
(* Record, result and output.                                              *)

\* What is stored lives for the retention; a success stays as it is.
LEMMA StoreEffect ==
    ASSUME TypeOK, NEW state \in {"STARTED", "SUCCESS", "FAILURE"}, Store(state)
    PROVE  \/ result' = result /\ result.state = "SUCCESS"
           \/ result'.state = state /\ result'.ttl = Retention
  BY DEF Store, ResultExpires

\* Results age, and end with their last step.
LEMMA TickEffect ==
    ASSUME TypeOK, Tick
    PROVE  /\ metadata' <= metadata /\ (metadata > 0 => metadata' = metadata - 1)
           /\ result.ttl > 1 => result'.state = result.state /\ result'.ttl = result.ttl - 1
           /\ result.ttl <= 1 => result' = NoResult
           /\ output = Absent <=> output' = Absent
           /\ output # Absent => output' <= output + 1
           /\ Active' = Active
           /\ \A s \in Active : run'[s].age = run[s].age + 1
  BY TimesAssumption DEF TypeOK, Tick, Shorter, NoResult, Older, Absent, Active, Off

LEMMA LifetimesStep == ASSUME TypeOK, Lifetimes, [Next]_vars PROVE Lifetimes'
<1>1. Retention \in Nat \ {0} /\ Absent = -1
  BY TimesAssumption DEF Absent
<1>2. NoResult.state = "PENDING" /\ NoResult.ttl = 0
  BY DEF NoResult
<1> USE DEF Lifetimes
<1>3. CASE Tick
  <2>1. deliveries' = deliveries /\ renewed' = renewed
    BY <1>3 DEF Tick
  <2>2. metadata \in Nat /\ result.ttl \in Nat /\ metadata' \in Nat
    BY <1>3 DEF TypeOK, Tick, Shorter
  <2>3. QED
    BY <1>2, <1>3, <2>1, <2>2, TickEffect DEF NoResult
<1>4. ASSUME NEW s \in Slots, Deliver(s) PROVE Lifetimes'
  BY <1>1, <1>2, <1>4, StoreEffect DEF Deliver, TypeOK, Older
<1>5. ASSUME NEW s \in Slots, EndRun(s) PROVE Lifetimes'
  BY <1>1, <1>2, <1>5, StoreEffect DEF EndRun, TypeOK, Active, Off
<1>6. ASSUME NEW s \in Slots, Write(s) \/ EndIsis(s) \/ Restore(s) PROVE Lifetimes'
  BY <1>6 DEF Write, EndIsis, Restore, Active, TypeOK
<1>7. CASE Cancel \/ Publish \/ OrphanWrites \/ OrphanEnds \/ PreviewLists
  BY <1>7 DEF Cancel, Publish, OrphanWrites, OrphanEnds, PreviewLists, Active
<1>8. ASSUME NEW l \in {"unchanged", "written"}, PreviewLapses(l) \/ CleanupRemoves(l)
      PROVE  Lifetimes'
  BY <1>8 DEF PreviewLapses, CleanupRemoves, Active
<1>9. CASE UNCHANGED vars
  BY <1>9 DEF vars, Active
<1>10. QED
  BY <1>3, <1>4, <1>5, <1>6, <1>7, <1>8, <1>9 DEF Next

LEMMA FirstRunStep ==
    ASSUME TypeOK, Deadlines, Spaced, Lifetimes, FirstRun, [Next]_vars
    PROVE  FirstRun'
<1>1. /\ Limit \in Nat /\ Limit' = Limit /\ Retention \in Nat \ {0} /\ Absent = -1
      /\ output \in Absent .. MinAge + 1 /\ result.ttl \in 0 .. Retention
      /\ kind \in Kinds
  BY LimitType, KindIsFixed, TimesAssumption DEF TypeOK, Limit, Absent
<1>2. NoResult.state = "PENDING"
  BY DEF NoResult
<1> USE <1>1 DEF FirstRun
<1>3. CASE Tick
  <2>1. deliveries' = deliveries /\ \A s \in Active : run[s].age \in Nat
    BY <1>3 DEF Tick, TypeOK, Active
  <2>2. ASSUME deliveries = 1, result'.state = "SUCCESS", output' # Absent
        PROVE  output' + result'.ttl <= Limit + Retention
    <3>1. result.state = "SUCCESS" /\ result'.ttl = result.ttl - 1 /\ output # Absent
      BY <1>2, <1>3, <2>2, TickEffect DEF NoResult
    <3>2. output' <= output + 1 /\ output + result.ttl <= Limit + Retention
      BY <1>3, <2>2, <3>1, TickEffect
    <3>3. output' \in Int
      BY <1>3 DEF Tick, Older
    <3>4. QED
      BY <3>1, <3>2, <3>3
  <2>3. ASSUME deliveries = 1, result'.state = "SUCCESS" PROVE Active' = {}
    BY <1>2, <1>3, <2>3, TickEffect
  <2>4. ASSUME deliveries = 1, output' # Absent, NEW s \in Active' PROVE output' <= run'[s].age
    <3>1. s \in Active /\ run'[s].age = run[s].age + 1 /\ output # Absent
          /\ output' <= output + 1 /\ output <= run[s].age
      BY <1>3, <2>4, TickEffect
    <3>2. output' \in Int
      BY <1>3 DEF Tick, Older
    <3>3. QED
      BY <2>1, <3>1, <3>2
  <2>5. QED
    BY <1>3, <2>1, <2>2, <2>3, <2>4, TickEffect
<1>4. ASSUME NEW s \in Slots, Deliver(s) PROVE FirstRun'
  <2> SUFFICES ASSUME deliveries' = 1 PROVE FirstRun'
    OBVIOUS
  <2>1. deliveries = 0
    BY <1>4 DEF Deliver, Older, TypeOK
  <2>2. Active = {} /\ output = Absent /\ result.state = "PENDING"
    BY <1>2, <2>1 DEF Lifetimes
  <2>3. Active' = {s} /\ output' = Absent
    BY <1>4, <2>2 DEF Deliver, Active, TypeOK
  <2>4. result'.state = "STARTED"
    BY <1>4, <2>2, StoreEffect DEF Deliver
  <2>5. QED
    BY <2>3, <2>4
<1>5. ASSUME NEW s \in Slots, EndRun(s) PROVE FirstRun'
  <2> SUFFICES ASSUME deliveries' = 1 PROVE FirstRun'
    OBVIOUS
  <2>1. deliveries = 1 /\ s \in Active /\ output' = output
    BY <1>5 DEF EndRun, Active
  <2>2. Active' = {}
    BY <1>5, <2>1 DEF EndRun, Active, Off, TypeOK
  <2>3. output # Absent => output <= Limit
    BY <2>1 DEF Deadlines, TypeOK, Active
  <2>4. result'.state = "SUCCESS" /\ output # Absent => output + result'.ttl <= Limit + Retention
    <3>1. result.state # "SUCCESS"
      BY <2>1
    <3>2. result'.ttl = Retention
      BY <1>5, <3>1, StoreEffect DEF EndRun
    <3>3. QED
      BY <2>3, <3>2
  <2>5. QED
    BY <2>1, <2>2, <2>4
<1>6. ASSUME NEW s \in Slots, Write(s) PROVE FirstRun'
  <2>1. /\ Active' = Active /\ run' = run /\ result' = result /\ output' = 0
        /\ deliveries' = deliveries /\ s \in Active
    BY <1>6 DEF Write, MakeEntry, Active
  <2>2. \A t \in Active : 0 <= run[t].age
    BY DEF Active, TypeOK
  <2>3. QED
    BY <2>1, <2>2
<1>7. ASSUME NEW s \in Slots, EndIsis(s) PROVE FirstRun'
  <2>1. /\ Active' = Active /\ \A t \in Slots : run'[t].age = run[t].age
        /\ result' = result /\ output' = output /\ deliveries' = deliveries
    BY <1>7, EndIsisEffect DEF EndIsis, Active
  <2>2. QED
    BY <2>1 DEF Active
<1>8. ASSUME NEW l \in {"unchanged", "written"}, CleanupRemoves(l) PROVE FirstRun'
  BY <1>8 DEF CleanupRemoves, Active
<1>9. CASE OrphanWrites
  <2>1. /\ Active' = Active /\ run' = run /\ result' = result /\ output' = 0
        /\ deliveries' = deliveries
    BY <1>9 DEF OrphanWrites, MakeEntry, Active
  <2>2. \A t \in Active : 0 <= run[t].age
    BY DEF Active, TypeOK
  <2>3. QED
    BY <2>1, <2>2
<1>10. ASSUME UNCHANGED <<run, result, output, deliveries>> PROVE FirstRun'
  BY <1>10 DEF Active
<1>11. QED
  BY <1>3, <1>4, <1>5, <1>6, <1>7, <1>8, <1>9, <1>10
     DEF Next, vars, Restore, Cancel, Publish, OrphanEnds, PreviewLists, PreviewLapses

LEMMA ListedStep == ASSUME TypeOK, Listed, [Next]_vars PROVE Listed'
<1>1. MinAge \in Nat /\ output \in Absent .. MinAge + 1 /\ Absent = -1
  BY TimesAssumption DEF TypeOK, Absent
<1> USE <1>1 DEF Listed
<1>2. CASE Tick
  BY <1>2 DEF Tick, Older, cleanupVars
<1>3. ASSUME MakeEntry PROVE Listed'
  BY <1>3 DEF MakeEntry
<1>4. CASE PreviewLists
  BY <1>4 DEF PreviewLists, Stale
<1>5. ASSUME NEW l \in {"unchanged", "written"}, PreviewLapses(l) \/ CleanupRemoves(l)
      PROVE  Listed'
  BY <1>5 DEF PreviewLapses, CleanupRemoves
<1>6. ASSUME UNCHANGED <<listings, output>> PROVE Listed'
  BY <1>6
<1>7. QED
  BY <1>2, <1>3, <1>4, <1>5, <1>6
     DEF Next, vars, cleanupVars, Deliver, Write, EndIsis, EndRun, Restore, OrphanWrites,
         OrphanEnds, Cancel, Publish

\* Only an output that was found too old is removed, or one that is written to
\* after that.
LEMMA ArtifactsStep ==
    ASSUME TypeOK, Lifetimes, FirstRun, Listed, ArtifactsOutliveSuccess, [Next]_vars
    PROVE  ArtifactsOutliveSuccess'
<1>1. /\ Limit \in Nat /\ Limit' = Limit /\ Retention \in Nat \ {0} /\ Absent = -1
      /\ MinAge \in Nat /\ output \in Absent .. MinAge + 1 /\ result.ttl \in 0 .. Retention
      /\ kind \in Kinds
  BY LimitType, KindIsFixed, TimesAssumption DEF TypeOK, Limit, Absent
<1> USE <1>1 DEF ArtifactsOutliveSuccess
<1>2. CASE Tick
  BY <1>2, TickEffect DEF Tick, NoResult, cleanupVars
<1>3. ASSUME NEW s \in Slots, Deliver(s) PROVE ArtifactsOutliveSuccess'
  BY <1>3, StoreEffect DEF Deliver, Older, Lifetimes, NoResult, TypeOK
<1>4. ASSUME NEW s \in Slots, EndRun(s) PROVE ArtifactsOutliveSuccess'
  BY <1>4, StoreEffect DEF EndRun, Store, FirstRun, Active, cleanupVars
<1>5. ASSUME MakeEntry PROVE ArtifactsOutliveSuccess'
  BY <1>5 DEF MakeEntry
<1>6. ASSUME NEW l \in {"unchanged", "written"}, CleanupRemoves(l), ~ swept'
      PROVE  ArtifactsOutliveSuccess'
  <2>1. /\ result' = result /\ deliveries' = deliveries /\ output # Absent
        /\ l = "unchanged" /\ l \in listings
    BY <1>6 DEF CleanupRemoves
  <2>2. output > MinAge
    BY <2>1 DEF Listed
  <2>3. QED
    BY <2>1, <2>2 DEF FirstRun
<1>7. ASSUME UNCHANGED <<result, output, deliveries, swept>> PROVE ArtifactsOutliveSuccess'
  BY <1>7
<1>8. QED
  BY <1>2, <1>3, <1>4, <1>5, <1>6, <1>7
     DEF Next, vars, cleanupVars, Write, Restore, Cancel, Publish, EndIsis, OrphanWrites,
         OrphanEnds, PreviewLists, PreviewLapses

LEMMA TimesInvariant == Spec => []TimesInv
<1>1. TimesInv /\ [Next]_vars => TimesInv'
  BY TypeStep, DeadlinesStep, SpacedStep, LifetimesStep, FirstRunStep, ListedStep,
     ArtifactsStep DEF TimesInv
<1>2. QED
  BY <1>1, TimesInvInit, PTL DEF Spec

-----------------------------------------------------------------------------
(* How many runs fit between the visibility timeout and the hard limit.    *)

LEMMA DivisionLemma ==
    ASSUME NEW a \in Nat, NEW b \in Nat, NEW v \in Nat \ {0}
    PROVE  /\ a \div v \in Nat
           /\ a <= b => a \div v <= b \div v
           /\ a \div v = b \div v => ~ a + v <= b /\ ~ b + v <= a
<1>1. a \div v \in Nat
  OBVIOUS
<1>2. a <= b => a \div v <= b \div v
  OBVIOUS
<1>3. a \div v = b \div v => ~ a + v <= b /\ ~ b + v <= a
  OBVIOUS
<1>4. QED
  BY <1>1, <1>2, <1>3

\* Runs that began a timeout apart are counted by how many timeouts they have
\* reached, of which the limit admits so many.
LEMMA ApartAreFew ==
    ASSUME NEW S, NEW age \in [S -> Nat], NEW limit \in Nat, NEW v \in Nat \ {0},
           \A s \in S : age[s] <= limit,
           \A s, t \in S : s # t => age[s] + v <= age[t] \/ age[t] + v <= age[s]
    PROVE  IsFiniteSet(S) /\ Cardinality(S) <= limit \div v + 1
<1> DEFINE reached == [s \in S |-> age[s] \div v]
<1>1. \A s \in S : age[s] \div v \in 0 .. limit \div v
  BY DivisionLemma
<1>2. \A s, t \in S : age[s] \div v = age[t] \div v => s = t
  BY DivisionLemma
<1>3. reached \in Injection(S, 0 .. limit \div v)
  BY <1>1, <1>2 DEF Injection, IsInjective
<1>4. limit \div v \in Nat
  BY DivisionLemma
<1>5. /\ IsFiniteSet(0 .. limit \div v)
      /\ Cardinality(0 .. limit \div v) = limit \div v + 1
  <2> DEFINE most == limit \div v
  <2>1. most \in Int /\ 0 \in Int /\ ~ 0 > most /\ most - 0 + 1 = most + 1
    BY <1>4
  <2> HIDE DEF most
  <2>2. IsFiniteSet(0 .. most) /\ Cardinality(0 .. most) = most + 1
    BY <2>1, FS_Interval
  <2>3. QED
    BY <2>2 DEF most
<1>6. QED
  BY <1>3, <1>5, FS_Injection

LEMMA OverlapIsBounded == TimesInv => IsFiniteSet(Active) /\ OverlapBound
<1> SUFFICES ASSUME TimesInv PROVE IsFiniteSet(Active) /\ OverlapBound
  OBVIOUS
<1> DEFINE age == [s \in Active |-> run[s].age]
<1>1. age \in [Active -> Nat]
  <2>1. \A s \in Active : run[s].age \in Nat
    BY DEF TimesInv, TypeOK, Active
  <2>2. QED
    BY <2>1
<1>2. Limit \in Nat /\ Visibility \in Nat \ {0}
  BY LimitType, TimesAssumption DEF TimesInv, TypeOK
<1>3. \A s \in Active : age[s] <= Limit
  BY DEF TimesInv, Deadlines, Active
<1>4. \A s, t \in Active : s # t => age[s] + Visibility <= age[t] \/ age[t] + Visibility <= age[s]
  BY DEF TimesInv, Spaced
<1> HIDE DEF age
<1>5. QED
  BY <1>1, <1>2, <1>3, <1>4, ApartAreFew DEF OverlapBound

-----------------------------------------------------------------------------
(* The theorems.                                                           *)

\* Every variable keeps its type; in particular no run is older than the
\* longest of the limits, and no record lives longer than the retention.
THEOREM TimesTypeCorrect == Spec => []TypeOK
<1>1. TimesInv => TypeOK
  BY DEF TimesInv
<1>2. QED
  BY <1>1, TimesInvariant, PTL

\* Runs of one job never number more than the visibility timeouts that fit into
\* its hard limit, and one: the broker cannot pile up executions of a long job.
THEOREM OverlapsAreBounded == Spec => []OverlapBound
<1>1. TimesInv => OverlapBound
  BY OverlapIsBounded
<1>2. QED
  BY <1>1, TimesInvariant, PTL

\* A job whose hard limit is at most the visibility timeout, as that of planetir
\* is (3600 s each), has two runs for an instant only: the broker can give it out
\* again when a run has reached its limit, and that run ends before time goes on.
THEOREM ShortJobsTakeTurns ==
    Spec => [](Limit <= Visibility =>
                  \A s, t \in Active : s # t => run[s].age = 0 \/ run[t].age = 0)
<1>1. TimesInv => (Limit <= Visibility =>
                      \A s, t \in Active : s # t => run[s].age = 0 \/ run[t].age = 0)
  <2> SUFFICES ASSUME TimesInv, Limit <= Visibility,
                      NEW s \in Active, NEW t \in Active, s # t
               PROVE  run[s].age = 0 \/ run[t].age = 0
    OBVIOUS
  <2>1. Limit \in Nat /\ Visibility \in Nat
    BY LimitType, TimesAssumption DEF TimesInv, TypeOK
  <2>2. run[s].age + Visibility <= run[t].age \/ run[t].age + Visibility <= run[s].age
    BY DEF TimesInv, Spaced
  <2>3. run[s].age \in Nat /\ run[t].age \in Nat /\ run[s].age <= Limit /\ run[t].age <= Limit
    BY DEF TimesInv, TypeOK, Deadlines, Active
  <2>4. QED
    BY <2>1, <2>2, <2>3
<1>2. QED
  BY <1>1, TimesInvariant, PTL

\* With a subprocess timeout of at most the visibility timeout, as configured
\* (one hour each), a redelivered run starts its wrapper when the last run no
\* longer waits for its own: ISIS3 of one job runs side by side only where a
\* program, or the wrapper of a killed process, has outlived its run.
THEOREM AttendedTakeTurns ==
    ASSUME JobLimit <= Visibility
    PROVE  Spec => []OneAttended
<1>1. TimesInv => OneAttended
  <2> SUFFICES ASSUME TimesInv, NEW s \in WithIsis, NEW t \in WithIsis, s # t
               PROVE  run[s].age = 0 \/ run[t].age = 0
    BY DEF OneAttended
  <2>1. s \in Active /\ t \in Active
    BY DEF TimesInv, Deadlines, Active, WithIsis
  <2>2. run[s].age + Visibility <= run[t].age \/ run[t].age + Visibility <= run[s].age
    BY <2>1 DEF TimesInv, Spaced
  <2>3. /\ run[s].age \in Nat /\ run[t].age \in Nat
        /\ run[s].age <= JobLimit /\ run[t].age <= JobLimit
    BY DEF TimesInv, TypeOK, Deadlines, IsisTimeout, WithIsis
  <2>4. JobLimit \in Nat /\ Visibility \in Nat
    BY TimesAssumption
  <2>5. QED
    BY <2>2, <2>3, <2>4
<1>2. QED
  BY <1>1, TimesInvariant, PTL

\* A job whose record was not written again is never reported as queued after
\* it was delivered: its result expires after the record.
THEOREM QueuedIsQueued == Spec => []QueuedMeansQueued
<1>1. TimesInv => QueuedMeansQueued
  BY TimesAssumption DEF TimesInv, TypeOK, Lifetimes, QueuedMeansQueued
<1>2. QED
  BY <1>1, TimesInvariant, PTL

\* The artifacts of a job that was delivered once outlive all of its success
\* but the time that its run may have taken and the difference of the two ages,
\* whatever previews list and however late they are executed, unless one of
\* them removes what was written after it had listed the directory.
THEOREM ArtifactsOutlive == Spec => []ArtifactsOutliveSuccess
<1>1. TimesInv => ArtifactsOutliveSuccess
  BY DEF TimesInv
<1>2. QED
  BY <1>1, TimesInvariant, PTL
=============================================================================
