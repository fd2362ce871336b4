-------------------------- MODULE PublicationProofs --------------------------
(***************************************************************************)
(* Proofs about Publication: type correctness, completeness of the stored  *)
(* descriptors, and calls that come late.                                  *)
(*                                                                         *)
(* DescriptorsAreComplete is not inductive: that a call which posts has    *)
(* uploaded everything follows from how far it is.  CallInv says so of     *)
(* every call; rows never go away.                                         *)
(***************************************************************************)
EXTENDS Publication, TLAPS

HasRow(c, a) == <<c, a>> \in rows
NoRows(c) == \A a \in Artifacts : ~ HasRow(c, a)
Complete(c) == \A a \in Artifacts : HasRow(c, a)

\* How far a call is, and what it has uploaded by then.
Progress(c) ==
    /\ \A a \in Artifacts : a < next[c] => HasRow(c, a)
    /\ pc[c] = "new" => next[c] = 1
    /\ pc[c] \in {"check", "upload"} => next[c] \in Artifacts
    /\ pc[c] = "post" => next[c] = NumArtifacts + 1
    /\ pc[c] = "emit" => Complete(c)

\* A call that has made its first request too late has ended with an answer.
EndedLate(c) ==
    /\ pc[c] = "new" => NoRows(c)
    /\ c \in late => /\ pc[c] = "done" /\ answer[c] # NoCall
                     /\ NoRows(c)

CallInv == \A c \in Calls : Progress(c) /\ EndedLate(c)

Sources == {published} \union {answer[k] : k \in Calls}
SourcesComplete == \A c \in Sources : c # NoCall => Complete(c)

Inv == TypeOK /\ CallInv /\ SourcesComplete

-----------------------------------------------------------------------------

LEMMA InitInv == Init => Inv
  <1> SUFFICES ASSUME Init PROVE Inv
    OBVIOUS
  <1> USE PublicationAssumption DEF Init
  <1>1. TypeOK
    BY DEF TypeOK, Artifacts, Contents, Stages
  <1>2. CallInv
    <2> SUFFICES ASSUME NEW c \in Calls PROVE Progress(c) /\ EndedLate(c)
      BY DEF CallInv
    <2>1. next[c] = 1 /\ pc[c] = "new"
      OBVIOUS
    <2>2. \A a \in Artifacts : ~ a < next[c]
      BY <2>1 DEF Artifacts
    <2> QED
      BY <2>1, <2>2 DEF Progress, EndedLate, NoRows, HasRow
  <1>3. SourcesComplete
    BY DEF SourcesComplete, Sources
  <1> QED
    BY <1>1, <1>2, <1>3 DEF Inv

\* Rows are only added, so what was complete stays so.
LEMMA RowsGrow ==
    ASSUME TypeOK, [Next]_vars
    PROVE  rows \subseteq rows'
  BY DEF Next, CallStep, Poll, Check, CheckFails, Upload, OpenFails, Post, Emit, CallFails,
         RerunWrites, RerunFinishes, CleanupRemoves, AddRow, vars

LEMMA CompleteStays ==
    ASSUME TypeOK, [Next]_vars, NEW c
    PROVE  /\ Complete(c) => Complete(c)'
           /\ \A a \in Artifacts : HasRow(c, a) => HasRow(c, a)'
  BY RowsGrow DEF Complete, HasRow, Artifacts

\* An upload adds a row of its own call, for the artifact it is at.
LEMMA AddedRow ==
    ASSUME TypeOK, NEW c \in Calls, next[c] \in Artifacts, AddRow(c)
    PROVE  /\ rows' \in SUBSET (Calls \X Artifacts)
           /\ <<c, next[c]>> \in rows'
           /\ \A k \in Calls, a \in Artifacts : <<k, a>> \in rows' => <<k, a>> \in rows \/ k = c
  BY DEF TypeOK, AddRow

-----------------------------------------------------------------------------

LEMMA StepType ==
    ASSUME Inv, [Next]_vars
    PROVE  TypeOK'
  <1> USE PublicationAssumption DEF TypeOK, Stages, Artifacts
  <1> TypeOK /\ CallInv
    BY DEF Inv
  <1>1. ASSUME NEW c \in Calls, Poll(c) PROVE TypeOK'
    BY <1>1 DEF Poll, Transition, Answer
  <1>2. ASSUME NEW c \in Calls, Check(c) \/ CheckFails(c) \/ OpenFails(c) PROVE TypeOK'
    BY <1>2 DEF Check, CheckFails, OpenFails, Transition
  <1>3. ASSUME NEW c \in Calls, Upload(c) PROVE TypeOK'
    <2>1. next[c] \in Artifacts
      BY <1>3 DEF Upload, Transition, CallInv, Progress
    <2>2. rows' \in SUBSET (Calls \X Artifacts)
      BY <1>3, <2>1, AddedRow DEF Upload
    <2> QED
      BY <1>3, <2>1, <2>2 DEF Upload, Transition
  <1>4. ASSUME NEW c \in Calls, Post(c) \/ Emit(c) PROVE TypeOK'
    <2>1. CASE Post(c)
      BY <2>1 DEF Post, Transition
    <2>2. CASE Emit(c)
      BY <2>2 DEF Emit, Transition, Answer
    <2> QED
      BY <1>4, <2>1, <2>2
  <1>5. ASSUME NEW c \in Calls, CallFails(c) PROVE TypeOK'
    <2>1. rows' \in SUBSET (Calls \X Artifacts)
      <3>1. CASE pc[c] = "upload" /\ AddRow(c)
        <4>1. next[c] \in Artifacts
          BY <3>1 DEF CallInv, Progress
        <4> QED
          BY <3>1, <4>1, AddedRow
      <3> QED
        BY <1>5, <3>1 DEF CallFails
    <2> QED
      BY <1>5, <2>1 DEF CallFails, Fault
  <1>6. ASSUME NEW a \in Artifacts, RerunWrites(a) \/ RerunFinishes(a) PROVE TypeOK'
    <2>1. disk' \in [Artifacts -> Contents]
      BY <1>6 DEF RerunWrites, RerunFinishes, Contents
    <2>2. faults' \in 0 .. MaxFaults
      BY <1>6 DEF RerunWrites, RerunFinishes, Fault
    <2> QED
      BY <1>6, <2>1, <2>2 DEF RerunWrites, RerunFinishes, callVars
  <1>7. CASE CleanupRemoves
    BY <1>7 DEF CleanupRemoves, Fault, callVars, Contents
  <1>8. CASE UNCHANGED vars
    BY <1>8 DEF vars, callVars
  <1> QED
    BY <1>1, <1>2, <1>3, <1>4, <1>5, <1>6, <1>7, <1>8 DEF Next, CallStep

\* A call that does not move keeps its part of the invariant.
LEMMA OtherCalls ==
    ASSUME Inv, [Next]_vars, NEW k \in Calls,
           pc'[k] = pc[k], next'[k] = next[k], answer'[k] = answer[k],
           k \in late' => k \in late,
           \A a \in Artifacts : <<k, a>> \in rows' => <<k, a>> \in rows
    PROVE  Progress(k)' /\ EndedLate(k)'
  <1>1. TypeOK /\ Progress(k) /\ EndedLate(k)
    BY DEF Inv, CallInv
  <1>2. Progress(k)'
    BY <1>1, CompleteStays DEF Progress, Artifacts
  <1>3. EndedLate(k)'
    BY <1>1 DEF EndedLate, NoRows, HasRow
  <1> QED
    BY <1>2, <1>3

LEMMA StepCallInv ==
    ASSUME Inv, [Next]_vars
    PROVE  CallInv'
  <1> USE PublicationAssumption DEF Artifacts
  <1>0. TypeOK /\ CallInv /\ SourcesComplete
    BY DEF Inv
  <1>1. ASSUME NEW c \in Calls, Poll(c) PROVE CallInv'
    <2> SUFFICES ASSUME NEW k \in Calls PROVE Progress(k)' /\ EndedLate(k)'
      BY DEF CallInv
    <2>1. CASE k # c
      BY <1>0, <1>1, <2>1, OtherCalls DEF Poll, Transition, Answer, TypeOK
    <2>2. CASE k = c
      BY <1>0, <1>1, <2>2 DEF Poll, Transition, Answer, TypeOK, CallInv, Progress, EndedLate,
                              HasRow, NoRows, Complete
    <2> QED
      BY <2>1, <2>2
  <1>2. ASSUME NEW c \in Calls, Check(c) \/ CheckFails(c) \/ OpenFails(c) PROVE CallInv'
    <2> SUFFICES ASSUME NEW k \in Calls PROVE Progress(k)' /\ EndedLate(k)'
      BY DEF CallInv
    <2>1. CASE k # c
      BY <1>0, <1>2, <2>1, OtherCalls DEF Check, CheckFails, OpenFails, Transition, TypeOK
    <2>2. CASE k = c
      BY <1>0, <1>2, <2>2 DEF Check, CheckFails, OpenFails, Transition, TypeOK, CallInv,
                              Progress, EndedLate, HasRow, NoRows, Complete
    <2> QED
      BY <2>1, <2>2
  <1>3. ASSUME NEW c \in Calls, Upload(c) PROVE CallInv'
    <2>0. next[c] \in Artifacts
      BY <1>0, <1>3 DEF Upload, Transition, CallInv, Progress
    <2>1. /\ <<c, next[c]>> \in rows'
          /\ \A k \in Calls, a \in Artifacts : <<k, a>> \in rows' => <<k, a>> \in rows \/ k = c
      BY <1>0, <1>3, <2>0, AddedRow DEF Upload
    <2> SUFFICES ASSUME NEW k \in Calls PROVE Progress(k)' /\ EndedLate(k)'
      BY DEF CallInv
    <2>2. CASE k # c
      BY <1>0, <1>3, <2>1, <2>2, OtherCalls DEF Upload, Transition, TypeOK
    <2>3. CASE k = c
      <3>1. /\ next'[c] = next[c] + 1
            /\ pc'[c] = IF next[c] = NumArtifacts THEN "post" ELSE "check"
        BY <1>0, <1>3 DEF Upload, Transition, TypeOK
      <3>2. \A a \in Artifacts : a < next'[c] => HasRow(c, a)'
        <4> SUFFICES ASSUME NEW a \in Artifacts, a < next'[c] PROVE HasRow(c, a)'
          OBVIOUS
        <4>1. CASE a < next[c]
          BY <1>0, <4>1, CompleteStays DEF CallInv, Progress
        <4>2. CASE ~ a < next[c]
          <5>1. a = next[c]
            BY <2>0, <3>1, <4>2
          <5> QED
            BY <2>1, <5>1 DEF HasRow
        <4> QED
          BY <4>1, <4>2
      <3>3. Progress(c)'
        BY <2>0, <3>1, <3>2 DEF Progress
      <3>4. EndedLate(c)'
        BY <1>0, <1>3, <3>1 DEF EndedLate, CallInv, Upload, Transition
      <3> QED
        BY <2>3, <3>3, <3>4
    <2> QED
      BY <2>2, <2>3
  <1>4. ASSUME NEW c \in Calls, Post(c) \/ Emit(c) PROVE CallInv'
    <2> SUFFICES ASSUME NEW k \in Calls PROVE Progress(k)' /\ EndedLate(k)'
      BY DEF CallInv
    <2>1. CASE k # c
      BY <1>0, <1>4, <2>1, OtherCalls DEF Post, Emit, Transition, Answer, TypeOK
    <2>2. CASE k = c
      <3>1. next' = next /\ pc'[c] \in {"emit", "done"} /\ pc[c] \in {"post", "emit"}
        BY <1>0, <1>4 DEF Post, Emit, Transition, TypeOK
      <3>2. Complete(c)'
        BY <1>0, <3>1, CompleteStays DEF CallInv, Progress, Complete
      <3>3. Progress(c)'
        BY <1>0, <3>1, <3>2, CompleteStays DEF CallInv, Progress
      <3>4. EndedLate(c)'
        BY <1>0, <1>4, <3>1 DEF Post, Emit, CallInv, EndedLate
      <3> QED
        BY <2>2, <3>3, <3>4
    <2> QED
      BY <2>1, <2>2
  <1>5. ASSUME NEW c \in Calls, CallFails(c) PROVE CallInv'
    <2>1. \A k \in Calls, a \in Artifacts : <<k, a>> \in rows' => <<k, a>> \in rows \/ k = c
      BY <1>5 DEF CallFails, AddRow
    <2> SUFFICES ASSUME NEW k \in Calls PROVE Progress(k)' /\ EndedLate(k)'
      BY DEF CallInv
    <2>2. CASE k # c
      BY <1>0, <1>5, <2>1, <2>2, OtherCalls DEF CallFails, TypeOK
    <2>3. CASE k = c
      <3>1. Progress(c)'
        <4>1. next' = next /\ pc'[c] = "failed"
          BY <1>0, <1>5 DEF CallFails, TypeOK
        <4> QED
          BY <1>0, <4>1, CompleteStays DEF CallInv, Progress
      <3>2. EndedLate(c)'
        BY <1>0, <1>5 DEF EndedLate, CallInv, CallFails, InFlight, TypeOK
      <3> QED
        BY <2>3, <3>1, <3>2
    <2> QED
      BY <2>2, <2>3
  <1>6. CASE UNCHANGED <<callVars, rows>>
    BY <1>0, <1>6, OtherCalls DEF CallInv, callVars
  <1> QED
    BY <1>1, <1>2, <1>3, <1>4, <1>5, <1>6
    DEF Next, CallStep, RerunWrites, RerunFinishes, CleanupRemoves, vars, callVars

LEMMA StepSources ==
    ASSUME Inv, [Next]_vars
    PROVE  SourcesComplete'
  <1> USE PublicationAssumption DEF Artifacts
  <1>0. TypeOK /\ CallInv /\ SourcesComplete
    BY DEF Inv
  \* Every source in the next state is one already, or a call that posts or emits.
  <1>1. ASSUME NEW s \in Sources' PROVE s # NoCall => s \in Sources \/ Complete(s)
    <2>1. ASSUME NEW c \in Calls, Poll(c) PROVE s \in Sources
      BY <1>0, <1>1, <2>1 DEF Sources, Poll, Transition, Answer, TypeOK
    <2>2. ASSUME NEW c \in Calls, Post(c) PROVE s \in Sources \/ Complete(s)
      BY <1>0, <1>1, <2>2 DEF Sources, Post, Transition, CallInv, Progress, Complete, TypeOK
    <2>3. ASSUME NEW c \in Calls, Emit(c) PROVE s \in Sources \/ Complete(s)
      BY <1>0, <1>1, <2>3 DEF Sources, Emit, Transition, Answer, CallInv, Progress, TypeOK
    <2>4. ASSUME NEW c \in Calls, CallFails(c) PROVE s \in Sources \/ Complete(s)
      BY <1>0, <1>1, <2>4 DEF Sources, CallFails, CallInv, Progress, Complete, TypeOK
    <2>5. CASE UNCHANGED <<published, answer>>
      BY <1>1, <2>5 DEF Sources
    <2> QED
      BY <2>1, <2>2, <2>3, <2>4, <2>5
      DEF Next, CallStep, Check, CheckFails, Upload, OpenFails, RerunWrites, RerunFinishes,
          CleanupRemoves, vars, callVars
  <1> QED
    BY <1>0, <1>1, CompleteStays DEF SourcesComplete

LEMMA Inductive == Spec => []Inv
  <1>1. Inv /\ [Next]_vars => Inv'
    BY StepType, StepCallInv, StepSources DEF Inv
  <1> QED
    BY InitInv, <1>1, PTL DEF Spec

-----------------------------------------------------------------------------

\* Every state of every behaviour is well typed, whatever the artifacts.
THEOREM PublicationTypeCorrect == Spec => []TypeOK
  <1>1. Inv => TypeOK
    BY DEF Inv
  <1> QED
    BY Inductive, <1>1, PTL

\* Stored and returned descriptors stand for all artifacts, whatever fails.
THEOREM StoredDescriptorsAreComplete == Spec => []DescriptorsAreComplete
  <1>1. Inv => DescriptorsAreComplete
    <2> SUFFICES ASSUME Inv, NEW c \in Sources, c # NoCall PROVE Uploaded(c) = Artifacts
      BY DEF DescriptorsAreComplete, Sources
    <2>1. Uploaded(c) \subseteq Artifacts
      BY DEF Uploaded
    <2>2. Complete(c)
      BY DEF Inv, SourcesComplete
    <2>3. Artifacts \subseteq Uploaded(c)
      BY <2>2 DEF Complete, HasRow, Uploaded
    <2> QED
      BY <2>1, <2>3
  <1> QED
    BY Inductive, <1>1, PTL

\* A call that found descriptors in the record adds no row to Files.
THEOREM LateCallsAddNoRows == Spec => []LateCallsUploadNothing
  <1>1. Inv => LateCallsUploadNothing
    BY DEF Inv, CallInv, EndedLate, NoRows, HasRow, LateCallsUploadNothing, Uploaded, TypeOK
  <1> QED
    BY Inductive, <1>1, PTL
=============================================================================
