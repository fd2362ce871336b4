---------------------------- MODULE CleanupProofs ----------------------------
(***************************************************************************)
(* Theorems about Cleanup for any tree of outputs, any numbers of tokens   *)
(* and sessions and any ages; then about the same service under its two    *)
(* clients (AdminCleanup), for any OpenWebUI files.                        *)
(***************************************************************************)
EXTENDS AdminCleanup, FiniteSetTheorems, TLAPS

\* A preview row keeps its listing; no preview is of the future.
RowsOK == \A t \in Tokens : preview[t] # NoPreview => preview[t].made <= clock

\* A session works on what the preview of its token listed.
SessionsOK ==
    \A s \in Sessions : pc[s] # "idle" =>
        /\ token[s] \in Tokens
        /\ preview[token[s]] # NoPreview
        /\ left[s] \subseteq preview[token[s]].targets
        /\ pc[s] \in {"inspected", "audit"} => target[s] \in preview[token[s]].targets

\* What is known of an output that is, or whose user's directory is, listed.
ListedOK ==
    \A t \in Tokens, o \in Outputs : preview[t] # NoPreview /\ Exists(o) =>
        /\ OwnerOf[o] \in preview[t].targets => mtime[o] >= preview[t].made
        /\ o \in preview[t].targets =>
               mtime[o] >= preview[t].made \/ mtime[o] < preview[t].made - MinAge

CleanupInv == TypeOK /\ RowsOK /\ SessionsOK /\ ListedOK

\* Marking a row executed changes nothing else of it.
LEMMA MarkRow ==
    ASSUME TypeOK, NEW t \in Tokens, preview[t] # NoPreview
    PROVE  \E row \in Preview :
              /\ [preview EXCEPT ![t].executed = TRUE] = [preview EXCEPT ![t] = row]
              /\ row.targets = preview[t].targets /\ row.made = preview[t].made
<1>1. preview[t] \in Preview
  BY DEF TypeOK
<1>2. [preview[t] EXCEPT !.executed = TRUE] \in Preview
  BY <1>1 DEF Preview
<1>3. /\ [preview[t] EXCEPT !.executed = TRUE].targets = preview[t].targets
      /\ [preview[t] EXCEPT !.executed = TRUE].made = preview[t].made
  BY <1>1 DEF Preview
<1>4. [preview EXCEPT ![t].executed = TRUE]
        = [preview EXCEPT ![t] = [preview[t] EXCEPT !.executed = TRUE]]
  OBVIOUS
<1>5. QED
  BY <1>2, <1>3, <1>4

\* What a new row holds: stale outputs, and directories of users that are empty.
LEMMA NewRow ==
    ASSUME TypeOK, NEW a \in Admins, NEW t \in Tokens, NEW age \in Ages, CreatePreview(a, t, age)
    PROVE  \E row \in Preview :
              /\ preview[t] = NoPreview /\ preview' = [preview EXCEPT ![t] = row]
              /\ row.made = clock
              /\ \A o \in Outputs : /\ o \in row.targets => mtime[o] < clock - MinAge
                                    /\ OwnerOf[o] \in row.targets => ~ Exists(o)
<1> DEFINE row == [admin |-> a, targets |-> Stale(age), made |-> clock, executed |-> FALSE]
<1>1. age \in Nat /\ MinAge \in Nat /\ clock \in Nat /\ mtime \in [Paths -> Int]
  BY CleanupAssumption DEF TypeOK, Times, Absent
<1>2. Stale(age) \in SUBSET Paths
  BY DEF Stale, Candidates, Paths
<1>3. row \in Preview
  BY <1>2 DEF Preview, TypeOK
<1>4. \A o \in Outputs : o \in Stale(age) => mtime[o] < clock - MinAge
  BY <1>1 DEF Stale, Paths
<1>5. \A o \in Outputs : OwnerOf[o] \in Stale(age) => ~ Exists(o)
  <2>1. \A o \in Outputs : OwnerOf[o] \in Users \ Outputs
    BY CleanupAssumption
  <2>2. QED
    BY <2>1 DEF Stale, Candidates, Children
<1>6. preview[t] = NoPreview /\ preview' = [preview EXCEPT ![t] = row]
  BY DEF CreatePreview
<1>7. QED
  BY <1>3, <1>4, <1>5, <1>6

\* What a removal makes of an output's directory.
Touched(o) == mtime'[o] = clock \/ mtime'[o] = mtime[o] \/ mtime'[o] = Absent

\* Every step keeps the invariant.
LEMMA CleanupStep == ASSUME CleanupInv, [Next]_vars PROVE CleanupInv'
<1> USE CleanupAssumption, NoPreviewAssumption
    DEF CleanupInv, RowsOK, SessionsOK, ListedOK, TypeOK, Stages, Exists, EndSession,
        sessionVars
<1>0. clock \in Nat /\ MinAge \in Nat /\ \A p \in Paths : mtime[p] \in Int
  BY DEF Times, Absent
<1>1. CASE Tick
  BY <1>1, <1>0 DEF Tick, Times, Preview
<1>2. ASSUME NEW o \in Outputs, WriteOutput(o) PROVE CleanupInv'
  <2>1. /\ mtime' \in [Paths -> Times \union {Absent}]
        /\ \A q \in Outputs : mtime'[q] = clock \/ mtime'[q] = mtime[q]
    BY <1>2 DEF WriteOutput, Paths
  <2>2. /\ born' \in [Outputs -> Times \union {Absent}]
        /\ UNCHANGED <<clock, preview, pc, token, left, target, removed, events, runs, faults>>
    BY <1>2 DEF WriteOutput
  <2>3. \A t \in Tokens : preview[t] # NoPreview => preview[t].made \in Nat
    BY DEF Preview, Times
  <2>4. QED
    BY <1>0, <2>1, <2>2, <2>3
<1>3. ASSUME NEW a \in Admins, NEW t \in Tokens, NEW age \in Ages, CreatePreview(a, t, age)
      PROVE  CleanupInv'
  <2>1. PICK row \in Preview :
              /\ preview[t] = NoPreview /\ preview' = [preview EXCEPT ![t] = row]
              /\ row.made = clock
              /\ \A o \in Outputs : /\ o \in row.targets => mtime[o] < clock - MinAge
                                    /\ OwnerOf[o] \in row.targets => ~ Exists(o)
    BY <1>3, NewRow
  <2>2. UNCHANGED <<clock, mtime, born, pc, token, left, target, removed, events, runs, faults>>
    BY <1>3 DEF CreatePreview
  <2>3. QED
    BY <1>0, <2>1, <2>2
<1>4. ASSUME NEW s \in Sessions, NEW a \in Admins, NEW t \in Tokens, StartExecute(s, a, t)
      PROVE  CleanupInv'
  <2>1. preview[t] \in Preview /\ preview[t].targets \in SUBSET Paths
    BY <1>4 DEF StartExecute, Executable, Preview
  <2>2. QED
    BY <1>4, <2>1 DEF StartExecute, Executable
<1>5. ASSUME NEW s \in Sessions, NEW p \in Paths, Inspect(s, p) PROVE CleanupInv'
  BY <1>5 DEF Inspect
<1>6. ASSUME NEW s \in Sessions, Remove(s) PROVE CleanupInv'
  <2>1. /\ mtime' \in [Paths -> Times \union {Absent}]
        /\ \A q \in Outputs : Touched(q)
    BY <1>6 DEF Remove, Unlink, Below, Touched, Paths
  <2>2. /\ target[s] \in Paths /\ token[s] \in Tokens
        /\ pc[s] = "inspected" /\ pc' = [pc EXCEPT ![s] = "audit"]
        /\ removed' = removed \union {<<token[s], target[s]>>}
        /\ UNCHANGED <<clock, born, preview, token, left, target, events, runs, faults>>
    BY <1>6 DEF Remove, Preview
  <2>3. \A t \in Tokens : preview[t] # NoPreview => preview[t].made \in Nat
    BY DEF Preview, Times
  <2>4. QED
    BY <1>0, <2>1, <2>2, <2>3 DEF Touched
<1>7. ASSUME NEW s \in Sessions, AuditDeletion(s) PROVE CleanupInv'
  BY <1>7 DEF AuditDeletion, Preview
<1>8. ASSUME NEW s \in Sessions, TargetGone(s) PROVE CleanupInv'
  BY <1>8 DEF TargetGone
<1>9. ASSUME NEW s \in Sessions, MarkExecuted(s) PROVE CleanupInv'
  <2>1. token[s] \in Tokens /\ preview[token[s]] # NoPreview
    BY <1>9 DEF MarkExecuted
  <2>2. PICK row \in Preview :
            /\ preview' = [preview EXCEPT ![token[s]] = row]
            /\ row.targets = preview[token[s]].targets /\ row.made = preview[token[s]].made
    BY <1>9, <2>1, MarkRow DEF MarkExecuted
  <2>3. /\ pc' = [pc EXCEPT ![s] = "idle"] /\ token' = [token EXCEPT ![s] = NoToken]
        /\ left' = [left EXCEPT ![s] = {}] /\ target' = [target EXCEPT ![s] = NoPath]
        /\ runs' \in [Tokens -> Nat]
        /\ UNCHANGED <<clock, mtime, born, removed, events, faults>>
    BY <1>9, <2>1 DEF MarkExecuted
  <2>4. QED
    BY <2>1, <2>2, <2>3
<1>10. ASSUME NEW s \in Sessions, SessionFails(s) PROVE CleanupInv'
  BY <1>10 DEF SessionFails
<1>11. ASSUME NEW s \in Sessions, RemoveFails(s) PROVE CleanupInv'
  <2>1. /\ mtime' \in [Paths -> Times \union {Absent}]
        /\ \A q \in Outputs : Touched(q)
    BY <1>11 DEF RemoveFails, Touched, Paths
  <2>2. /\ pc' = [pc EXCEPT ![s] = "idle"] /\ token' = [token EXCEPT ![s] = NoToken]
        /\ left' = [left EXCEPT ![s] = {}] /\ target' = [target EXCEPT ![s] = NoPath]
        /\ faults' \in 0 .. MaxFaults
        /\ UNCHANGED <<clock, born, preview, events, runs>>
    BY <1>11 DEF RemoveFails
  <2>3. \A t \in Tokens : preview[t] # NoPreview => preview[t].made \in Nat
    BY DEF Preview, Times
  <2>4. removed' \in SUBSET (Tokens \X Paths)
    <3>1. removed' = removed \union {<<token[s], target[s]>>}
      BY <1>11 DEF RemoveFails
    <3>2. token[s] \in Tokens /\ target[s] \in Paths
      BY <1>11 DEF RemoveFails, Preview
    <3>3. QED
      BY <3>1, <3>2
  <2>5. QED
    BY <1>0, <2>1, <2>2, <2>3, <2>4 DEF Touched
<1>12. CASE UNCHANGED vars
  BY <1>12 DEF vars
<1>13. QED
  BY <1>1, <1>2, <1>3, <1>4, <1>5, <1>6, <1>7, <1>8, <1>9, <1>10, <1>11, <1>12
     DEF Next, Execution

\* The invariant holds throughout.
LEMMA CleanupInvariant == Spec => []CleanupInv
<1>1. Init => CleanupInv
  BY CleanupAssumption
     DEF Init, CleanupInv, TypeOK, RowsOK, SessionsOK, ListedOK, Times, Stages, Absent
<1>2. QED
  BY <1>1, CleanupStep, PTL DEF Spec

\* Type correctness of the cleanup service.
THEOREM CleanupTypeCorrect == Spec => []TypeOK
<1>1. CleanupInv => TypeOK
  BY DEF CleanupInv
<1>2. QED
  BY <1>1, CleanupInvariant, PTL

-----------------------------------------------------------------------------
(* Which outputs disappear.                                                *)

\* Only rmtree takes an output away, of a target of the token being executed.
LEMMA Removal ==
    ASSUME CleanupInv, [Next]_vars, NEW o \in Outputs, Exists(o), ~ Exists(o)'
    PROVE  \E s \in Sessions : /\ pc[s] = "inspected"
                               /\ token[s] \in Tokens /\ preview[token[s]] # NoPreview
                               /\ target[s] \in preview[token[s]].targets
                               /\ o \in Below(target[s])
<1>1. UNCHANGED mtime \/ (\E w \in Outputs : WriteOutput(w))
                      \/ (\E s \in Sessions : Remove(s) \/ RemoveFails(s))
  BY DEF Next, vars, Tick, CreatePreview, Execution, StartExecute, Inspect, AuditDeletion,
         TargetGone, MarkExecuted, SessionFails
<1>2. mtime[o] # Absent /\ mtime'[o] = Absent
  BY DEF Exists
<1>3. ASSUME NEW w \in Outputs, WriteOutput(w) PROVE FALSE
  BY <1>2, <1>3 DEF WriteOutput, CleanupInv, TypeOK, Times, Absent, Paths
<1>4. PICK s \in Sessions : Remove(s) \/ RemoveFails(s)
  BY <1>1, <1>2, <1>3
<1>5. pc[s] = "inspected" /\ o \in Below(target[s])
  BY <1>2, <1>4 DEF Remove, RemoveFails, Unlink, Below, Paths, CleanupInv, TypeOK, Times, Absent
<1>6. QED
  BY <1>5 DEF CleanupInv, SessionsOK

\* No output that existed at the preview and was not listed is ever removed.
THEOREM OnlyListedOrNewRemoved == Spec => ListedOrNew
<1> DEFINE Step == \A o \in Outputs : Exists(o) /\ ~ Exists(o)' =>
          \E s \in Sessions :
             /\ pc[s] = "inspected"
             /\ LET row == preview[token[s]]
                IN  \/ o \in row.targets
                    \/ OwnerOf[o] \in row.targets /\ mtime[o] >= row.made
<1>1. CleanupInv /\ [Next]_vars => [Step]_vars
  <2> SUFFICES ASSUME CleanupInv, [Next]_vars, NEW o \in Outputs, Exists(o), ~ Exists(o)'
               PROVE  \E s \in Sessions :
                        /\ pc[s] = "inspected"
                        /\ \/ o \in preview[token[s]].targets
                           \/ /\ OwnerOf[o] \in preview[token[s]].targets
                              /\ mtime[o] >= preview[token[s]].made
    OBVIOUS
  <2>1. PICK s \in Sessions : /\ pc[s] = "inspected"
                              /\ token[s] \in Tokens /\ preview[token[s]] # NoPreview
                              /\ target[s] \in preview[token[s]].targets
                              /\ o \in Below(target[s])
    BY Removal
  <2>2. o = target[s] \/ OwnerOf[o] = target[s]
    BY <2>1 DEF Below
  <2>3. OwnerOf[o] = target[s] => mtime[o] >= preview[token[s]].made
    BY <2>1 DEF CleanupInv, ListedOK
  <2>4. QED
    BY <2>1, <2>2, <2>3
<1>2. QED
  BY <1>1, CleanupInvariant, PTL DEF Spec, ListedOrNew

\* A removed output was older than MinAge when it was listed, unless it was
\* written after that.
THEOREM RemovedWereOld == Spec => OldWhenListed
<1> DEFINE Step == \A o \in Outputs : Exists(o) /\ ~ Exists(o)' =>
          \E s \in Sessions :
             LET row == preview[token[s]]
             IN  /\ pc[s] = "inspected"
                 /\ mtime[o] >= row.made \/ mtime[o] < row.made - MinAge
<1>1. CleanupInv /\ [Next]_vars => [Step]_vars
  <2> SUFFICES ASSUME CleanupInv, [Next]_vars, NEW o \in Outputs, Exists(o), ~ Exists(o)'
               PROVE  \E s \in Sessions :
                        /\ pc[s] = "inspected"
                        /\ \/ mtime[o] >= preview[token[s]].made
                           \/ mtime[o] < preview[token[s]].made - MinAge
    OBVIOUS
  <2>1. PICK s \in Sessions : /\ pc[s] = "inspected"
                              /\ token[s] \in Tokens /\ preview[token[s]] # NoPreview
                              /\ target[s] \in preview[token[s]].targets
                              /\ o \in Below(target[s])
    BY Removal
  <2>2. QED
    BY <2>1 DEF Below, CleanupInv, ListedOK
<1>2. QED
  BY <1>1, CleanupInvariant, PTL DEF Spec, OldWhenListed

-----------------------------------------------------------------------------
(* The audit trail.                                                        *)

\* The sessions that hold a token and what they are about to record.
Pending(r) == \E s \in Sessions : pc[s] = "audit" /\ r = <<token[s], target[s]>>

AuditInv == IsFiniteSet(Unrecorded) /\ Cardinality(Unrecorded) <= faults

LEMMA UnrecordedIs == \A r : r \in Unrecorded <=> r \in removed /\ r \notin events /\ ~ Pending(r)
  BY DEF Unrecorded, Pending

\* Only a failing session leaves a removal behind, and then only its own.
LEMMA UnrecordedStep ==
    ASSUME CleanupInv, [Next]_vars
    PROVE  \/ Unrecorded' \subseteq Unrecorded
           \/ faults' = faults + 1 /\ \E x : Unrecorded' \subseteq Unrecorded \union {x}
<1> USE DEF Pending, sessionVars, EndSession
<1>0. \A r : r \in Unrecorded' <=> r \in removed' /\ r \notin events' /\ ~ Pending(r)'
  BY DEF Unrecorded
<1>1. pc \in [Sessions -> Stages] /\ token \in [Sessions -> Tokens \union {NoToken}]
      /\ target \in [Sessions -> Paths \union {NoPath}]
  BY DEF CleanupInv, TypeOK
<1>2. ASSUME NEW s \in Sessions, Execution(s), UNCHANGED <<removed, events>>,
             \A k \in Sessions \ {s} : pc'[k] = pc[k] /\ token'[k] = token[k] /\ target'[k] = target[k]
      PROVE  Unrecorded' \subseteq Unrecorded \union
                 (IF pc[s] = "audit" THEN {<<token[s], target[s]>>} ELSE {})
  BY <1>0, <1>2, UnrecordedIs
<1>3. ASSUME NEW s \in Sessions, NEW a \in Admins, NEW t \in Tokens, StartExecute(s, a, t)
      PROVE  Unrecorded' \subseteq Unrecorded
  BY <1>0, <1>1, <1>3, UnrecordedIs DEF StartExecute
<1>4. ASSUME NEW s \in Sessions, NEW p \in Paths, Inspect(s, p)
      PROVE  Unrecorded' \subseteq Unrecorded
  BY <1>0, <1>1, <1>4, UnrecordedIs DEF Inspect
<1>5. ASSUME NEW s \in Sessions, Remove(s) PROVE Unrecorded' \subseteq Unrecorded
  BY <1>0, <1>1, <1>5, UnrecordedIs DEF Remove
<1>6. ASSUME NEW s \in Sessions, AuditDeletion(s) PROVE Unrecorded' \subseteq Unrecorded
  BY <1>0, <1>1, <1>6, UnrecordedIs DEF AuditDeletion
<1>7. ASSUME NEW s \in Sessions, TargetGone(s) \/ MarkExecuted(s)
      PROVE  Unrecorded' \subseteq Unrecorded
  BY <1>1, <1>2, <1>7 DEF TargetGone, MarkExecuted, Execution
<1>8. ASSUME NEW s \in Sessions, SessionFails(s) \/ RemoveFails(s)
      PROVE  faults' = faults + 1 /\ \E x : Unrecorded' \subseteq Unrecorded \union {x}
  <2>1. CASE SessionFails(s)
    BY <1>1, <1>2, <2>1 DEF SessionFails, Execution
  <2>2. CASE RemoveFails(s)
    <3>1. /\ removed' = removed \union {<<token[s], target[s]>>} /\ events' = events
          /\ \A k \in Sessions \ {s} : pc'[k] = pc[k] /\ token'[k] = token[k] /\ target'[k] = target[k]
          /\ pc[s] = "inspected"
      BY <1>1, <2>2 DEF RemoveFails
    <3>2. Unrecorded' \subseteq Unrecorded \union {<<token[s], target[s]>>}
      BY <1>0, <3>1, UnrecordedIs
    <3>3. faults' = faults + 1
      BY <2>2 DEF RemoveFails
    <3>4. QED
      BY <3>2, <3>3
  <2>3. faults' = faults + 1
    BY <1>8 DEF SessionFails, RemoveFails
  <2>4. QED
    BY <1>8, <2>1, <2>2, <2>3
<1>9. ASSUME UNCHANGED <<pc, token, target, removed, events>> PROVE Unrecorded' \subseteq Unrecorded
  BY <1>0, <1>9, UnrecordedIs
<1>10. QED
  BY <1>3, <1>4, <1>5, <1>6, <1>7, <1>8, <1>9
     DEF Next, Execution, vars, Tick, WriteOutput, CreatePreview

LEMMA AuditStep == ASSUME CleanupInv, AuditInv, [Next]_vars PROVE AuditInv'
<1> USE DEF AuditInv
<1>0. faults \in Nat /\ faults' \in Nat /\ faults <= faults'
  <2>1. CleanupInv'
    BY CleanupStep
  <2>2. faults \in Nat /\ faults' \in Nat
    BY <2>1, CleanupAssumption DEF CleanupInv, TypeOK
  <2>3. faults' = faults \/ faults' = faults + 1
    BY DEF Next, Execution, vars, Tick, WriteOutput, CreatePreview, StartExecute, Inspect, Remove,
           AuditDeletion, TargetGone, MarkExecuted, SessionFails, RemoveFails
  <2>4. QED
    BY <2>2, <2>3
<1>1. Cardinality(Unrecorded) \in Nat
  BY FS_CardinalityType
<1>2. CASE Unrecorded' \subseteq Unrecorded
  <2>1. IsFiniteSet(Unrecorded') /\ Cardinality(Unrecorded') <= Cardinality(Unrecorded)
    BY <1>2, FS_Subset
  <2>2. Cardinality(Unrecorded') \in Nat
    BY <2>1, FS_CardinalityType
  <2>3. QED
    BY <1>0, <1>1, <2>1, <2>2
<1>3. ASSUME NEW x, Unrecorded' \subseteq Unrecorded \union {x}, faults' = faults + 1
      PROVE  AuditInv'
  <2>1. /\ IsFiniteSet(Unrecorded \union {x})
        /\ Cardinality(Unrecorded \union {x}) \in Nat
        /\ Cardinality(Unrecorded \union {x}) <= Cardinality(Unrecorded) + 1
    BY <1>1, FS_AddElement
  <2>2. /\ IsFiniteSet(Unrecorded')
        /\ Cardinality(Unrecorded') <= Cardinality(Unrecorded \union {x})
    BY <1>3, <2>1, FS_Subset
  <2>3. Cardinality(Unrecorded') \in Nat
    BY <2>2, FS_CardinalityType
  <2>4. QED
    BY <1>0, <1>1, <1>3, <2>1, <2>2, <2>3
<1>4. QED
  BY <1>2, <1>3, UnrecordedStep

\* Each failed execution leaves at most one removal without its audit event.
THEOREM DeletionsAreAudited == Spec => []DeletionsAudited
<1>1. Init => AuditInv
  <2>1. Init => Unrecorded = {} /\ faults = 0
    BY DEF Init, Unrecorded
  <2>2. QED
    BY <2>1, FS_EmptySet DEF AuditInv
<1>2. CleanupInv /\ AuditInv /\ [Next]_vars => AuditInv'
  BY AuditStep
<1>3. AuditInv => DeletionsAudited
  BY DEF AuditInv, DeletionsAudited
<1>4. QED
  BY <1>1, <1>2, <1>3, CleanupInvariant, PTL DEF Spec

-----------------------------------------------------------------------------
(* How often a token is executed.                                          *)

Active(t) == {s \in Sessions : token[s] = t}

\* A token that was executed takes no new session; those under way each count.
TokenInv ==
    \A t \in Tokens : runs[t] > 0 =>
        /\ preview[t] # NoPreview /\ preview[t].executed
        /\ runs[t] + Cardinality(Active(t)) <= Cardinality(Sessions)

LEMMA ActiveFinite == \A t : IsFiniteSet(Active(t)) /\ Cardinality(Active(t)) \in Nat
                             /\ Cardinality(Sessions) \in Nat
<1>1. \A t : Active(t) \subseteq Sessions
  BY DEF Active
<1>2. QED
  BY <1>1, FS_Subset, FS_CardinalityType, CleanupAssumption

\* A step that starts no session and marks no token.
LEMMA TokenKept ==
    ASSUME TokenInv, NEW t \in Tokens, runs \in [Tokens -> Nat], runs'[t] = runs[t],
           preview'[t] = preview[t], Active(t)' \subseteq Active(t), runs'[t] > 0
    PROVE  /\ preview'[t] # NoPreview /\ preview'[t].executed
           /\ runs'[t] + Cardinality(Active(t)') <= Cardinality(Sessions)
<1>1. IsFiniteSet(Active(t)') /\ Cardinality(Active(t)') <= Cardinality(Active(t))
  BY ActiveFinite, FS_Subset
<1>2. Cardinality(Active(t)') \in Nat
  BY <1>1, FS_CardinalityType
<1>3. QED
  BY <1>1, <1>2, ActiveFinite DEF TokenInv

LEMMA TokenStep == ASSUME CleanupInv, TokenInv, [Next]_vars PROVE TokenInv'
<1> USE DEF sessionVars, EndSession
<1> SUFFICES ASSUME NEW t \in Tokens, runs'[t] > 0
             PROVE  /\ preview'[t] # NoPreview /\ preview'[t].executed
                    /\ runs'[t] + Cardinality(Active(t)') <= Cardinality(Sessions)
  BY DEF TokenInv
<1>0. /\ runs \in [Tokens -> Nat] /\ token \in [Sessions -> Tokens \union {NoToken}]
      /\ preview \in [Tokens -> Preview \union {NoPreview}] /\ NoToken \notin Tokens
  BY CleanupAssumption DEF CleanupInv, TypeOK
<1>1. CASE runs'[t] = runs[t] /\ preview'[t] = preview[t] /\ Active(t)' \subseteq Active(t)
  BY <1>0, <1>1, TokenKept
<1>2. ASSUME NEW a \in Admins, NEW k \in Tokens, NEW age \in Ages, CreatePreview(a, k, age)
      PROVE  runs'[t] = runs[t] /\ preview'[t] = preview[t] /\ Active(t)' \subseteq Active(t)
  BY <1>0, <1>2 DEF CreatePreview, TokenInv, Active
<1>3. ASSUME NEW s \in Sessions, NEW a \in Admins, NEW k \in Tokens, StartExecute(s, a, k)
      PROVE  runs'[t] = runs[t] /\ preview'[t] = preview[t] /\ Active(t)' \subseteq Active(t)
  BY <1>0, <1>3 DEF StartExecute, Executable, TokenInv, Active
<1>4. ASSUME NEW s \in Sessions, TargetGone(s) \/ SessionFails(s) \/ RemoveFails(s)
      PROVE  runs'[t] = runs[t] /\ preview'[t] = preview[t] /\ Active(t)' \subseteq Active(t)
  BY <1>0, <1>4 DEF TargetGone, SessionFails, RemoveFails, Active
<1>5. ASSUME NEW s \in Sessions, MarkExecuted(s), token[s] # t
      PROVE  runs'[t] = runs[t] /\ preview'[t] = preview[t] /\ Active(t)' \subseteq Active(t)
  BY <1>0, <1>5 DEF MarkExecuted, Active
<1>6. ASSUME NEW s \in Sessions, MarkExecuted(s), token[s] = t
      PROVE  /\ preview'[t] # NoPreview /\ preview'[t].executed
             /\ runs'[t] + Cardinality(Active(t)') <= Cardinality(Sessions)
  <2>1. preview[t] # NoPreview /\ preview[t] \in Preview
    BY <1>0, <1>6 DEF MarkExecuted, CleanupInv, SessionsOK
  <2>2. preview'[t] = [preview[t] EXCEPT !.executed = TRUE]
    BY <1>0, <1>6 DEF MarkExecuted
  <2>3. preview'[t] \in Preview /\ preview'[t].executed
    BY <2>1, <2>2 DEF Preview
  <2>4. s \in Active(t) /\ Active(t)' = Active(t) \ {s}
    BY <1>0, <1>6 DEF Active, MarkExecuted
  <2>5. Cardinality(Active(t)') = Cardinality(Active(t)) - 1
    BY <2>4, ActiveFinite, FS_RemoveElement
  <2>6. Cardinality(Active(t)) <= Cardinality(Sessions)
    BY FS_Subset, CleanupAssumption DEF Active
  <2>7. runs'[t] = runs[t] + 1 /\ runs[t] \in Nat
    BY <1>0, <1>6 DEF MarkExecuted
  <2>8. runs[t] > 0 => runs[t] + Cardinality(Active(t)) <= Cardinality(Sessions)
    BY DEF TokenInv
  <2>9. QED
    BY <2>3, <2>5, <2>6, <2>7, <2>8, ActiveFinite, NoPreviewAssumption
<1>7. ASSUME UNCHANGED <<runs, preview, token>>
      PROVE  runs'[t] = runs[t] /\ preview'[t] = preview[t] /\ Active(t)' \subseteq Active(t)
  BY <1>7 DEF Active
<1>8. QED
  BY <1>1, <1>2, <1>3, <1>4, <1>5, <1>6, <1>7
     DEF Next, Execution, vars, Tick, WriteOutput, Inspect, Remove, AuditDeletion

\* However requests overlap and fail, a token is executed at most once by each
\* of the sessions that passed the check before its first mark.
THEOREM ExecutionsAreBounded == Spec => []ExecutionsBounded
<1>1. Init => TokenInv
  BY DEF Init, TokenInv
<1>2. CleanupInv /\ TokenInv /\ [Next]_vars => TokenInv'
  BY TokenStep
<1>3. CleanupInv /\ TokenInv => ExecutionsBounded
  BY ActiveFinite DEF CleanupInv, TypeOK, TokenInv, ExecutionsBounded
<1>4. QED
  BY <1>1, <1>2, <1>3, CleanupInvariant, PTL DEF Spec
-----------------------------------------------------------------------------
(* The service under its clients.                                          *)

\* A failure of the client's: for the service, only the counter moves.
ClientFault ==
    /\ faults < MaxFaults /\ faults' = faults + 1
    /\ UNCHANGED <<clock, mtime, born, preview, sessionVars, removed, events, runs>>

\* What a client does is a step of the service, no step, or a failure of its own.
LEMMA ClientStep == ASSUME [ToolNext]_allVars PROVE [Next]_vars \/ ClientFault
<1>1. CASE UNCHANGED allVars
  BY <1>1 DEF allVars, vars
<1>2. CASE ToolNext
  <2>1. CASE (Tick \/ \E o \in Outputs : WriteOutput(o)) /\ UNCHANGED toolVars
    BY <2>1 DEF Next
  <2>2. ASSUME NEW a \in Admins, NEW t \in Tokens, NEW age \in Ages,
               ToolPreview(a, t, age) \/ GraphPreview(a, t, age)
        PROVE  [Next]_vars
    <3>1. CASE GraphPreview(a, t, age)
      BY <3>1 DEF GraphPreview, Next
    <3>2. CASE ToolPreview(a, t, age)
      BY <3>2, ToolAssumption DEF ToolPreview, Next
    <3>3. QED
      BY <2>2, <3>1, <3>2
  <2>3. ASSUME NEW s \in Sessions, NEW a \in Admins, NEW t \in Tokens, ToolExecute(s, a, t)
        PROVE  [Next]_vars
    BY <2>3 DEF ToolExecute, Next, Execution
  <2>4. ASSUME NEW s \in Sessions, NEW t \in Tokens, GraphExecute(s, t) PROVE [Next]_vars
    BY <2>4 DEF GraphExecute, Next, Execution
  <2>5. ASSUME NEW s \in Sessions, RequestTimesOut(s) \/ AuditFiles(s) PROVE UNCHANGED vars
    BY <2>5 DEF RequestTimesOut, AuditFiles
  <2>6. ASSUME NEW s \in Sessions, ServiceAnswers(s) \/ ServiceFails(s) \/ ServiceGoesOn(s)
        PROVE  [Next]_vars
    BY <2>6 DEF ServiceAnswers, ServiceFails, ServiceGoesOn, Next, Execution
  <2>7. ASSUME NEW s \in Sessions, NEW f \in Files,
               FindFile(s, f) \/ DeleteRow(s, f) \/ DeleteContent(s, f)
        PROVE  UNCHANGED vars
    BY <2>7 DEF FindFile, DeleteRow, DeleteContent
  <2>8. ASSUME NEW s \in Sessions, NEW f \in Files, DeletionFails(s, f) PROVE ClientFault
    BY <2>8 DEF DeletionFails, ClientFault
  <2>9. ASSUME NEW s \in Sessions, CallStops(s) PROVE ClientFault
    BY <2>9 DEF CallStops, ClientFault
  <2>10. QED
    BY <1>2, <2>1, <2>2, <2>3, <2>4, <2>5, <2>6, <2>7, <2>8, <2>9 DEF ToolNext
<1>3. QED
  BY <1>1, <1>2

\* The service's invariants hold under its clients too.
ServiceInv == CleanupInv /\ AuditInv /\ TokenInv

LEMMA ServiceStep == ASSUME ServiceInv, [ToolNext]_allVars PROVE ServiceInv'
<1> USE DEF ServiceInv
<1>1. CASE [Next]_vars
  BY <1>1, CleanupStep, AuditStep, TokenStep
<1>2. CASE ClientFault
  <2>1. CleanupInv'
    BY <1>2, CleanupAssumption
       DEF ClientFault, CleanupInv, TypeOK, RowsOK, SessionsOK, ListedOK, Exists, sessionVars
  <2>2. Unrecorded' = Unrecorded
    BY <1>2 DEF ClientFault, Unrecorded, sessionVars
  <2>3. Cardinality(Unrecorded) \in Nat /\ faults \in Nat
    BY FS_CardinalityType, CleanupAssumption DEF AuditInv, CleanupInv, TypeOK
  <2>4. AuditInv'
    BY <1>2, <2>2, <2>3 DEF ClientFault, AuditInv
  <2>5. \A t : Active(t)' = Active(t)
    BY <1>2 DEF ClientFault, Active, sessionVars
  <2>6. TokenInv'
    BY <1>2, <2>5 DEF ClientFault, TokenInv
  <2>7. QED
    BY <2>1, <2>4, <2>6
<1>3. QED
  BY <1>1, <1>2, ClientStep

LEMMA ServiceInvariant == ToolSpec => []ServiceInv
<1>1. ToolInit => ServiceInv
  <2>1. Init => CleanupInv
    BY CleanupAssumption
       DEF Init, CleanupInv, TypeOK, RowsOK, SessionsOK, ListedOK, Times, Stages, Absent
  <2>2. Init => Unrecorded = {} /\ faults = 0
    BY DEF Init, Unrecorded
  <2>3. Init => AuditInv /\ TokenInv
    BY <2>2, FS_EmptySet DEF AuditInv, Init, TokenInv
  <2>4. QED
    BY <2>1, <2>3 DEF ToolInit, ServiceInv
<1>2. QED
  BY <1>1, ServiceStep, PTL DEF ToolSpec

\* With the Tool and the cleanup graph as its clients the service keeps its
\* types, its audit trail and the bound on the executions of a token.
THEOREM ServiceKeepsItsInvariants == ToolSpec => [](TypeOK /\ DeletionsAudited /\ ExecutionsBounded)
<1>1. ServiceInv => TypeOK /\ DeletionsAudited /\ ExecutionsBounded
  BY ActiveFinite DEF ServiceInv, CleanupInv, TypeOK, AuditInv, DeletionsAudited, TokenInv,
                      ExecutionsBounded
<1>2. QED
  BY <1>1, ServiceInvariant, PTL

\* Under its clients, too, an execution removes what its preview listed or what
\* was written since ...
THEOREM ToolRemovesListedOrNew == ToolSpec => ListedOrNew
<1> DEFINE Step == \A o \in Outputs : Exists(o) /\ ~ Exists(o)' =>
          \E s \in Sessions :
             /\ pc[s] = "inspected"
             /\ LET row == preview[token[s]]
                IN  \/ o \in row.targets
                    \/ OwnerOf[o] \in row.targets /\ mtime[o] >= row.made
<1>1. ServiceInv /\ [ToolNext]_allVars => [Step]_vars
  <2> SUFFICES ASSUME ServiceInv, [ToolNext]_allVars, NEW o \in Outputs, Exists(o), ~ Exists(o)'
               PROVE  \E s \in Sessions :
                        /\ pc[s] = "inspected"
                        /\ \/ o \in preview[token[s]].targets
                           \/ /\ OwnerOf[o] \in preview[token[s]].targets
                              /\ mtime[o] >= preview[token[s]].made
    OBVIOUS
  <2>1. [Next]_vars
    BY ClientStep DEF ClientFault, Exists
  <2>2. PICK s \in Sessions : /\ pc[s] = "inspected"
                              /\ token[s] \in Tokens /\ preview[token[s]] # NoPreview
                              /\ target[s] \in preview[token[s]].targets
                              /\ o \in Below(target[s])
    BY <2>1, Removal DEF ServiceInv
  <2>3. o = target[s] \/ OwnerOf[o] = target[s]
    BY <2>2 DEF Below
  <2>4. OwnerOf[o] = target[s] => mtime[o] >= preview[token[s]].made
    BY <2>2 DEF ServiceInv, CleanupInv, ListedOK
  <2>5. QED
    BY <2>2, <2>3, <2>4
<1>2. QED
  BY <1>1, ServiceInvariant, PTL DEF ToolSpec, ListedOrNew

\* ... and what was old when it was listed.
THEOREM ToolRemovesOld == ToolSpec => OldWhenListed
<1> DEFINE Step == \A o \in Outputs : Exists(o) /\ ~ Exists(o)' =>
          \E s \in Sessions :
             LET row == preview[token[s]]
             IN  /\ pc[s] = "inspected"
                 /\ mtime[o] >= row.made \/ mtime[o] < row.made - MinAge
<1>1. ServiceInv /\ [ToolNext]_allVars => [Step]_vars
  <2> SUFFICES ASSUME ServiceInv, [ToolNext]_allVars, NEW o \in Outputs, Exists(o), ~ Exists(o)'
               PROVE  \E s \in Sessions :
                        /\ pc[s] = "inspected"
                        /\ \/ mtime[o] >= preview[token[s]].made
                           \/ mtime[o] < preview[token[s]].made - MinAge
    OBVIOUS
  <2>1. [Next]_vars
    BY ClientStep DEF ClientFault, Exists
  <2>2. PICK s \in Sessions : /\ pc[s] = "inspected"
                              /\ token[s] \in Tokens /\ preview[token[s]] # NoPreview
                              /\ target[s] \in preview[token[s]].targets
                              /\ o \in Below(target[s])
    BY <2>1, Removal DEF ServiceInv
  <2>3. QED
    BY <2>2 DEF Below, ServiceInv, CleanupInv, ListedOK
<1>2. QED
  BY <1>1, ServiceInvariant, PTL DEF ToolSpec, OldWhenListed

-----------------------------------------------------------------------------
(* The files of the Tool.                                                  *)

Calls == [stage : {"none", "waiting", "deleting"}, token : Tokens \union {NoToken},
          todo : SUBSET Files, at : SUBSET Files, rowless : BOOLEAN,
          done : SUBSET (Files \X Outcomes)]

\* A call that waits has the session of its token; one that deletes has none
\* any more, its preview is executed, and its files are the preview's.
CallOK(s) ==
    /\ call[s] \in Calls
    /\ \A f, g \in call[s].at : f = g
    /\ call[s].stage = "waiting" => /\ pc[s] # "idle" /\ call[s].token = token[s]
    /\ call[s].stage = "deleting" =>
           /\ pc[s] = "idle" /\ call[s].token \in Tokens
           /\ runs[call[s].token] > 0
           /\ call[s].todo \union call[s].at \subseteq fileIds[call[s].token]
    /\ call[s].stage # "deleting" => call[s].at = {} /\ call[s].done = {}
    /\ call[s].rowless => call[s].at # {} /\ \A f \in call[s].at : f \notin rows
    /\ \A f \in Files : <<f, "deleted">> \in call[s].done => f \notin rows \union stored

\* A preview lists files that were old then.
FileIdsOK(t) ==
    /\ fileIds[t] \in SUBSET Files
    /\ \A f \in fileIds[t] : /\ preview[t] # NoPreview
                             /\ CreatedAt[f] < preview[t].made - ValveAge

ToolInv ==
    /\ call \in [Sessions -> Calls] /\ \A s \in Sessions : CallOK(s)
    /\ fileIds \in [Tokens -> SUBSET Files] /\ \A t \in Tokens : FileIdsOK(t)
    /\ rows \in SUBSET Files /\ stored \in SUBSET Files /\ lost \in SUBSET Files
    /\ fileEvents \in SUBSET (Tokens \X Files \X Outcomes)

\* What a step of the service does to what a call relies on.
LEMMA PreviewKept ==
    ASSUME ServiceInv, [Next]_vars \/ ClientFault, NEW t \in Tokens
    PROVE  /\ runs[t] > 0 => runs'[t] > 0
           /\ preview[t] # NoPreview => preview'[t] # NoPreview /\ preview'[t].made = preview[t].made
           /\ faults \in Nat /\ faults' \in Nat /\ faults <= faults'
<1> USE DEF ServiceInv, CleanupInv, TypeOK, sessionVars, EndSession
<1>0. faults \in Nat /\ runs[t] \in Nat /\ preview[t] \in Preview \union {NoPreview}
  BY CleanupAssumption
<1>1. CASE UNCHANGED <<runs, preview>> /\ (faults' = faults \/ faults' = faults + 1)
  BY <1>0, <1>1
<1>2. ASSUME NEW a \in Admins, NEW k \in Tokens, NEW age \in Ages, CreatePreview(a, k, age)
      PROVE  /\ UNCHANGED <<runs, faults>>
             /\ preview[t] # NoPreview => preview'[t] = preview[t]
  BY <1>2 DEF CreatePreview
<1>3. ASSUME NEW s \in Sessions, MarkExecuted(s)
      PROVE  /\ runs[t] > 0 => runs'[t] > 0
             /\ preview[t] # NoPreview => preview'[t] # NoPreview /\ preview'[t].made = preview[t].made
             /\ faults' = faults
  <2>1. token[s] \in Tokens /\ preview[token[s]] # NoPreview
    BY <1>3 DEF MarkExecuted, SessionsOK
  <2>2. PICK row \in Preview :
            /\ preview' = [preview EXCEPT ![token[s]] = row]
            /\ row.targets = preview[token[s]].targets /\ row.made = preview[token[s]].made
    BY <1>3, <2>1, MarkRow DEF MarkExecuted
  <2>3. runs' = [runs EXCEPT ![token[s]] = @ + 1] /\ faults' = faults
    BY <1>3 DEF MarkExecuted
  <2>4. runs[t] > 0 => runs'[t] > 0
    BY <1>0, <2>3
  <2>5. QED
    BY <2>2, <2>3, <2>4, NoPreviewAssumption
<1>4. \/ UNCHANGED <<runs, preview>> /\ (faults' = faults \/ faults' = faults + 1)
      \/ (\E a \in Admins, k \in Tokens, age \in Ages : CreatePreview(a, k, age))
      \/ (\E s \in Sessions : MarkExecuted(s))
  BY DEF Next, Execution, vars, ClientFault, Tick, WriteOutput, StartExecute, Inspect, Remove,
         AuditDeletion, TargetGone, SessionFails, RemoveFails
<1>5. QED
  BY <1>0, <1>1, <1>2, <1>3, <1>4

\* A call that a step leaves as it is keeps what is known of it ...
LEMMA CallKept ==
    ASSUME ToolInv, ServiceInv, [Next]_vars \/ ClientFault, NEW s \in Sessions,
           call'[s] = call[s], (pc'[s] = "idle" <=> pc[s] = "idle") \/ call[s].stage = "none",
           token'[s] = token[s] \/ call[s].stage # "waiting",
           \A t \in Tokens : fileIds[t] # {} => fileIds'[t] = fileIds[t],
           rows' \subseteq rows, stored' \subseteq stored
    PROVE  CallOK(s)'
<1> USE DEF CallOK
<1>1. CallOK(s) /\ call[s] \in Calls
  BY DEF ToolInv
<1>2. CASE call[s].stage = "none"
  BY <1>1, <1>2
<1>3. CASE call[s].stage = "waiting"
  BY <1>1, <1>3
<1>4. CASE call[s].stage = "deleting"
  <2>1. call[s].token \in Tokens /\ runs'[call[s].token] > 0
    BY <1>1, <1>4, PreviewKept
  <2>2. call[s].todo \union call[s].at \subseteq fileIds'[call[s].token]
    BY <1>1, <1>4, <2>1
  <2>3. QED
    BY <1>1, <1>4, <2>1, <2>2
<1>5. QED
  BY <1>1, <1>2, <1>3, <1>4 DEF Calls

\* ... and so does a preview's list.
LEMMA FileIdsKept ==
    ASSUME ToolInv, ServiceInv, [Next]_vars \/ ClientFault, NEW t \in Tokens, fileIds'[t] = fileIds[t]
    PROVE  FileIdsOK(t)'
  BY PreviewKept DEF ToolInv, FileIdsOK

LEMMA NoCallOK == ASSUME NEW s \in Sessions, call'[s] = NoCall PROVE CallOK(s)'
  BY FS_EmptySet DEF CallOK, NoCall, Calls

\* The service's part of a step leaves the calls of other sessions alone.
LEMMA OtherSessions ==
    ASSUME ServiceInv, NEW s \in Sessions, Execution(s), NEW k \in Sessions \ {s}
    PROVE  pc'[k] = pc[k] /\ token'[k] = token[k]
  BY DEF ServiceInv, CleanupInv, TypeOK, Execution, StartExecute, Inspect, Remove, AuditDeletion,
         TargetGone, MarkExecuted, SessionFails, RemoveFails, EndSession, sessionVars

\* A step that leaves the Tool's variables alone.
LEMMA QuietStep ==
    ASSUME ToolInv, ServiceInv, [Next]_vars \/ ClientFault, UNCHANGED toolVars,
           \A s \in Sessions :
              /\ (pc'[s] = "idle" <=> pc[s] = "idle") \/ call[s].stage = "none"
              /\ token'[s] = token[s] \/ call[s].stage # "waiting"
    PROVE  ToolInv'
<1>1. \A s \in Sessions : CallOK(s)'
  BY CallKept DEF toolVars
<1>2. \A t \in Tokens : FileIdsOK(t)'
  BY FileIdsKept DEF toolVars
<1>3. QED
  BY <1>1, <1>2 DEF ToolInv, toolVars

\* A step of one call that the service takes no part in.
LEMMA CallAlone ==
    ASSUME ToolInv, ServiceInv, [Next]_vars \/ ClientFault, NEW s \in Sessions, NEW c,
           call' = [call EXCEPT ![s] = c], CallOK(s)', UNCHANGED <<sessionVars, fileIds>>,
           rows' \subseteq rows, stored' \subseteq stored, lost' \in SUBSET Files,
           fileEvents' \in SUBSET (Tokens \X Files \X Outcomes)
    PROVE  ToolInv'
<1>1. \A k \in Sessions \ {s} : CallOK(k)'
  BY CallKept DEF sessionVars, ToolInv
<1>2. \A k \in Sessions : CallOK(k)'
  BY <1>1
<1>3. \A t \in Tokens : FileIdsOK(t)'
  BY FileIdsKept
<1>4. call' \in [Sessions -> Calls]
  BY <1>2 DEF CallOK, ToolInv
<1>5. QED
  BY <1>2, <1>3, <1>4 DEF ToolInv

\* Every step keeps the invariant of the calls.
LEMMA ToolStep == ASSUME ToolInv, ServiceInv, [ToolNext]_allVars PROVE ToolInv'
<1>0. [Next]_vars \/ ClientFault
  BY ClientStep
<1>1. CASE UNCHANGED allVars
  BY <1>0, <1>1, QuietStep DEF allVars, vars, sessionVars
<1>2. CASE (Tick \/ \E o \in Outputs : WriteOutput(o)) /\ UNCHANGED toolVars
  BY <1>0, <1>2, QuietStep DEF Tick, WriteOutput, sessionVars
<1>3. ASSUME NEW a \in Admins, NEW t \in Tokens, NEW age \in Ages, ToolPreview(a, t, age)
      PROVE  ToolInv'
  <2>1. /\ preview[t] = NoPreview
        /\ preview' = [preview EXCEPT ![t] = preview'[t]] /\ preview'[t] # NoPreview
        /\ preview'[t].made = clock /\ UNCHANGED sessionVars
    <3>1. \E hours \in Ages : CreatePreview(a, t, hours)
      BY <1>3, ToolAssumption DEF ToolPreview
    <3>2. TypeOK /\ preview \in [Tokens -> Preview \union {NoPreview}]
      BY DEF ServiceInv, CleanupInv, TypeOK
    <3>3. UNCHANGED sessionVars
      BY <3>1 DEF CreatePreview
    <3>4. PICK row \in Preview : /\ preview[t] = NoPreview /\ preview' = [preview EXCEPT ![t] = row]
                                 /\ row.made = clock
      BY <3>1, <3>2, NewRow
    <3>5. preview'[t] = row
      BY <3>2, <3>4
    <3>6. QED
      BY <3>3, <3>4, <3>5, NoPreviewAssumption
  <2>2. UNCHANGED <<call, rows, stored, fileEvents, lost>>
        /\ fileIds' = [fileIds EXCEPT ![t] = StaleFiles(age)]
    BY <1>3 DEF ToolPreview
  <2>3. StaleFiles(age) \in SUBSET Files
        /\ \A f \in StaleFiles(age) : CreatedAt[f] < clock - ValveAge
    <3>1. rows \in SUBSET Files /\ clock \in Nat /\ age \in Nat /\ ValveAge \in Nat
      BY ToolAssumption, CleanupAssumption DEF ToolInv, ServiceInv, CleanupInv, TypeOK, Times
    <3>2. \A f \in Files : CreatedAt[f] \in Nat
      BY ToolAssumption
    <3>3. QED
      BY <3>1, <3>2 DEF StaleFiles
  <2>4. fileIds[t] = {}
    BY <2>1 DEF ToolInv, FileIdsOK
  <2>5. \A s \in Sessions : CallOK(s)'
    BY <1>0, <2>1, <2>2, <2>4, CallKept DEF sessionVars, ToolInv
  <2>6. \A k \in Tokens : FileIdsOK(k)'
    <3>1. FileIdsOK(t)'
      BY <2>1, <2>2, <2>3 DEF FileIdsOK, ToolInv
    <3>2. \A k \in Tokens \ {t} : FileIdsOK(k)'
      BY <1>0, <2>2, FileIdsKept DEF ToolInv
    <3>3. QED
      BY <3>1, <3>2
  <2>7. QED
    BY <2>2, <2>3, <2>5, <2>6 DEF ToolInv
<1>4. ASSUME NEW a \in Admins, NEW t \in Tokens, NEW age \in Ages, GraphPreview(a, t, age)
      PROVE  ToolInv'
  BY <1>0, <1>4, QuietStep DEF GraphPreview, CreatePreview, sessionVars
<1>5. ASSUME NEW s \in Sessions, NEW a \in Admins, NEW t \in Tokens, ToolExecute(s, a, t)
      PROVE  ToolInv'
  <2>1. StartExecute(s, a, t) /\ Execution(s)
    BY <1>5 DEF ToolExecute, Execution
  <2>2. pc'[s] = "removing" /\ token'[s] = t
    BY <2>1 DEF StartExecute, ServiceInv, CleanupInv, TypeOK
  <2>3. /\ call' = [call EXCEPT ![s] = [NoCall EXCEPT !.stage = "waiting", !.token = t]]
        /\ UNCHANGED <<fileIds, rows, stored, fileEvents, lost>>
    BY <1>5 DEF ToolExecute
  <2> DEFINE c == [NoCall EXCEPT !.stage = "waiting", !.token = t]
  <2>10. /\ c \in Calls /\ c.stage = "waiting" /\ c.token = t /\ c.at = {} /\ c.done = {}
         /\ ~ c.rowless
    BY DEF NoCall, Calls
  <2>11. call'[s] = c
    BY <2>3 DEF ToolInv
  <2>4. CallOK(s)'
    BY <2>2, <2>10, <2>11, FS_EmptySet DEF CallOK
  <2>5. \A k \in Sessions \ {s} : CallOK(k)'
    BY <1>0, <2>1, <2>3, OtherSessions, CallKept DEF ToolInv
  <2>6. \A k \in Sessions : CallOK(k)'
    BY <2>4, <2>5
  <2>7. \A k \in Tokens : FileIdsOK(k)'
    BY <1>0, <2>3, FileIdsKept
  <2>8. call' \in [Sessions -> Calls]
    BY <2>3, <2>6 DEF CallOK, ToolInv
  <2>9. QED
    BY <2>3, <2>6, <2>7, <2>8 DEF ToolInv
<1>6. ASSUME NEW s \in Sessions, NEW t \in Tokens, GraphExecute(s, t) PROVE ToolInv'
  <2>1. Execution(s) /\ call[s].stage = "none" /\ UNCHANGED toolVars
    BY <1>6 DEF GraphExecute, Execution
  <2>2. QED
    BY <1>0, <2>1, OtherSessions, QuietStep
<1>7. ASSUME NEW s \in Sessions, RequestTimesOut(s) PROVE ToolInv'
  <2>1. call' = [call EXCEPT ![s] = NoCall] /\ CallOK(s)'
    BY <1>7, NoCallOK DEF RequestTimesOut, ToolInv
  <2>2. QED
    BY <1>0, <1>7, <2>1, CallAlone DEF RequestTimesOut, ToolInv, vars, sessionVars
<1>8. ASSUME NEW s \in Sessions, ServiceAnswers(s) PROVE ToolInv'
  <2>1. Execution(s) /\ pc[s] = "removing" /\ token[s] \in Tokens
        /\ UNCHANGED <<fileIds, rows, stored, fileEvents, lost>>
    BY <1>8 DEF ServiceAnswers, Execution, MarkExecuted, ServiceInv, CleanupInv, SessionsOK
  <2>2. pc'[s] = "idle" /\ runs'[token[s]] > 0
    BY <1>8, <2>1 DEF ServiceAnswers, MarkExecuted, EndSession, ServiceInv, CleanupInv, TypeOK
  <2>3. CallOK(s)'
    <3>1. CASE call[s].stage = "waiting"
      <4>1. call'[s] = [call[s] EXCEPT !.stage = "deleting", !.todo = fileIds[token[s]]]
        BY <1>8, <3>1 DEF ServiceAnswers, FilesOf, ToolInv
      <4>2. call[s] \in Calls /\ CallOK(s)
        BY DEF ToolInv
      <4>3. /\ call'[s].stage = "deleting" /\ call'[s].token = token[s]
            /\ call'[s].todo = fileIds[token[s]] /\ call'[s].at = {} /\ call'[s].done = {}
            /\ call'[s] \in Calls /\ ~ call'[s].rowless
        BY <2>1, <3>1, <4>1, <4>2 DEF CallOK, Calls, ToolInv
      <4>4. QED
        BY <2>1, <2>2, <4>3, FS_EmptySet DEF CallOK
    <3>2. CASE call[s].stage # "waiting"
      <4>1. call'[s] = call[s] /\ CallOK(s)
        BY <1>8, <3>2 DEF ServiceAnswers, ToolInv
      <4>2. call[s].stage = "none"
        BY <2>1, <3>2, <4>1 DEF CallOK, Calls
      <4>3. QED
        BY <1>0, <2>1, <4>1, <4>2, CallKept
    <3>3. QED
      BY <3>1, <3>2
  <2>4. \A k \in Sessions \ {s} : CallOK(k)'
    <3>1. \A k \in Sessions \ {s} : call'[k] = call[k]
      BY <1>8 DEF ServiceAnswers, ToolInv
    <3>2. QED
      BY <1>0, <2>1, <3>1, OtherSessions, CallKept
  <2>5. \A k \in Sessions : CallOK(k)'
    BY <2>3, <2>4
  <2>6. \A k \in Tokens : FileIdsOK(k)'
    BY <1>0, <2>1, FileIdsKept
  <2>7. call' \in [Sessions -> Calls]
    BY <1>8, <2>5 DEF CallOK, ServiceAnswers, ToolInv
  <2>8. QED
    BY <2>1, <2>5, <2>6, <2>7 DEF ToolInv
<1>9. ASSUME NEW s \in Sessions, ServiceFails(s) PROVE ToolInv'
  <2>1. Execution(s) /\ call' = [call EXCEPT ![s] = NoCall]
        /\ UNCHANGED <<fileIds, rows, stored, fileEvents, lost>>
    BY <1>9 DEF ServiceFails, Execution
  <2>2. \A k \in Sessions \ {s} : CallOK(k)'
    BY <1>0, <2>1, OtherSessions, CallKept DEF ToolInv
  <2>3. \A k \in Sessions : CallOK(k)'
    BY <2>1, <2>2, NoCallOK DEF ToolInv
  <2>4. \A k \in Tokens : FileIdsOK(k)'
    BY <1>0, <2>1, FileIdsKept
  <2>5. call' \in [Sessions -> Calls]
    BY <2>1, <2>3 DEF CallOK, ToolInv
  <2>6. QED
    BY <2>1, <2>3, <2>4, <2>5 DEF ToolInv
<1>10. ASSUME NEW s \in Sessions, ServiceGoesOn(s) PROVE ToolInv'
  <2>1. UNCHANGED toolVars /\ Execution(s)
    BY <1>10 DEF ServiceGoesOn, Execution
  <2>2. /\ pc[s] # "idle" /\ pc'[s] # "idle" /\ token'[s] = token[s]
    BY <1>10 DEF ServiceGoesOn, Inspect, Remove, AuditDeletion, ServiceInv, CleanupInv, TypeOK
  <2>3. QED
    BY <1>0, <2>1, <2>2, OtherSessions, QuietStep
<1>11. ASSUME NEW s \in Sessions, NEW f \in Files, FindFile(s, f) PROVE ToolInv'
  <2>1. call[s] \in Calls /\ CallOK(s)
    BY DEF ToolInv
  <2> DEFINE c == [call[s] EXCEPT !.todo = @ \ {f}, !.at = IF f \in rows THEN {f} ELSE {},
                                  !.done = IF f \in rows THEN @ ELSE @ \union {<<f, "failed">>}]
  <2>2. call' = [call EXCEPT ![s] = c] /\ f \in call[s].todo /\ call[s].stage = "deleting"
        /\ UNCHANGED <<vars, fileIds, rows, stored, fileEvents, lost>>
    BY <1>11 DEF FindFile, ToolInv
  <2>3. /\ c.stage = "deleting" /\ c.token = call[s].token /\ c.todo \subseteq call[s].todo
        /\ c.at \subseteq {f} /\ c \in Calls
        /\ c.done \subseteq call[s].done \union {<<f, "failed">>} /\ ~ c.rowless
    <3>0. call[s].at = {} /\ ~ call[s].rowless
      BY <1>11, <2>1 DEF FindFile, CallOK
    <3>1. CASE f \in rows
      <4>1. c = [call[s] EXCEPT !.todo = @ \ {f}, !.at = {f}]
        BY <2>1, <3>1 DEF Calls
      <4>2. QED
        BY <2>1, <2>2, <3>0, <4>1 DEF Calls
    <3>2. CASE f \notin rows
      <4>1. c = [call[s] EXCEPT !.todo = @ \ {f}, !.at = {}, !.done = @ \union {<<f, "failed">>}]
        BY <2>1, <3>2 DEF Calls
      <4>2. call[s].done \union {<<f, "failed">>} \in SUBSET (Files \X Outcomes)
        BY <2>1 DEF Calls, Outcomes
      <4>3. QED
        BY <2>1, <2>2, <3>0, <4>1, <4>2 DEF Calls
    <3>3. QED
      BY <3>1, <3>2
  <2>4. \A g, h \in c.at : g = h
    BY <2>3
  <2>5. call'[s] = c
    BY <2>2 DEF ToolInv
  <2>6. CallOK(s)'
    BY <2>1, <2>2, <2>3, <2>4, <2>5 DEF CallOK, vars, sessionVars
  <2>7. QED
    BY <1>0, <2>2, <2>6, CallAlone DEF vars, ToolInv
<1>12. ASSUME NEW s \in Sessions, NEW f \in Files, DeleteContent(s, f) \/ DeletionFails(s, f)
       PROVE  ToolInv'
  <2>1. call[s] \in Calls /\ CallOK(s)
    BY DEF ToolInv
  <2>2. PICK outcome \in Outcomes :
            /\ call' = [call EXCEPT ![s].at = {}, ![s].rowless = FALSE,
                                    ![s].done = @ \union {<<f, outcome>>}]
            /\ outcome = "deleted" => stored' = stored \ {f} /\ call[s].rowless
    BY <1>12 DEF DeleteContent, DeletionFails, Treat, Outcomes
  <2>3. /\ f \in call[s].at /\ rows' = rows /\ stored' \subseteq stored
        /\ UNCHANGED <<fileIds, fileEvents, lost, sessionVars, runs>>
    BY <1>12 DEF DeleteContent, DeletionFails, vars
  <2> DEFINE c == [call[s] EXCEPT !.at = {}, !.rowless = FALSE, !.done = @ \union {<<f, outcome>>}]
  <2>4. call' = [call EXCEPT ![s] = c]
    BY <2>2 DEF ToolInv
  <2>5. /\ c.stage = call[s].stage /\ c.token = call[s].token /\ c.todo = call[s].todo /\ c.at = {}
        /\ c.done = call[s].done \union {<<f, outcome>>} /\ c \in Calls
    <3>1. call[s].done \union {<<f, outcome>>} \in SUBSET (Files \X Outcomes)
      BY <2>1 DEF Calls
    <3>2. QED
      BY <2>1, <3>1 DEF Calls
  <2>6. call'[s] = c /\ call[s].stage = "deleting"
    BY <2>1, <2>3, <2>4 DEF ToolInv, CallOK
  <2>7. CallOK(s)'
    <3>1. (\A g, h \in c.at : g = h) /\ ~ c.rowless
      BY <2>1, <2>5 DEF Calls
    <3>2. /\ pc'[s] = "idle" /\ c.token \in Tokens /\ runs'[c.token] > 0
          /\ c.todo \union c.at \subseteq fileIds'[c.token]
      BY <2>1, <2>3, <2>5, <2>6 DEF CallOK, sessionVars
    <3>3. \A g \in Files : <<g, "deleted">> \in c.done => g \notin rows' \union stored'
      <4>1. \A g \in Files : <<g, "deleted">> \in call[s].done => g \notin rows \union stored
        BY <2>1 DEF CallOK
      <4>2. outcome = "deleted" => f \notin rows' \union stored'
        BY <2>1, <2>2, <2>3 DEF CallOK
      <4>3. QED
        BY <2>3, <2>5, <4>1, <4>2
    <3>4. QED
      BY <2>5, <2>6, <3>1, <3>2, <3>3 DEF CallOK
  <2>8. QED
    BY <1>0, <2>3, <2>4, <2>7, CallAlone DEF ToolInv
<1>13. ASSUME NEW s \in Sessions, AuditFiles(s) \/ CallStops(s) PROVE ToolInv'
  <2>1. /\ call' = [call EXCEPT ![s] = NoCall] /\ call[s].stage = "deleting"
        /\ UNCHANGED <<fileIds, rows, stored, sessionVars>>
    BY <1>13 DEF AuditFiles, CallStops, vars
  <2>2. call[s] \in Calls /\ call[s].token \in Tokens
    BY <2>1 DEF ToolInv, CallOK
  <2>3. lost' \in SUBSET Files
    BY <1>13, <2>2 DEF AuditFiles, CallStops, Treated, InHand, Calls, ToolInv
  <2>4. fileEvents' \in SUBSET (Tokens \X Files \X Outcomes)
    BY <1>13, <2>2 DEF AuditFiles, CallStops, Calls, ToolInv
  <2>5. CallOK(s)'
    BY <2>1, NoCallOK DEF ToolInv
  <2>6. QED
    BY <1>0, <2>1, <2>3, <2>4, <2>5, CallAlone
<1>14. ASSUME NEW s \in Sessions, NEW f \in Files, DeleteRow(s, f) PROVE ToolInv'
  <2>1. call[s] \in Calls /\ CallOK(s)
    BY DEF ToolInv
  <2>2. /\ f \in call[s].at /\ rows' = rows \ {f}
        /\ UNCHANGED <<fileIds, stored, fileEvents, lost, sessionVars, runs>>
    BY <1>14 DEF DeleteRow, vars
  <2> DEFINE c == [call[s] EXCEPT !.rowless = TRUE]
  <2>3. call' = [call EXCEPT ![s] = c]
    BY <1>14 DEF DeleteRow, ToolInv
  <2>4. /\ c.stage = call[s].stage /\ c.token = call[s].token /\ c.todo = call[s].todo
        /\ c.at = call[s].at /\ c.done = call[s].done /\ c \in Calls /\ c.rowless
    BY <2>1 DEF Calls
  <2>5. call'[s] = c /\ call[s].stage = "deleting"
    BY <2>1, <2>2, <2>3 DEF ToolInv, CallOK
  <2>6. \A g \in call'[s].at : g \notin rows'
    BY <2>1, <2>2, <2>4, <2>5 DEF CallOK
  <2>7. CallOK(s)'
    BY <2>1, <2>2, <2>4, <2>5, <2>6 DEF CallOK, sessionVars
  <2>8. QED
    BY <1>0, <2>2, <2>3, <2>7, CallAlone DEF ToolInv
<1>15. QED
  BY <1>1, <1>2, <1>3, <1>4, <1>5, <1>6, <1>7, <1>8, <1>9, <1>10, <1>11, <1>12, <1>13, <1>14
     DEF ToolNext

LEMMA ToolInvariant == ToolSpec => [](ToolInv /\ ServiceInv)
<1>1. ToolInit => ToolInv
  <2> SUFFICES ASSUME ToolInit PROVE ToolInv
    OBVIOUS
  <2>1. \A s \in Sessions : call[s] = NoCall /\ CallOK(s)
    BY DEF ToolInit, CallOK, NoCall, Calls
  <2>2. call \in [Sessions -> Calls]
    BY <2>1 DEF ToolInit, CallOK
  <2>3. QED
    BY <2>1, <2>2 DEF ToolInit, ToolInv, FileIdsOK
<1>2. ToolInv /\ ServiceInv /\ [ToolNext]_allVars => ToolInv'
  BY ToolStep
<1>3. QED
  BY <1>1, <1>2, ServiceInvariant, PTL DEF ToolSpec

\* Type correctness of the Tool.
THEOREM ToolTypeCorrect == ToolSpec => []ToolTypeOK
<1>1. ToolInv => ToolTypeOK
  BY DEF ToolInv, ToolTypeOK, Calls, CallOK
<1>2. QED
  BY <1>1, ToolInvariant, PTL

\* A row goes only in a call whose preview listed the file when it was old.
THEOREM OnlyApprovedFilesGo == ToolSpec => OnlyApprovedFiles
<1> DEFINE Step == \A f \in rows \ rows' :
          \E s \in Sessions :
             LET t == call[s].token
             IN  /\ call[s].stage = "deleting"
                 /\ runs[t] > 0 /\ preview[t].executed
                 /\ f \in fileIds[t] /\ CreatedAt[f] < preview[t].made - ValveAge
<1>1. ToolInv /\ ServiceInv /\ [ToolNext]_allVars => [Step]_allVars
  <2> SUFFICES ASSUME ToolInv, ServiceInv, [ToolNext]_allVars, NEW f \in rows, f \notin rows'
               PROVE  \E s \in Sessions :
                        /\ call[s].stage = "deleting"
                        /\ runs[call[s].token] > 0 /\ preview[call[s].token].executed
                        /\ f \in fileIds[call[s].token]
                        /\ CreatedAt[f] < preview[call[s].token].made - ValveAge
    OBVIOUS
  <2>1. UNCHANGED rows \/ \E s \in Sessions, g \in Files : DeleteRow(s, g)
    BY DEF ToolNext, allVars, toolVars, ToolPreview, GraphPreview, ToolExecute, GraphExecute,
           RequestTimesOut, ServiceAnswers, ServiceFails, ServiceGoesOn, FindFile, DeleteContent,
           DeletionFails, AuditFiles, CallStops
  <2>2. PICK s \in Sessions, g \in Files : DeleteRow(s, g)
    BY <2>1
  <2>3. g = f /\ f \in call[s].at
    BY <2>2 DEF DeleteRow
  <2>4. CallOK(s) /\ call[s] \in Calls
    BY DEF ToolInv
  <2>5. /\ call[s].stage = "deleting" /\ call[s].token \in Tokens
        /\ runs[call[s].token] > 0 /\ f \in fileIds[call[s].token]
    BY <2>3, <2>4 DEF CallOK
  <2>6. preview[call[s].token].executed /\ CreatedAt[f] < preview[call[s].token].made - ValveAge
    BY <2>5 DEF ToolInv, FileIdsOK, ServiceInv, TokenInv
  <2>7. QED
    BY <2>5, <2>6
<1>2. QED
  BY <1>1, ToolInvariant, PTL DEF ToolSpec, OnlyApprovedFiles

-----------------------------------------------------------------------------
(* Their audit trail and their contents.                                   *)

\* A step never loses track of a file whose row is gone.
LEMMA FilesAuditedStep ==
    ASSUME ToolInv, ServiceInv, FilesAudited, [ToolNext]_allVars PROVE FilesAudited'
<1> USE DEF FilesAudited
<1>0. /\ call \in [Sessions -> Calls] /\ rows \in SUBSET Files /\ stored \in SUBSET Files
      /\ \A s \in Sessions : call[s] \in Calls /\ CallOK(s)
  BY DEF ToolInv
<1>1. ASSUME UNCHANGED <<rows, stored, fileEvents, lost>>,
             \A s \in Sessions : call'[s].done = call[s].done /\ InHand(s) \subseteq InHand(s)'
      PROVE  FilesAudited'
  BY <1>1 DEF Treated
<1>2. ASSUME UNCHANGED <<rows, stored, fileEvents, lost>>, NEW s \in Sessions,
             call[s].stage # "deleting", NEW c, c.done = {}, call' = [call EXCEPT ![s] = c]
      PROVE  FilesAudited'
  <2>1. call[s].done = {} /\ InHand(s) = {}
    BY <1>0, <1>2 DEF CallOK, InHand
  <2>2. \A k \in Sessions : call'[k].done = call[k].done /\ InHand(k) \subseteq InHand(k)'
    BY <1>0, <1>2, <2>1 DEF InHand
  <2>3. QED
    BY <1>1, <1>2, <2>2
<1>3. ASSUME NEW s \in Sessions, NEW f \in Files, FindFile(s, f) PROVE FilesAudited'
  <2>1. UNCHANGED <<rows, stored, fileEvents, lost>>
    BY <1>3 DEF FindFile
  <2>2. call[s].done \subseteq call'[s].done /\ \A k \in Sessions \ {s} : call'[k] = call[k]
    BY <1>0, <1>3 DEF FindFile, Calls
  <2>3. \A k \in Sessions : Treated(k) \subseteq Treated(k)'
    BY <2>2 DEF Treated
  <2>4. InHand(s) = {}
    BY <1>3 DEF FindFile, InHand
  <2>5. \A k \in Sessions : InHand(k) \subseteq InHand(k)'
    BY <2>2, <2>4 DEF InHand
  <2>6. QED
    BY <2>1, <2>3, <2>5
<1>4. ASSUME NEW s \in Sessions, NEW f \in Files, DeleteContent(s, f) \/ DeletionFails(s, f)
      PROVE  FilesAudited'
  <2>1. rows' = rows /\ stored' \subseteq stored /\ UNCHANGED <<fileEvents, lost>>
    BY <1>4 DEF DeleteContent, DeletionFails
  <2>2. PICK outcome \in Outcomes : call'[s].done = call[s].done \union {<<f, outcome>>}
    BY <1>0, <1>4 DEF DeleteContent, DeletionFails, Treat, Outcomes, Calls
  <2>3. \A k \in Sessions \ {s} : call'[k] = call[k]
    BY <1>0, <1>4 DEF DeleteContent, DeletionFails, Treat
  <2>4. \A k \in Sessions : Treated(k) \subseteq Treated(k)'
    BY <2>2, <2>3 DEF Treated
  <2>5. InHand(s) \subseteq Treated(s)' /\ \A k \in Sessions \ {s} : InHand(k)' = InHand(k)
    <3>1. <<f, outcome>> \in call'[s].done
      BY <2>2
    <3>2. InHand(s) \subseteq {f}
      BY <1>0, <1>4 DEF DeleteContent, DeletionFails, CallOK, InHand
    <3>3. QED
      BY <2>3, <3>1, <3>2 DEF Treated, InHand
  <2>6. QED
    BY <2>1, <2>4, <2>5
<1>5. ASSUME NEW s \in Sessions, AuditFiles(s) PROVE FilesAudited'
  <2>1. /\ UNCHANGED <<rows, stored, lost>> /\ call[s].stage = "deleting"
        /\ fileEvents' = fileEvents \union {<<call[s].token, d[1], d[2]>> : d \in call[s].done}
        /\ \A k \in Sessions \ {s} : call'[k] = call[k]
    BY <1>0, <1>5 DEF AuditFiles
  <2>2. call[s].token \in Tokens
    BY <1>0, <2>1 DEF CallOK
  <2>3. \A f \in Treated(s) : \E t \in Tokens, outcome \in Outcomes : <<t, f, outcome>> \in fileEvents'
    <3>1. \A d \in call[s].done : <<call[s].token, d[1], d[2]>> \in fileEvents' /\ d[2] \in Outcomes
      BY <1>0, <2>1 DEF Calls
    <3>2. QED
      BY <2>2, <3>1 DEF Treated
  <2>4. InHand(s) = {} /\ \A k \in Sessions \ {s} : Treated(k)' = Treated(k) /\ InHand(k)' = InHand(k)
    BY <1>5, <2>1 DEF AuditFiles, Treated, InHand
  <2>5. \A event \in fileEvents' : event[3] = "deleted" => event[2] \notin rows \union stored
    <3>1. ASSUME NEW d \in call[s].done, d[2] = "deleted" PROVE d[1] \notin rows \union stored
      <4>1. d \in Files \X Outcomes
        BY <1>0 DEF Calls
      <4>2. d = <<d[1], "deleted">> /\ d[1] \in Files
        BY <3>1, <4>1
      <4>3. QED
        BY <1>0, <3>1, <4>2 DEF CallOK
    <3>2. QED
      BY <2>1, <3>1
  <2>6. \A f \in Files \ rows :
           \/ f \in lost
           \/ \E k \in Sessions : f \in (Treated(k) \union InHand(k))'
           \/ \E t \in Tokens, outcome \in Outcomes : <<t, f, outcome>> \in fileEvents'
    BY <2>1, <2>3, <2>4
  <2>7. QED
    BY <2>1, <2>5, <2>6
<1>6. ASSUME NEW s \in Sessions, CallStops(s) PROVE FilesAudited'
  <2>1. /\ UNCHANGED <<rows, stored, fileEvents>> /\ lost' = lost \union Treated(s) \union InHand(s)
        /\ \A k \in Sessions \ {s} : call'[k] = call[k]
    BY <1>0, <1>6 DEF CallStops
  <2>2. \A k \in Sessions \ {s} : Treated(k)' = Treated(k) /\ InHand(k)' = InHand(k)
    BY <2>1 DEF Treated, InHand
  <2>3. QED
    BY <2>1, <2>2
<1>7. ASSUME NEW s \in Sessions, NEW a \in Admins, NEW t \in Tokens, ToolExecute(s, a, t)
      PROVE  FilesAudited'
  BY <1>2, <1>7 DEF ToolExecute, NoCall
<1>8. ASSUME NEW s \in Sessions, RequestTimesOut(s) PROVE FilesAudited'
  BY <1>2, <1>8 DEF RequestTimesOut, NoCall
<1>9. ASSUME NEW s \in Sessions, ServiceAnswers(s) PROVE FilesAudited'
  <2>1. UNCHANGED <<rows, stored, fileEvents, lost>>
    BY <1>9 DEF ServiceAnswers
  <2>2. \A k \in Sessions : /\ call'[k].done = call[k].done /\ call'[k].at = call[k].at
                            /\ call'[k].rowless = call[k].rowless
    BY <1>0, <1>9 DEF ServiceAnswers, Calls
  <2>3. QED
    BY <1>1, <2>1, <2>2 DEF InHand
<1>10. ASSUME NEW s \in Sessions, ServiceFails(s) PROVE FilesAudited'
  <2>1. pc[s] # "idle"
    BY <1>10 DEF ServiceFails, TargetGone, SessionFails, RemoveFails
  <2>2. call[s].stage # "deleting"
    BY <1>0, <2>1 DEF CallOK
  <2>3. QED
    BY <1>2, <1>10, <2>2 DEF ServiceFails, NoCall
<1>11. ASSUME UNCHANGED <<call, rows, stored, fileEvents, lost>> PROVE FilesAudited'
  BY <1>1, <1>11 DEF InHand
<1>12. ASSUME NEW s \in Sessions, NEW f \in Files, DeleteRow(s, f) PROVE FilesAudited'
  <2>1. rows' = rows \ {f} /\ f \in call[s].at /\ UNCHANGED <<stored, fileEvents, lost>>
    BY <1>12 DEF DeleteRow
  <2>2. /\ call'[s].done = call[s].done /\ call'[s].at = call[s].at /\ call'[s].rowless
        /\ \A k \in Sessions \ {s} : call'[k] = call[k]
    BY <1>0, <1>12 DEF DeleteRow, Calls
  <2>3. f \in InHand(s)' /\ \A k \in Sessions : Treated(k)' = Treated(k) /\ InHand(k) \subseteq InHand(k)'
    BY <2>1, <2>2 DEF Treated, InHand
  <2>4. QED
    BY <2>1, <2>3
<1>13. QED
  BY <1>3, <1>4, <1>5, <1>6, <1>7, <1>8, <1>9, <1>10, <1>11, <1>12
     DEF ToolNext, allVars, toolVars, ToolPreview, GraphPreview, GraphExecute, ServiceGoesOn

\* A file whose row is gone is in the audit trail, or in the hands of a call,
\* unless that call was stopped; a recorded deletion is complete.
THEOREM FilesAreAudited == ToolSpec => []FilesAudited
<1>1. ToolInit => FilesAudited
  BY DEF ToolInit, FilesAudited
<1>2. ToolInv /\ ServiceInv /\ FilesAudited /\ [ToolNext]_allVars => FilesAudited'
  BY FilesAuditedStep
<1>3. QED
  BY <1>1, <1>2, ToolInvariant, PTL DEF ToolSpec

LEMMA AddOne ==
    ASSUME NEW S, NEW x, IsFiniteSet(S)
    PROVE  /\ IsFiniteSet(S \union {x}) /\ Cardinality(S \union {x}) \in Nat
           /\ Cardinality(S \union {x}) <= Cardinality(S) + 1
<1>1. Cardinality(S) \in Nat
  BY FS_CardinalityType
<1>2. CASE x \in S
  <2>1. S \union {x} = S
    BY <1>2
  <2>2. Cardinality(S) <= Cardinality(S) + 1
    BY <1>1
  <2>3. QED
    BY <1>1, <2>1, <2>2, Zenon
<1>3. CASE x \notin S
  <2>1. IsFiniteSet(S \union {x}) /\ Cardinality(S \union {x}) = Cardinality(S) + 1
    BY <1>3, FS_AddElement, Zenon
  <2>2. QED
    BY <1>1, <2>1
<1>4. QED
  BY <1>2, <1>3

\* What each step does to the contents that nobody is about to delete.
LEMMA LeaksAre == \A f : f \in Leaks <=> f \in stored /\ f \notin rows /\ \A s \in Sessions : f \notin InHand(s)
  BY DEF Leaks

LEMMA LeaksStep ==
    ASSUME ToolInv, ServiceInv, [ToolNext]_allVars
    PROVE  \/ Leaks' \subseteq Leaks
           \/ faults' = faults + 1 /\ \E x : Leaks' \subseteq Leaks \union {x}
<1>0. /\ call \in [Sessions -> Calls]
      /\ \A s \in Sessions : call[s] \in Calls /\ CallOK(s)
  BY DEF ToolInv
<1>1. \A f : f \in Leaks' <=> f \in stored' /\ f \notin rows' /\ \A s \in Sessions : f \notin InHand(s)'
  BY DEF Leaks
<1>2. ASSUME stored' \subseteq stored, rows' = rows, \A s \in Sessions : InHand(s) \subseteq InHand(s)'
      PROVE  Leaks' \subseteq Leaks
  BY <1>1, <1>2, LeaksAre
<1>3. ASSUME UNCHANGED <<rows, stored>>, NEW s \in Sessions, call[s].stage # "deleting",
             NEW c, call' = [call EXCEPT ![s] = c]
      PROVE  Leaks' \subseteq Leaks
  <2>1. InHand(s) = {} /\ \A k \in Sessions \ {s} : call'[k] = call[k]
    BY <1>0, <1>3 DEF CallOK, InHand
  <2>2. QED
    BY <1>2, <1>3, <2>1 DEF InHand
<1>4. ASSUME NEW s \in Sessions, (\E f \in Files : FindFile(s, f)) \/ AuditFiles(s)
      PROVE  Leaks' \subseteq Leaks
  <2>1. InHand(s) = {} /\ UNCHANGED <<rows, stored>> /\ \A k \in Sessions \ {s} : call'[k] = call[k]
    BY <1>0, <1>4 DEF FindFile, AuditFiles, InHand
  <2>2. QED
    BY <1>2, <2>1 DEF InHand
<1>5. ASSUME NEW s \in Sessions, NEW f \in Files, DeleteRow(s, f) PROVE Leaks' \subseteq Leaks
  <2>1. /\ rows' = rows \ {f} /\ stored' = stored /\ f \in call[s].at
        /\ call'[s].at = call[s].at /\ call'[s].rowless
        /\ \A k \in Sessions \ {s} : call'[k] = call[k]
    BY <1>0, <1>5 DEF DeleteRow, Calls
  <2>2. f \in InHand(s)' /\ \A k \in Sessions : InHand(k) \subseteq InHand(k)'
    BY <2>1 DEF InHand
  <2>3. QED
    BY <1>1, <2>1, <2>2, LeaksAre
<1>6. ASSUME NEW s \in Sessions, NEW f \in Files, DeleteContent(s, f) PROVE Leaks' \subseteq Leaks
  <2>1. /\ rows' = rows /\ stored' = stored \ {f} /\ InHand(s) \subseteq {f}
        /\ \A k \in Sessions \ {s} : call'[k] = call[k]
    BY <1>0, <1>6 DEF DeleteContent, Treat, CallOK, InHand
  <2>2. QED
    BY <1>1, <2>1, LeaksAre DEF InHand
<1>7. ASSUME NEW s \in Sessions, NEW f \in Files, DeletionFails(s, f)
      PROVE  faults' = faults + 1 /\ \E x : Leaks' \subseteq Leaks \union {x}
  <2>1. /\ rows' = rows /\ stored' \subseteq stored /\ InHand(s) \subseteq {f}
        /\ \A k \in Sessions \ {s} : call'[k] = call[k]
    BY <1>0, <1>7 DEF DeletionFails, Treat, CallOK, InHand
  <2>2. Leaks' \subseteq Leaks \union {f}
    BY <1>1, <2>1, LeaksAre DEF InHand
  <2>3. faults' = faults + 1
    BY <1>7 DEF DeletionFails
  <2>4. QED
    BY <2>2, <2>3
<1>8. ASSUME NEW s \in Sessions, CallStops(s)
      PROVE  faults' = faults + 1 /\ \E x : Leaks' \subseteq Leaks \union {x}
  <2>1. /\ UNCHANGED <<rows, stored>> /\ \A k \in Sessions \ {s} : call'[k] = call[k]
    BY <1>0, <1>8 DEF CallStops
  <2>2. PICK x : InHand(s) \subseteq {x}
    BY <1>0 DEF CallOK, InHand
  <2>3. Leaks' \subseteq Leaks \union {x}
    BY <1>1, <2>1, <2>2, LeaksAre DEF InHand
  <2>4. faults' = faults + 1
    BY <1>8 DEF CallStops
  <2>5. QED
    BY <2>3, <2>4
<1>9. ASSUME NEW s \in Sessions, NEW a \in Admins, NEW t \in Tokens, ToolExecute(s, a, t)
      PROVE  Leaks' \subseteq Leaks
  BY <1>3, <1>9 DEF ToolExecute
<1>10. ASSUME NEW s \in Sessions, RequestTimesOut(s) PROVE Leaks' \subseteq Leaks
  BY <1>3, <1>10 DEF RequestTimesOut
<1>11. ASSUME NEW s \in Sessions, ServiceAnswers(s) PROVE Leaks' \subseteq Leaks
  <2>1. /\ UNCHANGED <<rows, stored>>
        /\ \A k \in Sessions : call'[k].at = call[k].at /\ call'[k].rowless = call[k].rowless
    BY <1>0, <1>11 DEF ServiceAnswers, Calls
  <2>2. QED
    BY <1>2, <2>1 DEF InHand
<1>12. ASSUME NEW s \in Sessions, ServiceFails(s) PROVE Leaks' \subseteq Leaks
  <2>1. pc[s] # "idle"
    BY <1>12 DEF ServiceFails, TargetGone, SessionFails, RemoveFails
  <2>2. call[s].stage # "deleting"
    BY <1>0, <2>1 DEF CallOK
  <2>3. QED
    BY <1>3, <1>12, <2>2 DEF ServiceFails
<1>13. ASSUME UNCHANGED <<call, rows, stored>> PROVE Leaks' \subseteq Leaks
  BY <1>2, <1>13 DEF InHand
<1>14. QED
  BY <1>4, <1>5, <1>6, <1>7, <1>8, <1>9, <1>10, <1>11, <1>12, <1>13
     DEF ToolNext, allVars, toolVars, ToolPreview, GraphPreview, GraphExecute, ServiceGoesOn

\* A failure or a stop adds one content at most.
LEMMA LeaksKept ==
    ASSUME ToolInv, ServiceInv, ContentLeaksBounded, [ToolNext]_allVars PROVE ContentLeaksBounded'
<1>0. faults \in Nat /\ faults' \in Nat /\ faults <= faults'
  <2>1. ServiceInv'
    BY ServiceStep
  <2>2. faults \in Nat /\ faults' \in Nat
    BY <2>1, CleanupAssumption DEF ServiceInv, CleanupInv, TypeOK
  <2>3. faults' = faults \/ faults' = faults + 1
    BY ClientStep
       DEF ClientFault, Next, Execution, vars, Tick, WriteOutput, CreatePreview, StartExecute,
           Inspect, Remove, AuditDeletion, TargetGone, MarkExecuted, SessionFails, RemoveFails
  <2>4. QED
    BY <2>2, <2>3
<1>1. IsFiniteSet(Leaks) /\ Cardinality(Leaks) \in Nat /\ Cardinality(Leaks) <= faults
  <2>1. IsFiniteSet(Leaks)
    BY ToolAssumption, FS_Subset DEF Leaks, ToolInv
  <2>2. QED
    BY <2>1, FS_CardinalityType DEF ContentLeaksBounded
<1>2. CASE Leaks' \subseteq Leaks
  <2>1. IsFiniteSet(Leaks') /\ Cardinality(Leaks') <= Cardinality(Leaks)
    BY <1>1, <1>2, FS_Subset
  <2>2. Cardinality(Leaks') \in Nat
    BY <2>1, FS_CardinalityType
  <2>3. QED
    BY <1>0, <1>1, <2>1, <2>2 DEF ContentLeaksBounded
<1>3. ASSUME NEW x, Leaks' \subseteq Leaks \union {x}, faults' = faults + 1
      PROVE  ContentLeaksBounded'
  <2>1. /\ IsFiniteSet(Leaks \union {x}) /\ Cardinality(Leaks \union {x}) \in Nat
        /\ Cardinality(Leaks \union {x}) <= Cardinality(Leaks) + 1
    BY <1>1, AddOne
  <2>2. IsFiniteSet(Leaks') /\ Cardinality(Leaks') <= Cardinality(Leaks \union {x})
    BY <1>3, <2>1, FS_Subset
  <2>3. Cardinality(Leaks') \in Nat
    BY <2>2, FS_CardinalityType
  <2>4. QED
    BY <1>0, <1>1, <1>3, <2>1, <2>2, <2>3 DEF ContentLeaksBounded
<1>4. QED
  BY <1>2, <1>3, LeaksStep

\* There are no more contents without a row, that no call is about to delete,
\* than failures and stops.
THEOREM ContentLeaksAreBounded == ToolSpec => []ContentLeaksBounded
<1>1. ToolInit => ContentLeaksBounded
  <2>1. ToolInit => Leaks = {} /\ faults = 0
    BY DEF ToolInit, Init, Leaks
  <2>2. QED
    BY <2>1, FS_EmptySet DEF ContentLeaksBounded
<1>2. ToolInv /\ ServiceInv /\ ContentLeaksBounded /\ [ToolNext]_allVars => ContentLeaksBounded'
  BY LeaksKept
<1>3. QED
  BY <1>1, <1>2, ToolInvariant, PTL DEF ToolSpec
=============================================================================
