------------------------- MODULE WorkflowGraphProofs -------------------------
(***************************************************************************)
(* Theorems about WorkflowGraph for any number of invocations and any      *)
(* final texts.                                                            *)
(***************************************************************************)
EXTENDS WorkflowGraph, TLAPS

-----------------------------------------------------------------------------
(* Types and verdicts.                                                     *)

\* Updates of the channels.
LEMMA ChannelUpdates ==
    ASSUME NEW c \in Channels
    PROVE  /\ \A text \in Texts : [c EXCEPT !.text = text, !.grounded = TRUE] \in Channels
           /\ \A text \in Texts :
                 [c EXCEPT !.input = "upload", !.calibrated = ready, !.text = text] \in Channels
                 \/ ready \notin BOOLEAN
           /\ [c EXCEPT !.grounded = TRUE] \in Channels
           /\ \A r \in Rasters : [c EXCEPT !.isis = r, !.input = "raster", !.calibrated = TRUE] \in Channels
           /\ \A r \in Rasters \union {"upload"} : [c EXCEPT !.analysed = r] \in Channels
  BY DEF Channels

\* Numbers of one group that a grounded text has.
Sound(c) == \A number \in c.text : Len(number) = 1 => number[1] \in Results(c.analysed)

\* Only a ready file goes to PlanetIR as it is, and only a grounded text into a
\* report.
RunInv(i) ==
    /\ channels[i].analysed = "upload" => ready
    /\ stage[i] = "planetir" /\ channels[i].input = "upload" => ready
    /\ stage[i] \in {"isis", "waiting"} => ~ ready
    /\ stage[i] = "report" => channels[i].grounded /\ Sound(channels[i])

GraphInv ==
    /\ TypeOK
    /\ thread.analysed = "upload" => ready
    /\ \A i \in Invocations : RunInv(i)
    /\ report # None => report.grounded /\ Sound(report)

LEMMA GraphInvInit == Init => GraphInv
<1>1. Empty \in Channels
  BY GraphAssumption DEF Empty, Channels
<1>2. Init => TypeOK
  BY <1>1 DEF Init, TypeOK, Stages, IsisStages, Rasters
<1>3. Init => /\ thread.analysed # "upload" /\ report = None
              /\ \A i \in Invocations : channels[i].analysed # "upload" /\ stage[i] = "new"
  BY GraphAssumption DEF Init, Empty
<1>4. QED
  BY <1>2, <1>3 DEF GraphInv, RunInv

\* A text that the grounding node passes is sound.
LEMMA GroundedIsSound ==
    ASSUME NEW c, NEW text \in Texts, Grounded(c, text)
    PROVE  \A number \in text : Len(number) = 1 => number[1] \in Results(c.analysed)
<1> SUFFICES ASSUME NEW number \in text, Len(number) = 1
             PROVE  number[1] \in Results(c.analysed)
  OBVIOUS
<1>1. number \in Seq(Nat)
  BY GraphAssumption
<1>2. 1 \in DOMAIN number
  BY <1>1
<1>3. number[1] \in Numbers(text)
  BY <1>2 DEF Numbers
<1>4. QED
  BY <1>3 DEF Grounded

\* An invocation goes on with other channels.
LEMMA UpdateStep ==
    ASSUME GraphInv, NEW i \in Invocations, NEW c \in Channels, NEW node \in Stages,
           Update(i, c), MoveTo(i, node),
           ready' = ready, isis' \in [Invocations -> IsisStages], cubes' \in {"clean", "mixed"},
           raster' \in Rasters, report' \in Channels \union {None}, disturbed' \in BOOLEAN,
           c.analysed = "upload" => ready,
           node = "planetir" /\ c.input = "upload" => ready,
           node \in {"isis", "waiting"} => ~ ready,
           node = "report" => c.grounded /\ Sound(c),
           report' # None => report'.grounded /\ Sound(report')
    PROVE  GraphInv'
  BY DEF GraphInv, TypeOK, RunInv, Update, MoveTo, Sound, Results

\* The channels of an invocation, one by one.
LEMMA ChannelsOf ==
    ASSUME GraphInv, NEW i \in Invocations
    PROVE  /\ channels[i] \in Channels /\ channels[i].text \in Texts
           /\ \A r \in Rasters :
                 LET c == [channels[i] EXCEPT !.isis = r, !.input = "raster", !.calibrated = TRUE]
                 IN  c.input = "raster" /\ c.isis = r /\ c.analysed = channels[i].analysed
           /\ \A r \in Rasters \union {"upload"} :
                 LET c == [channels[i] EXCEPT !.analysed = r]
                 IN  c.analysed = r /\ c.isis = channels[i].isis
           /\ LET c == [channels[i] EXCEPT !.grounded = TRUE]
              IN  /\ c.grounded /\ c.text = channels[i].text
                  /\ c.analysed = channels[i].analysed /\ c.isis = channels[i].isis
<1>1. channels[i] \in Channels
  BY DEF GraphInv, TypeOK
<1>2. QED
  BY <1>1 DEF Channels

\* An invocation stops, or waits for its subprocess, with its channels.
LEMMA PauseStep ==
    ASSUME GraphInv, NEW i \in Invocations, NEW node \in {"waiting", "done"}, MoveTo(i, node),
           UNCHANGED <<ready, channels, report, disturbed>>,
           thread' = thread \/ thread' = channels[i], asked' \in BOOLEAN,
           isis' \in [Invocations -> IsisStages], cubes' \in {"clean", "mixed"},
           raster' = raster,
           node = "waiting" => stage[i] = "isis"
    PROVE  GraphInv'
  BY DEF GraphInv, TypeOK, RunInv, MoveTo, Stages, Sound, Results

LEMMA GraphInvStep == ASSUME GraphInv, [Next]_vars PROVE GraphInv'
<1> USE DEF Stages, Rasters, IsisStages, isisVars
<1>1. ASSUME NEW i \in Invocations, NEW text \in Texts, Invoke(i, text) PROVE GraphInv'
  <2> DEFINE c == FreshInput(text)
             node == IF c.calibrated \/ c.input = "raster" THEN "planetir" ELSE "isis"
  <2>1. /\ c \in Channels /\ c.input = "upload" /\ c.calibrated = ready
        /\ c.analysed = thread.analysed
    BY ChannelUpdates DEF GraphInv, TypeOK, FreshInput, Channels
  <2>2. node \in {"planetir", "isis"} /\ (node = "planetir" <=> ready)
    BY <2>1
  <2>3. Update(i, c) /\ MoveTo(i, node)
    BY <1>1 DEF Invoke
  <2> HIDE DEF c, node
  <2>4. QED
    BY <1>1, <2>1, <2>2, <2>3, UpdateStep DEF Invoke, GraphInv, TypeOK
<1>2. ASSUME NEW i \in Invocations, NEW text \in Texts, Resume(i, text) PROVE GraphInv'
  <2> DEFINE c == [thread EXCEPT !.text = text, !.grounded = TRUE]
  <2>1. c \in Channels /\ c.text = text /\ c.grounded /\ c.analysed = thread.analysed
    BY ChannelUpdates DEF GraphInv, TypeOK, Channels
  <2>2. Grounded(thread, text) /\ Update(i, c) /\ MoveTo(i, "report")
    BY <1>2 DEF Resume
  <2>3. Sound(c)
    BY <2>1, <2>2, GroundedIsSound DEF Sound
  <2> HIDE DEF c
  <2>4. QED
    BY <1>2, <2>1, <2>2, <2>3, UpdateStep DEF Resume, GraphInv, TypeOK
<1>3. ASSUME NEW i \in Invocations, StartIsis(i) PROVE GraphInv'
  BY <1>3, PauseStep DEF StartIsis, GraphInv, TypeOK
<1>4. ASSUME NEW i \in Invocations, Project(i) \/ EndProject(i) \/ LeftoverEnds(i)
      PROVE  GraphInv'
  <2>1. TypeOK'
    BY <1>4 DEF Project, EndProject, LeftoverEnds, GraphInv, TypeOK
  <2>2. UNCHANGED <<ready, thread, channels, stage, report>>
    BY <1>4 DEF Project, EndProject, LeftoverEnds
  <2>3. QED
    BY <2>1, <2>2 DEF GraphInv, RunInv, Sound, Results
<1>5. ASSUME NEW i \in Invocations, IsisReturns(i) PROVE GraphInv'
  <2> DEFINE c == [channels[i] EXCEPT !.isis = raster, !.input = "raster", !.calibrated = TRUE]
  <2>1. c \in Channels /\ c.input = "raster" /\ c.analysed = channels[i].analysed
    <3>1. raster \in Rasters
      BY DEF GraphInv, TypeOK
    <3>2. QED
      BY <3>1, ChannelUpdates, ChannelsOf
  <2>2. Update(i, c) /\ MoveTo(i, "planetir")
    BY <1>5 DEF IsisReturns
  <2> HIDE DEF c
  <2>3. QED
    BY <1>5, <2>1, <2>2, UpdateStep DEF IsisReturns, GraphInv, TypeOK, RunInv
<1>6. ASSUME NEW i \in Invocations, Analyse(i) PROVE GraphInv'
  <2> DEFINE r == IF channels[i].input = "raster" THEN raster ELSE "upload"
             c == [channels[i] EXCEPT !.analysed = r]
  <2>1. r \in Rasters \union {"upload"} /\ (r = "upload" => ready)
    <3>1. raster # "upload" /\ raster \in Rasters
      BY GraphAssumption DEF GraphInv, TypeOK
    <3>2. channels[i].input \in {"upload", "raster"}
      BY DEF GraphInv, TypeOK, Channels
    <3>3. QED
      BY <1>6, <3>1, <3>2 DEF Analyse, GraphInv, RunInv
  <2>2. Update(i, c) /\ MoveTo(i, "grounding")
    BY <1>6 DEF Analyse
  <2> HIDE DEF r
  <2>3. c \in Channels /\ c.analysed = r
    BY <2>1, ChannelUpdates, ChannelsOf
  <2> HIDE DEF c
  <2>4. QED
    BY <1>6, <2>1, <2>2, <2>3, UpdateStep DEF Analyse, GraphInv, TypeOK
<1>7. ASSUME NEW i \in Invocations, Ground(i) PROVE GraphInv'
  <2> DEFINE c == [channels[i] EXCEPT !.grounded = TRUE]
  <2>1. /\ c \in Channels /\ c.text = channels[i].text /\ c.grounded
        /\ c.analysed = channels[i].analysed /\ channels[i].text \in Texts
    BY ChannelUpdates, ChannelsOf
  <2>2. Grounded(channels[i], channels[i].text) /\ Update(i, c) /\ MoveTo(i, "report")
    BY <1>7 DEF Ground
  <2>3. Sound(c)
    BY <2>1, <2>2, GroundedIsSound DEF Sound
  <2> HIDE DEF c
  <2>4. QED
    BY <1>7, <2>1, <2>2, <2>3, UpdateStep DEF Ground, GraphInv, TypeOK, RunInv
<1>8. ASSUME NEW i \in Invocations, Interrupt(i) PROVE GraphInv'
  BY <1>8, PauseStep DEF Interrupt, GraphInv, TypeOK
<1>9. ASSUME NEW i \in Invocations, Report(i) PROVE GraphInv'
  <2>1. channels[i] \in Channels /\ Update(i, channels[i]) /\ MoveTo(i, "done")
    BY <1>9 DEF Report, GraphInv, TypeOK
  <2>2. report' = channels[i] /\ channels[i].grounded /\ Sound(channels[i])
    BY <1>9 DEF Report, GraphInv, RunInv
  <2>3. channels[i].analysed = "upload" => ready
    BY DEF GraphInv, RunInv
  <2>4. report'.grounded /\ Sound(report')
    BY <2>2
  <2>5. QED
    BY <1>9, <2>1, <2>2, <2>3, <2>4, UpdateStep DEF Report, GraphInv, TypeOK
<1>10. ASSUME NEW i \in Invocations, NodeRaises(i) PROVE GraphInv'
  BY <1>10, PauseStep DEF NodeRaises, LeftBehind, GraphInv, TypeOK
<1>11. ASSUME NEW i \in Invocations, Killed(i) PROVE GraphInv'
  BY <1>11, PauseStep DEF Killed, GraphInv, TypeOK
<1>12. CASE UNCHANGED vars
  BY <1>12 DEF vars, GraphInv, TypeOK, RunInv, Sound, Results
<1>13. QED
  BY <1>1, <1>2, <1>3, <1>4, <1>5, <1>6, <1>7, <1>8, <1>9, <1>10, <1>11, <1>12 DEF Next

LEMMA GraphInvariant == Spec => []GraphInv
BY GraphInvInit, GraphInvStep, PTL DEF Spec

\* Type correctness of channels, checkpoints and report.
THEOREM GraphTypeCorrect == Spec => []TypeOK
<1>1. GraphInv => TypeOK
  BY DEF GraphInv
<1>2. QED
  BY <1>1, GraphInvariant, PTL

\* However often the graph is invoked on one thread, PlanetIR gets no raw product.
THEOREM RawIsNeverGiven == Spec => []RawIsNeverAnalysed
<1>1. GraphInv => RawIsNeverAnalysed
  BY DEF GraphInv, RunInv, RawIsNeverAnalysed
<1>2. QED
  BY <1>1, GraphInvariant, PTL

\* Nobody writes a report with an ungrounded number.
THEOREM ReportsAreGrounded == Spec => []ReportIsGrounded
<1>1. GraphInv => ReportIsGrounded
  BY DEF GraphInv, Sound, ReportIsGrounded
<1>2. QED
  BY <1>1, GraphInvariant, PTL

-----------------------------------------------------------------------------
(* One run.                                                                *)

\* The raster a report names is the one it is about.
OneRun(c) == IF ready THEN c.analysed = "upload" /\ c.isis = None
                      ELSE c.analysed = c.isis /\ c.isis \in Invocations

\* Without ISIS3 there is no raster, and its subprocess belongs to a node.
IsisInv ==
    /\ \A i \in Invocations : isis[i] = "leftover" => stage[i] = "done"
    /\ ready => thread.isis = None /\ \A i \in Invocations : channels[i].isis = None
    /\ \A i \in Invocations :
          stage[i] \in {"new", "isis", "planetir", "grounding", "report"} => isis[i] = "none"

\* One invocation at a time, with no ISIS3 of another at work: it finds on disk
\* what it has written itself.
CalmRun(i) ==
    /\ stage[i] = "waiting" /\ isis[i] = "none" => raster \in Invocations
    /\ stage[i] = "planetir" =>
          IF ready THEN channels[i].input = "upload"
                   ELSE channels[i].input = "raster" /\ channels[i].isis = raster /\ raster \in Invocations
    /\ stage[i] \in {"grounding", "report"} => OneRun(channels[i])

Calm ==
    /\ cubes = "clean"
    /\ \A i, j \in Invocations : Active(i) /\ Active(j) => i = j
    /\ asked => OneRun(thread) /\ \A i \in Invocations : ~ Active(i)
    /\ \A i \in Invocations : CalmRun(i)
    /\ report # None => OneRun(report)

OneRunInv == IsisInv /\ (~ disturbed => Calm)

LEMMA OneRunInvInit == Init => OneRunInv
  BY GraphAssumption DEF Init, OneRunInv, IsisInv, Calm, CalmRun, Active, Empty

\* Steps that leave channels, thread and raster alone.
LEMMA QuietStep ==
    ASSUME OneRunInv, NEW i \in Invocations, NEW node, MoveTo(i, node), stage \in [Invocations -> Stages],
           UNCHANGED <<ready, thread, channels, raster, report, disturbed>>,
           Calm => cubes' = "clean",
           \A j \in Invocations \ {i} : isis'[j] = isis[j],
           asked' = asked, Active(i),
           \/ node = "done"
           \/ node = "waiting" /\ isis'[i] = "ingest"
    PROVE  OneRunInv'
<1>1. stage'[i] = node /\ \A j \in Invocations \ {i} : stage'[j] = stage[j]
  BY DEF MoveTo
<1>2. \A j \in Invocations : Active(j)' => Active(j)
  BY <1>1 DEF Active
<1>3. IsisInv'
  BY <1>1 DEF OneRunInv, IsisInv
<1>4. ASSUME Calm PROVE Calm'
  BY <1>1, <1>2, <1>4 DEF Calm, CalmRun, OneRun
<1>5. QED
  BY <1>3, <1>4 DEF OneRunInv

\* A node returns: its update becomes thread and channels.
LEMMA NodeStep ==
    ASSUME OneRunInv, TypeOK, NEW i \in Invocations, NEW node, NEW c,
           Update(i, c), MoveTo(i, node), stage[i] \notin {"new", "done"}, isis[i] = "none",
           UNCHANGED <<ready, isis, cubes, raster, disturbed>>,
           node \in {"planetir", "grounding", "report", "done"},
           ready => c.isis = None,
           ~ disturbed => (report' # None => OneRun(report')),
           ~ disturbed /\ node \in {"grounding", "report"} => OneRun(c),
           ~ disturbed /\ node = "planetir" =>
              ~ ready /\ c.input = "raster" /\ c.isis = raster /\ raster \in Invocations
    PROVE  OneRunInv'
<1>1. /\ stage'[i] = node /\ \A j \in Invocations \ {i} : stage'[j] = stage[j]
      /\ channels'[i] = c /\ \A j \in Invocations \ {i} : channels'[j] = channels[j]
      /\ thread' = c /\ ~ asked' /\ Active(i)
  BY DEF MoveTo, Update, TypeOK, Active
<1>2. \A j \in Invocations : Active(j)' => Active(j)
  BY <1>1 DEF Active
<1>3. IsisInv'
  BY <1>1 DEF OneRunInv, IsisInv
<1>4. ASSUME ~ disturbed, Calm PROVE Calm'
  <2>1. \A j \in Invocations : CalmRun(j)'
    BY <1>1, <1>4 DEF Calm, CalmRun, OneRun
  <2>2. (report # None => OneRun(report))'
    BY <1>4 DEF OneRun
  <2>3. QED
    BY <1>1, <1>2, <1>4, <2>1, <2>2 DEF Calm
<1>5. QED
  BY <1>3, <1>4 DEF OneRunInv

LEMMA OneRunInvStep == ASSUME GraphInv, OneRunInv, [Next]_vars PROVE OneRunInv'
<1>0. /\ stage \in [Invocations -> Stages] /\ TypeOK /\ thread \in Channels
      /\ isis \in [Invocations -> IsisStages]
  BY DEF GraphInv, TypeOK
<1> USE DEF isisVars
<1>1. ASSUME NEW i \in Invocations, NEW text \in Texts, Invoke(i, text) PROVE OneRunInv'
  <2> DEFINE c == FreshInput(text)
             node == IF c.calibrated \/ c.input = "raster" THEN "planetir" ELSE "isis"
  <2>1. c.input = "upload" /\ c.calibrated = ready /\ c.isis = thread.isis
    BY <1>0 DEF FreshInput, Channels
  <2>2. node = IF ready THEN "planetir" ELSE "isis"
    BY <2>1
  <2>3. /\ Update(i, c) /\ MoveTo(i, node)
    BY <1>1 DEF Invoke
  <2> HIDE DEF c, node
  <2>4. /\ stage'[i] = node /\ \A j \in Invocations \ {i} : stage'[j] = stage[j]
        /\ channels'[i] = c /\ \A j \in Invocations \ {i} : channels'[j] = channels[j]
        /\ thread' = c /\ ~ asked' /\ isis' = isis /\ cubes' = cubes /\ ready' = ready /\ raster' = raster
        /\ report' = report /\ isis[i] = "none"
    BY <1>0, <1>1, <2>3 DEF MoveTo, Update, TypeOK, Invoke, OneRunInv, IsisInv
  <2>5. IsisInv'
    BY <2>1, <2>2, <2>4 DEF OneRunInv, IsisInv
  <2>6. ASSUME ~ disturbed' PROVE Calm'
    <3>1. ~ disturbed /\ Calm /\ \A j \in Invocations : ~ Active(j)
      BY <1>0, <1>1, <2>6 DEF Invoke, OneRunInv, TypeOK
    <3>2. \A j \in Invocations \ {i} : ~ Active(j)'
      BY <2>4, <3>1 DEF Active
    <3>3. \A j \in Invocations : CalmRun(j)'
      BY <2>1, <2>2, <2>4, <3>1 DEF Calm, CalmRun, Active
    <3>4. QED
      BY <2>4, <3>1, <3>2, <3>3 DEF Calm, OneRun
  <2>7. QED
    BY <2>5, <2>6 DEF OneRunInv
<1>2. ASSUME NEW i \in Invocations, NEW text \in Texts, Resume(i, text) PROVE OneRunInv'
  <2> DEFINE c == [thread EXCEPT !.text = text, !.grounded = TRUE]
  <2>1. c.isis = thread.isis /\ c.analysed = thread.analysed
    BY <1>0 DEF Channels
  <2>2. Update(i, c) /\ MoveTo(i, "report")
    BY <1>2 DEF Resume
  <2> HIDE DEF c
  <2>3. /\ stage'[i] = "report" /\ \A j \in Invocations \ {i} : stage'[j] = stage[j]
        /\ channels'[i] = c /\ \A j \in Invocations \ {i} : channels'[j] = channels[j]
        /\ thread' = c /\ ~ asked' /\ isis' = isis /\ cubes' = cubes /\ ready' = ready /\ raster' = raster
        /\ report' = report /\ isis[i] = "none" /\ asked /\ disturbed' = disturbed
    BY <1>0, <1>2, <2>2 DEF MoveTo, Update, TypeOK, Resume, OneRunInv, IsisInv
  <2>4. IsisInv'
    BY <2>1, <2>3 DEF OneRunInv, IsisInv
  <2>5. ASSUME ~ disturbed PROVE Calm'
    <3>1. Calm /\ OneRun(thread) /\ \A j \in Invocations : ~ Active(j)
      BY <2>3, <2>5 DEF OneRunInv, Calm
    <3>2. \A j \in Invocations \ {i} : ~ Active(j)'
      BY <2>3, <3>1 DEF Active
    <3>3. \A j \in Invocations : CalmRun(j)'
      BY <2>1, <2>3, <3>1 DEF Calm, CalmRun, Active, OneRun
    <3>4. QED
      BY <2>3, <3>1, <3>2, <3>3 DEF Calm, OneRun
  <2>6. QED
    BY <2>3, <2>4, <2>5 DEF OneRunInv
<1>3. ASSUME NEW i \in Invocations, StartIsis(i) PROVE OneRunInv'
  <2>1. Calm => cubes' = "clean"
    BY <1>3 DEF StartIsis, Calm, Active
  <2>2. QED
    BY <1>0, <1>3, <2>1, QuietStep DEF StartIsis, Active
<1>4. ASSUME NEW i \in Invocations, Project(i) PROVE OneRunInv'
  <2>1. /\ UNCHANGED <<ready, thread, asked, stage, channels, cubes, report, disturbed>>
        /\ isis[i] = "ingest" /\ isis'[i] = "project" /\ Active(i)
        /\ \A j \in Invocations \ {i} : isis'[j] = isis[j]
    BY <1>0, <1>4 DEF Project, Active
  <2>2. IsisInv'
    BY <2>1 DEF OneRunInv, IsisInv
  <2>3. ASSUME Calm PROVE Calm'
    <3>1. \A j \in Invocations : Active(j)' => j = i
      BY <2>1, <2>3 DEF Calm, Active
    <3>2. \A j \in Invocations : CalmRun(j)'
      BY <2>1, <2>3, <3>1 DEF Calm, CalmRun, Active, OneRun, OneRunInv, IsisInv
    <3>3. QED
      BY <2>1, <2>3, <3>1, <3>2 DEF Calm, OneRun
  <2>4. QED
    BY <2>1, <2>2, <2>3 DEF OneRunInv
<1>5. ASSUME NEW i \in Invocations, EndProject(i) PROVE OneRunInv'
  <2>1. /\ UNCHANGED <<ready, thread, asked, stage, channels, cubes, report, disturbed>>
        /\ isis[i] = "project" /\ isis'[i] = "none" /\ Active(i)
        /\ \A j \in Invocations \ {i} : isis'[j] = isis[j]
    BY <1>0, <1>5 DEF EndProject, Active
  <2>2. IsisInv'
    BY <2>1 DEF OneRunInv, IsisInv
  <2>3. ASSUME Calm PROVE Calm'
    <3>1. \A j \in Invocations : (Active(j)' => Active(j)) /\ (Active(j) => j = i)
      BY <2>1, <2>3 DEF Calm, Active
    <3>2. raster' = i
      BY <1>5, <2>3 DEF EndProject, Calm
    <3>3. \A j \in Invocations : CalmRun(j)'
      BY <2>1, <2>3, <3>1, <3>2 DEF Calm, CalmRun, Active, OneRun, OneRunInv, IsisInv
    <3>4. QED
      BY <2>1, <2>3, <3>1, <3>3 DEF Calm, OneRun
  <2>4. QED
    BY <2>1, <2>2, <2>3 DEF OneRunInv
<1>6. ASSUME NEW i \in Invocations, IsisReturns(i) PROVE OneRunInv'
  <2> DEFINE c == [channels[i] EXCEPT !.isis = raster, !.input = "raster", !.calibrated = TRUE]
  <2>1. c.input = "raster" /\ c.isis = raster
    BY <1>0, ChannelsOf DEF TypeOK
  <2>2. /\ Update(i, c) /\ MoveTo(i, "planetir") /\ stage[i] = "waiting" /\ isis[i] = "none" /\ ~ ready
        /\ UNCHANGED <<ready, isis, cubes, raster, report, disturbed>>
    BY <1>6 DEF IsisReturns, GraphInv, RunInv
  <2> HIDE DEF c
  <2>3. ~ disturbed => raster \in Invocations /\ (report # None => OneRun(report))
    BY <2>2 DEF OneRunInv, Calm, CalmRun
  <2>4. QED
    BY <1>0, <2>1, <2>2, <2>3, NodeStep
<1>7. ASSUME NEW i \in Invocations, Analyse(i) PROVE OneRunInv'
  <2> DEFINE r == IF channels[i].input = "raster" THEN raster ELSE "upload"
             c == [channels[i] EXCEPT !.analysed = r]
  <2>1. /\ Update(i, c) /\ MoveTo(i, "grounding") /\ stage[i] = "planetir" /\ isis[i] = "none"
        /\ UNCHANGED <<ready, isis, cubes, raster, report, disturbed>>
    BY <1>7 DEF Analyse, OneRunInv, IsisInv
  <2>2. r \in Rasters \union {"upload"}
    BY <1>0 DEF TypeOK
  <2>3. ~ disturbed => IF ready THEN r = "upload" ELSE r = channels[i].isis /\ r \in Invocations
    BY <2>1 DEF OneRunInv, Calm, CalmRun
  <2> HIDE DEF r
  <2>4. c.analysed = r /\ c.isis = channels[i].isis
    BY <2>2, ChannelsOf
  <2> HIDE DEF c
  <2>5. (ready => c.isis = None) /\ (~ disturbed => OneRun(c))
    BY <2>3, <2>4 DEF OneRun, OneRunInv, IsisInv
  <2>6. ~ disturbed => (report # None => OneRun(report))
    BY DEF OneRunInv, Calm
  <2>7. QED
    BY <1>0, <2>1, <2>5, <2>6, NodeStep
<1>8. ASSUME NEW i \in Invocations, Ground(i) PROVE OneRunInv'
  <2> DEFINE c == [channels[i] EXCEPT !.grounded = TRUE]
  <2>1. /\ Update(i, c) /\ MoveTo(i, "report") /\ stage[i] = "grounding" /\ isis[i] = "none"
        /\ UNCHANGED <<ready, isis, cubes, raster, report, disturbed>>
    BY <1>8 DEF Ground, OneRunInv, IsisInv
  <2>2. c.analysed = channels[i].analysed /\ c.isis = channels[i].isis
    BY ChannelsOf
  <2> HIDE DEF c
  <2>3. (ready => c.isis = None) /\ (~ disturbed => OneRun(c))
    BY <2>1, <2>2 DEF OneRun, OneRunInv, IsisInv, Calm, CalmRun
  <2>4. ~ disturbed => (report # None => OneRun(report))
    BY DEF OneRunInv, Calm
  <2>5. QED
    BY <1>0, <2>1, <2>3, <2>4, NodeStep
<1>9. ASSUME NEW i \in Invocations, Report(i) PROVE OneRunInv'
  <2>1. /\ Update(i, channels[i]) /\ MoveTo(i, "done") /\ stage[i] = "report" /\ isis[i] = "none"
        /\ UNCHANGED <<ready, isis, cubes, raster, disturbed>> /\ report' = channels[i]
    BY <1>9 DEF Report, OneRunInv, IsisInv
  <2>2. (ready => channels[i].isis = None) /\ (~ disturbed => OneRun(report'))
    BY <2>1 DEF OneRunInv, IsisInv, Calm, CalmRun
  <2>3. QED
    BY <1>0, <2>1, <2>2, NodeStep
<1>10. ASSUME NEW i \in Invocations, Interrupt(i) PROVE OneRunInv'
  <2>1. /\ stage[i] = "grounding" /\ isis[i] = "none" /\ thread' = channels[i]
        /\ stage'[i] = "done" /\ \A j \in Invocations \ {i} : stage'[j] = stage[j]
        /\ UNCHANGED <<ready, channels, isis, cubes, raster, report, disturbed>>
    BY <1>0, <1>10 DEF Interrupt, MoveTo, OneRunInv, IsisInv
  <2>2. IsisInv'
    BY <2>1 DEF OneRunInv, IsisInv
  <2>3. ASSUME Calm PROVE Calm'
    <3>1. \A j \in Invocations : ~ Active(j)'
      BY <2>1, <2>3 DEF Calm, Active
    <3>2. \A j \in Invocations : CalmRun(j)'
      BY <2>1, <2>3 DEF Calm, CalmRun, OneRun
    <3>3. OneRun(thread)'
      BY <2>1, <2>3 DEF Calm, CalmRun, OneRun
    <3>4. QED
      BY <2>1, <2>3, <3>1, <3>2, <3>3 DEF Calm, OneRun
  <2>4. QED
    BY <2>1, <2>2, <2>3 DEF OneRunInv
<1>11. ASSUME NEW i \in Invocations, NodeRaises(i) PROVE OneRunInv'
  <2>1. \A j \in Invocations \ {i} : isis'[j] = isis[j]
    BY <1>0, <1>11 DEF NodeRaises
  <2>2. QED
    BY <1>0, <1>11, <2>1, QuietStep DEF NodeRaises, Active, Calm
<1>12. ASSUME NEW i \in Invocations, Killed(i) PROVE OneRunInv'
  BY <1>0, <1>12, QuietStep DEF Killed, Active, Calm
<1>13. ASSUME NEW i \in Invocations, LeftoverEnds(i) PROVE OneRunInv'
  <2>1. /\ UNCHANGED <<ready, thread, asked, stage, channels, cubes, raster, report, disturbed>>
        /\ isis[i] = "leftover" /\ isis'[i] = "none" /\ Active(i)
        /\ \A j \in Invocations \ {i} : isis'[j] = isis[j]
    BY <1>0, <1>13 DEF LeftoverEnds, Active, IsisStages
  <2>2. IsisInv'
    BY <2>1 DEF OneRunInv, IsisInv
  <2>3. stage[i] # "waiting"
    BY <2>1 DEF OneRunInv, IsisInv
  <2>4. ASSUME Calm PROVE Calm'
    BY <2>1, <2>3, <2>4 DEF Calm, CalmRun, Active, OneRun
  <2>5. QED
    BY <2>1, <2>2, <2>4 DEF OneRunInv
<1>14. CASE UNCHANGED vars
  BY <1>14 DEF vars, OneRunInv, IsisInv, Calm, CalmRun, Active, OneRun
<1>15. QED
  BY <1>1, <1>2, <1>3, <1>4, <1>5, <1>6, <1>7, <1>8, <1>9, <1>10, <1>11, <1>12, <1>13, <1>14
     DEF Next

\* The raster whose hash a report has is whole and the analysed one, unless an
\* invocation began while another, or ISIS3 that another had left, was at work.
THEOREM ReportsAreOneRun == Spec => []ReportIsOneRun
<1>1. OneRunInv => ReportIsOneRun
  BY DEF OneRunInv, Calm, OneRun, ReportIsOneRun
<1>2. QED
  BY <1>1, OneRunInvInit, OneRunInvStep, GraphInvInit, GraphInvStep, PTL DEF Spec
=============================================================================
