---------------------------- MODULE WorkflowGraph ----------------------------
(***************************************************************************)
(* The scientific workflow graph (service/app/orchestrator.py) of one job: *)
(* optional ISIS3 preprocessing, PlanetIR analysis, numeric grounding and  *)
(* report, over a thread of checkpoints named after the job.  workflow_task *)
(* passes an empty final text; invoke_scientific takes any, and resumes.   *)
(*                                                                         *)
(* A message that is delivered again invokes the graph again on the same   *)
(* thread, perhaps while the first invocation goes on.  ISIS3 is a wrapper *)
(* that starts one program after another: an invocation that is killed     *)
(* leaves the wrapper at work, a timeout kills the wrapper and leaves the  *)
(* program.  All of them write the same cubes and the same raster.         *)
(*                                                                         *)
(* LangGraph is external: a fresh input is merged into the channels of the *)
(* latest checkpoint and starts over, a node's update is checkpointed when *)
(* the node returns, and a resume enters the interrupted node again.       *)
(***************************************************************************)
EXTENDS Naturals, Sequences

CONSTANTS Invocations,   \* calls of invoke_scientific with a fresh input
          Texts,         \* final texts: sets of numbers, each a sequence of digit groups
          Measured,      \* the numbers in the analysis of a whole raster
          None

ASSUME GraphAssumption ==
    /\ Invocations \intersect {"absent", "partial", "upload"} = {}
    /\ None \notin Invocations \union {"absent", "partial", "upload"}
    /\ {} \in Texts /\ Texts \subseteq SUBSET Seq(Nat)
    /\ Measured \subseteq Nat

Rasters == Invocations \union {"absent", "partial"}

\* A raster is "partial" when it is torn, or made from cubes of several runs.

\* The channels: the input file, whether it counts as calibrated, the raster
\* that ISIS3 reported, the raster that PlanetIR analysed, text and verdict.
Channels == [input : {"upload", "raster"}, calibrated : BOOLEAN,
             isis : Rasters \union {None}, analysed : Rasters \union {"upload", None},
             text : Texts, grounded : BOOLEAN]

Stages == {"new", "isis", "waiting", "planetir", "grounding", "report", "done"}

VARIABLES ready,         \* the job's file is a GeoTIFF, or declared calibrated
          thread,        \* channels of the latest checkpoint
          asked,         \* whether it is an interrupt of the grounding node
          stage,         \* the node each invocation is at
          channels,      \* ... and its channels
          isis,          \* what each invocation's ISIS3 is at
          cubes,         \* the intermediate cubes: of one ISIS3 run, or of several
          raster,        \* content of calibrated_projected.tif, by its writer
          report,        \* channels in workflow_report.json
          disturbed      \* history: an invocation began next to another, or to its ISIS3

isisVars == <<isis, cubes>>
vars == <<ready, thread, asked, stage, channels, isisVars, raster, report, disturbed>>

\* No program at work; the wrapper with its first three stages; a program of
\* these stages without the wrapper; the last stage, with the wrapper or without.
IsisStages == {"none", "ingest", "leftover", "project"}

Empty == [input |-> "upload", calibrated |-> FALSE, isis |-> None, analysed |-> None,
          text |-> {}, grounded |-> FALSE]

TypeOK ==
    /\ ready \in BOOLEAN /\ asked \in BOOLEAN /\ disturbed \in BOOLEAN
    /\ thread \in Channels
    /\ stage \in [Invocations -> Stages]
    /\ channels \in [Invocations -> Channels]
    /\ isis \in [Invocations -> IsisStages]
    /\ cubes \in {"clean", "mixed"}
    /\ raster \in Rasters
    /\ report \in Channels \union {None}

Init ==
    /\ ready \in BOOLEAN
    /\ thread = Empty
    /\ asked = FALSE
    /\ stage = [i \in Invocations |-> "new"]
    /\ channels = [i \in Invocations |-> Empty]
    /\ isis = [i \in Invocations |-> "none"]
    /\ cubes = "clean"
    /\ raster = "absent"
    /\ report = None
    /\ disturbed = FALSE

-----------------------------------------------------------------------------

Active(i) == stage[i] \notin {"new", "done"} \/ isis[i] # "none"
MoveTo(i, node) == stage' = [stage EXCEPT ![i] = node]

\* A node's update goes to the invocation's channels and to the checkpoint.
Update(i, c) == channels' = [channels EXCEPT ![i] = c] /\ thread' = c /\ asked' = FALSE

\* Fault variant of FreshInput: the input leaves out already_calibrated.
FreshInputWithout(text) == [thread EXCEPT !.input = "upload", !.text = text]

\* Channels the input does not name keep what the last invocation left.
FreshInput(text) ==
    [thread EXCEPT !.input = "upload", !.calibrated = ready, !.text = text]

\* A calibrated or GeoTIFF input skips ISIS3.
Invoke(i, text) ==
    /\ stage[i] = "new"
    /\ LET c == FreshInput(text)
       IN  Update(i, c) /\ MoveTo(i, IF c.calibrated \/ c.input = "raster" THEN "planetir" ELSE "isis")
    /\ disturbed' = (disturbed \/ \E j \in Invocations : Active(j))
    /\ UNCHANGED <<ready, isisVars, raster, report>>

\* Whatever else is at work from here on writes cubes of the same names.
StartIsis(i) ==
    /\ stage[i] = "isis"
    /\ MoveTo(i, "waiting")
    /\ isis' = [isis EXCEPT ![i] = "ingest"]
    /\ cubes' = IF \E j \in Invocations \ {i} : isis[j] # "none" THEN "mixed" ELSE "clean"
    /\ UNCHANGED <<ready, thread, asked, channels, raster, report, disturbed>>

\* The last of the ISIS3 stages opens the destination ...
Project(i) ==
    /\ isis[i] = "ingest"
    /\ isis' = [isis EXCEPT ![i] = "project"]
    /\ raster' = "partial"
    /\ UNCHANGED <<ready, thread, asked, stage, channels, cubes, report, disturbed>>

\* ... and leaves it whole, unless the cubes or the raster had other writers.
EndProject(i) ==
    /\ isis[i] = "project"
    /\ isis' = [isis EXCEPT ![i] = "none"]
    /\ raster' = i \/ (cubes = "mixed" /\ raster' = "partial")
    /\ UNCHANGED <<ready, thread, asked, stage, channels, cubes, report, disturbed>>

\* A program whose wrapper was killed writes its cube, and no stage follows.
LeftoverEnds(i) ==
    /\ isis[i] = "leftover"
    /\ isis' = [isis EXCEPT ![i] = "none"]
    /\ UNCHANGED <<ready, thread, asked, stage, channels, cubes, raster, report, disturbed>>

\* Fault variant of IsisReturns: an isis_result that is there is kept.
IsisReturnsFirst(i) ==
    /\ stage[i] = "waiting" /\ isis[i] = "none" /\ raster # "absent"
    /\ Update(i, [channels[i] EXCEPT !.isis = IF @ = None THEN raster ELSE @,
                                     !.input = "raster", !.calibrated = TRUE])
    /\ MoveTo(i, "planetir")
    /\ UNCHANGED <<ready, isisVars, raster, report, disturbed>>

\* The wrapper returned and the file passed the checks: its hash is taken.
IsisReturns(i) ==
    /\ stage[i] = "waiting" /\ isis[i] = "none" /\ raster # "absent"
    /\ Update(i, [channels[i] EXCEPT !.isis = raster, !.input = "raster", !.calibrated = TRUE])
    /\ MoveTo(i, "planetir")
    /\ UNCHANGED <<ready, isisVars, raster, report, disturbed>>

Analyse(i) ==
    /\ stage[i] = "planetir"
    /\ Update(i, [channels[i] EXCEPT !.analysed = IF channels[i].input = "raster" THEN raster ELSE "upload"])
    /\ MoveTo(i, "grounding")
    /\ UNCHANGED <<ready, isisVars, raster, report, disturbed>>

\* The numbers of an analysis; a torn raster has others.
Results(analysed) == IF analysed = "partial" THEN {} ELSE Measured
\* _numbers splits a number at its thousands separators.
Numbers(text) == UNION {{number[k] : k \in DOMAIN number} : number \in text}
Grounded(c, text) == Numbers(text) \subseteq Results(c.analysed)

Ground(i) ==
    /\ stage[i] = "grounding"
    /\ Grounded(channels[i], channels[i].text)
    /\ Update(i, [channels[i] EXCEPT !.grounded = TRUE])
    /\ MoveTo(i, "report")
    /\ UNCHANGED <<ready, isisVars, raster, report, disturbed>>

\* interrupt(): the invocation returns, its thread waits for a correction.
Interrupt(i) ==
    /\ stage[i] = "grounding"
    /\ ~ Grounded(channels[i], channels[i].text)
    /\ thread' = channels[i]
    /\ asked' = TRUE
    /\ MoveTo(i, "done")
    /\ UNCHANGED <<ready, channels, isisVars, raster, report, disturbed>>

\* Fault variant of Resume: the correction is believed.
ResumeUnchecked(i, text) ==
    /\ asked
    /\ stage[i] = "new"
    /\ Update(i, [thread EXCEPT !.text = text, !.grounded = TRUE])
    /\ MoveTo(i, "report")
    /\ UNCHANGED <<ready, isisVars, raster, report, disturbed>>

\* Command(resume=...): a correction that is grounded; any other raises and
\* leaves the thread as it is.
Resume(i, text) ==
    /\ asked
    /\ stage[i] = "new"
    /\ Grounded(thread, text)
    /\ Update(i, [thread EXCEPT !.text = text, !.grounded = TRUE])
    /\ MoveTo(i, "report")
    /\ UNCHANGED <<ready, isisVars, raster, report, disturbed>>

Report(i) ==
    /\ stage[i] = "report"
    /\ report' = channels[i]
    /\ Update(i, channels[i])
    /\ MoveTo(i, "done")
    /\ UNCHANGED <<ready, isisVars, raster, disturbed>>

\* What killing the wrapper leaves: the program of the stage it was at.
LeftBehind(at) == IF at = "ingest" THEN "leftover" ELSE at

\* A failing node or stage, a timeout or the soft limit; the latter kill the
\* wrapper and not the program that it waits for.
NodeRaises(i) ==
    /\ stage[i] \notin {"new", "done"}
    /\ MoveTo(i, "done")
    /\ \E left \in {"none", LeftBehind(isis[i])} : isis' = [isis EXCEPT ![i] = left]
    /\ UNCHANGED <<ready, thread, asked, channels, cubes, raster, report, disturbed>>

\* The pool process is killed; the wrapper goes on.
Killed(i) ==
    /\ stage[i] \notin {"new", "done"}
    /\ MoveTo(i, "done")
    /\ UNCHANGED <<ready, thread, asked, channels, isisVars, raster, report, disturbed>>

Next ==
    \E i \in Invocations :
        \/ \E text \in Texts : Invoke(i, text) \/ Resume(i, text)
        \/ StartIsis(i) \/ Project(i) \/ EndProject(i) \/ LeftoverEnds(i) \/ IsisReturns(i)
        \/ Analyse(i) \/ Ground(i) \/ Interrupt(i) \/ Report(i)
        \/ NodeRaises(i) \/ Killed(i)

Spec == Init /\ [][Next]_vars

-----------------------------------------------------------------------------
(* Properties.                                                             *)

\* PlanetIR is never given the raw product, also not by an invocation that
\* finds the checkpoints of one that had calibrated it (orchestrator.py:50-58).
RawIsNeverAnalysed ==
    \A i \in Invocations : channels[i].analysed = "upload" => ready

\* A report states only numbers of the analysis it contains, whichever
\* invocation or resume wrote it.  Numbers with thousands separators are
\* compared group by group, unlike in the Filter of the UI.
ReportIsGrounded ==
    report # None =>
        /\ report.grounded
        /\ \A number \in report.text :
              Len(number) = 1 => number[1] \in Results(report.analysed)

\* The raster whose hash is in the report is whole and the one analysed there,
\* whatever earlier invocations left in the thread and on disk -- unless an
\* invocation began next to another, or to a wrapper or a program of any of the
\* four stages that had outlived its own.
ReportIsOneRun ==
    report # None /\ ~ disturbed =>
        IF ready THEN report.analysed = "upload" /\ report.isis = None
                 ELSE report.analysed = report.isis /\ report.isis \in Invocations
=============================================================================
