------------------------- MODULE PackageBuildProofs -------------------------
(* The safety of a package builder for every number of split outputs, runs, *)
(* faults and kills, in every kind of work directory. The invariant follows *)
(* a run through its loops: what the stage loop has staged, the seal loop   *)
(* sealed and the publish loop renamed so far, whatever an earlier run left *)
(* in the part of the work directory the loops have not come to.            *)
EXTENDS PackageBuild, TLAPS

-----------------------------------------------------------------------------
(* The inductive invariant.                                                 *)

ControlTyped ==
  /\ mode \in Modes /\ privileged \in Privileges /\ flat \subseteq Outputs
  /\ pc \in Ended \cup Phases
CountsTyped ==
  /\ run \in 0 .. MaxRuns /\ next \in Outputs
  /\ faults \in 0 .. MaxFaults /\ kills \in 0 .. MaxKills
ReusedTyped == reused \in BOOLEAN
WorkTyped == work \in Work \cup {None}
DestTyped == dest \in [Outputs -> Published \cup {None}]

\* A run that goes on has a number and a work directory.
Began == pc \in Phases => run \in 1 .. MaxRuns /\ work \in Work

\* A build that does not reuse a work directory has patched what it builds.
SourceKnown ==
  /\ pc = "build" /\ ~reused => work.source = "patched"
  /\ pc \in {"stage", "finish", "seal", "publish", "reseal"} =>
       /\ work.installed \in Sources
       /\ ~reused => work.installed = "patched"

\* A tree this run has staged.
Own(t) == t \in Tree /\ t.run = run /\ (~reused => t.source = "patched")
Finished(t) == Own(t) /\ t.whole
Sealed(t) == Finished(t) /\ t.sealed

LoopStarts == pc = "finish" => next = 1

StagedSoFar ==
  \A o \in Outputs :
    /\ pc = "stage" /\ o < next => Own(work.staged[o])
    /\ pc = "finish" => Own(work.staged[o])
    /\ pc = "seal" => Finished(work.staged[o])
    /\ pc = "seal" /\ o < next => Sealed(work.staged[o])
    /\ pc = "publish" /\ next <= o => Sealed(work.staged[o])
    /\ pc = "reseal" /\ next < o => Sealed(work.staged[o])

PublishedSoFar ==
  \A o \in Outputs :
    /\ pc \in {"publish", "reseal"} /\ o < next => dest[o] # None /\ ~dest[o].rootWritable
    /\ pc = "reseal" /\ o = next => dest[o] # None

\* Nothing is at a destination the publish loop has not come to.
DestSoFar ==
  \A o \in Outputs :
    /\ pc \in Phases \ {"publish", "reseal"} => dest[o] = None
    /\ pc = "publish" /\ next <= o => dest[o] = None
    /\ pc = "reseal" /\ next < o => dest[o] = None

\* What PublishedWhole says of roots.
RootsInOrder ==
  \A o \in Outputs : dest[o] # None =>
    /\ dest[o].rootWritable => pc \in {"reseal", "failed", "killed"}
    /\ \A q \in Outputs : q < o => dest[q] # None /\ ~dest[q].rootWritable

DestinationsOwn == \A o \in Outputs : dest[o] # None => Sealed(dest[o].tree)

IInv ==
  /\ ControlTyped
  /\ CountsTyped
  /\ ReusedTyped
  /\ WorkTyped
  /\ DestTyped
  /\ Began
  /\ SourceKnown
  /\ LoopStarts
  /\ StagedSoFar
  /\ PublishedSoFar
  /\ DestinationsOwn
  /\ DestSoFar
  /\ RootsInOrder
  /\ SuccessPublishesAll

-----------------------------------------------------------------------------
USE CountsAssumption DEF Outputs, Primary, Phases, Ended

\* A new work directory is one.
LEMMA EmptyWorkTyped == EmptyWork \in Work
BY DEF EmptyWork, Work, Sources

\* Before the first run there is nothing to say.
LEMMA InitOK == Init => IInv
<1> SUFFICES ASSUME Init  PROVE IInv
  OBVIOUS
<1>1. ControlTyped
  BY DEF Init, ControlTyped
<1>2. CountsTyped
  BY DEF Init, CountsTyped
<1>3. ReusedTyped
  BY DEF Init, ReusedTyped
<1>4. WorkTyped
  BY DEF Init, WorkTyped
<1>5. DestTyped
  BY DEF Init, DestTyped
<1>6. Began
  BY DEF Init, Began
<1>7. SourceKnown
  BY DEF Init, SourceKnown
<1>8. LoopStarts
  BY DEF Init, LoopStarts
<1>9. StagedSoFar
  BY DEF Init, StagedSoFar
<1>10. PublishedSoFar
  BY DEF Init, PublishedSoFar
<1>11. DestinationsOwn
  BY DEF Init, DestinationsOwn
<1>12. SuccessPublishesAll
  BY DEF Init, SuccessPublishesAll
<1>13. DestSoFar
  BY DEF Init, DestSoFar
<1>14. RootsInOrder
  BY DEF Init, RootsInOrder
<1> QED
  BY <1>1, <1>2, <1>3, <1>4, <1>5, <1>6, <1>7, <1>8, <1>9, <1>10, <1>11, <1>12, <1>13,
     <1>14 DEF IInv

-----------------------------------------------------------------------------
(* The beginning of a run.                                                  *)

\* A run that begins with an empty work directory.
LEMMA StartFreshOK ==
  ASSUME IInv, StartFresh  PROVE IInv'
<1>1. ControlTyped'
  BY DEF IInv, StartFresh, BeginRun, Removable, setting, ControlTyped
<1>2. CountsTyped'
  BY DEF IInv, StartFresh, BeginRun, Removable, setting, CountsTyped
<1>3. ReusedTyped'
  BY DEF IInv, StartFresh, BeginRun, Removable, ReusedTyped
<1>4. WorkTyped'
  BY EmptyWorkTyped DEF IInv, StartFresh, WorkTyped
<1>5. DestTyped'
  BY DEF IInv, StartFresh, BeginRun, Removable, DestTyped, CountsTyped, WorkTyped, Began,
     StagedSoFar, Sealed, Finished, Own, Published
<1>6. Began'
  BY EmptyWorkTyped DEF IInv, StartFresh, BeginRun, CountsTyped, Began
<1>7. SourceKnown'
  BY DEF IInv, StartFresh, BeginRun, Removable, WorkTyped, Began, SourceKnown, Work, Sources
<1>8. LoopStarts'
  BY DEF IInv, StartFresh, BeginRun, Removable, LoopStarts
<1>9. StagedSoFar'
  BY DEF IInv, StartFresh, BeginRun, Removable, CountsTyped, WorkTyped, Began, SourceKnown,
     LoopStarts, StagedSoFar, Own, Finished, Sealed, Tree, Work, Sources
<1>10. PublishedSoFar'
  BY DEF IInv, StartFresh, BeginRun, Removable, CountsTyped, DestTyped, PublishedSoFar
<1>11. DestinationsOwn'
  BY DEF IInv, StartFresh, BeginRun, Removable, CountsTyped, DestTyped, WorkTyped, Began,
     StagedSoFar, DestinationsOwn, Own, Finished, Sealed, Tree, Work, Published
<1>12. SuccessPublishesAll'
  BY DEF IInv, StartFresh, BeginRun, Removable, CountsTyped, DestTyped, PublishedSoFar,
     SuccessPublishesAll
<1>13. DestSoFar'
  BY DEF IInv, StartFresh, BeginRun, CountsTyped, DestTyped, PublishedSoFar, DestSoFar
<1>14. RootsInOrder'
  BY DEF IInv, StartFresh, BeginRun, CountsTyped, DestTyped, PublishedSoFar, DestSoFar, RootsInOrder
<1> QED
  BY <1>1, <1>2, <1>3, <1>4, <1>5, <1>6, <1>7, <1>8, <1>9, <1>10, <1>11, <1>12, <1>13,
     <1>14 DEF IInv

\* A run that takes over a work directory.
LEMMA StartReusingOK ==
  ASSUME IInv, StartReusing  PROVE IInv'
BY DEF IInv, StartReusing, BeginRun, setting, ControlTyped, CountsTyped, ReusedTyped,
   WorkTyped, DestTyped, Began, SourceKnown, LoopStarts,
       StagedSoFar, PublishedSoFar, DestinationsOwn, DestSoFar, RootsInOrder,
   SuccessPublishesAll, Own, Finished, Sealed, Tree, Work, Sources

\* A run that ends before it began.
LEMMA StartRefusedOK ==
  ASSUME IInv, StartRefused  PROVE IInv'
<1>1. ControlTyped'
  BY DEF IInv, StartRefused, BeginRun, Removable, setting, ControlTyped
<1>2. CountsTyped'
  BY DEF IInv, StartRefused, BeginRun, Removable, setting, CountsTyped
<1>3. ReusedTyped'
  BY DEF IInv, StartRefused, BeginRun, Removable, ReusedTyped
<1>4. WorkTyped'
  BY DEF IInv, StartRefused, BeginRun, Removable, WorkTyped, Began, Work
<1>5. DestTyped'
  BY DEF IInv, StartRefused, BeginRun, Removable, DestTyped, CountsTyped, WorkTyped, Began,
     StagedSoFar, Sealed, Finished, Own, Published
<1>6. Began'
  BY DEF IInv, StartRefused, BeginRun, Removable, WorkTyped, CountsTyped, Began, Work
<1>7. SourceKnown'
  BY DEF IInv, StartRefused, BeginRun, Removable, WorkTyped, Began, SourceKnown, Work,
     Sources
<1>8. LoopStarts'
  BY DEF IInv, StartRefused, BeginRun, Removable, LoopStarts
<1>9. StagedSoFar'
  BY DEF IInv, StartRefused, BeginRun, Removable, CountsTyped, WorkTyped, Began,
     SourceKnown, LoopStarts, StagedSoFar, Own, Finished, Sealed, Tree, Work, Sources
<1>10. PublishedSoFar'
  BY DEF IInv, StartRefused, BeginRun, Removable, CountsTyped, DestTyped, PublishedSoFar
<1>11. DestinationsOwn'
  BY DEF IInv, StartRefused, BeginRun, Removable, CountsTyped, DestTyped, WorkTyped, Began,
     StagedSoFar, DestinationsOwn, Own, Finished, Sealed, Tree, Work, Published
<1>12. SuccessPublishesAll'
  BY DEF IInv, StartRefused, BeginRun, Removable, CountsTyped, DestTyped, PublishedSoFar,
     SuccessPublishesAll
<1>13. DestSoFar'
  BY DEF IInv, StartRefused, BeginRun, CountsTyped, DestTyped, PublishedSoFar, DestSoFar
<1>14. RootsInOrder'
  BY DEF IInv, StartRefused, BeginRun, CountsTyped, DestTyped, PublishedSoFar, DestSoFar, RootsInOrder
<1> QED
  BY <1>1, <1>2, <1>3, <1>4, <1>5, <1>6, <1>7, <1>8, <1>9, <1>10, <1>11, <1>12, <1>13,
     <1>14 DEF IInv

-----------------------------------------------------------------------------
(* The steps up to the installation.                                        *)

\* Copying touches the source only.
LEMMA CopySourceOK ==
  ASSUME IInv, CopySource  PROVE IInv'
BY DEF IInv, CopySource, setting, ControlTyped, CountsTyped, ReusedTyped, WorkTyped,
   DestTyped, Began, SourceKnown, LoopStarts,
       StagedSoFar, PublishedSoFar, DestinationsOwn, DestSoFar, RootsInOrder,
   SuccessPublishesAll, Own, Finished, Sealed, Tree, Work, Sources

\* The install root is emptied; a reused source skips the patches.
LEMMA PrepareOK ==
  ASSUME IInv, Prepare  PROVE IInv'
<1>1. work' \in Work
  BY LayoutAssumption DEF IInv, Prepare, Began, Work
<1>2. ControlTyped'
  BY DEF IInv, Prepare, Prepared, setting, ControlTyped
<1>3. CountsTyped'
  BY DEF IInv, Prepare, Prepared, setting, CountsTyped
<1>4. ReusedTyped'
  BY DEF IInv, Prepare, Prepared, ReusedTyped
<1>5. WorkTyped'
  BY <1>1 DEF WorkTyped
<1>6. DestTyped'
  BY DEF IInv, Prepare, Prepared, DestTyped, CountsTyped, WorkTyped, Began, StagedSoFar,
     Sealed, Finished, Own, Published
<1>7. Began'
  BY <1>1 DEF IInv, Prepare, Began, CountsTyped
<1>8. SourceKnown'
  BY DEF IInv, Prepare, Prepared, WorkTyped, Began, SourceKnown, Work, Sources
<1>9. LoopStarts'
  BY DEF IInv, Prepare, Prepared, LoopStarts
<1>10. StagedSoFar'
  BY DEF IInv, Prepare, Prepared, CountsTyped, WorkTyped, Began, SourceKnown, LoopStarts,
     StagedSoFar, Own, Finished, Sealed, Tree, Work, Sources
<1>11. PublishedSoFar'
  BY DEF IInv, Prepare, Prepared, CountsTyped, DestTyped, PublishedSoFar
<1>12. DestinationsOwn'
  BY DEF IInv, Prepare, Prepared, CountsTyped, DestTyped, WorkTyped, Began, StagedSoFar,
     DestinationsOwn, Own, Finished, Sealed, Tree, Work, Published
<1>13. SuccessPublishesAll'
  BY DEF IInv, Prepare, Prepared, CountsTyped, DestTyped, PublishedSoFar,
     SuccessPublishesAll
<1>14. DestSoFar'
  BY DEF IInv, Prepare, CountsTyped, DestTyped, PublishedSoFar, DestSoFar
<1>15. RootsInOrder'
  BY DEF IInv, Prepare, CountsTyped, DestTyped, PublishedSoFar, DestSoFar, RootsInOrder
<1> QED
  BY <1>2, <1>3, <1>4, <1>5, <1>6, <1>7, <1>8, <1>9, <1>10, <1>11, <1>12, <1>13, <1>14,
     <1>15 DEF IInv

\* The last patch makes the source the patched one.
LEMMA ApplyPatchesOK ==
  ASSUME IInv, ApplyPatches  PROVE IInv'
<1>1. work' \in Work
  BY DEF IInv, ApplyPatches, Began, Work, Sources
<1>2. ControlTyped'
  BY DEF IInv, ApplyPatches, setting, ControlTyped
<1>3. CountsTyped'
  BY DEF IInv, ApplyPatches, setting, CountsTyped
<1>4. ReusedTyped'
  BY DEF IInv, ApplyPatches, ReusedTyped
<1>5. WorkTyped'
  BY <1>1 DEF WorkTyped
<1>6. DestTyped'
  BY DEF IInv, ApplyPatches, DestTyped, CountsTyped, WorkTyped, Began, StagedSoFar, Sealed,
     Finished, Own, Published
<1>7. Began'
  BY <1>1 DEF IInv, ApplyPatches, Began, CountsTyped
<1>8. SourceKnown'
  BY DEF IInv, ApplyPatches, WorkTyped, Began, SourceKnown, Work, Sources
<1>9. LoopStarts'
  BY DEF IInv, ApplyPatches, LoopStarts
<1>10. StagedSoFar'
  BY DEF IInv, ApplyPatches, CountsTyped, WorkTyped, Began, SourceKnown, LoopStarts,
     StagedSoFar, Own, Finished, Sealed, Tree, Work, Sources
<1>11. PublishedSoFar'
  BY DEF IInv, ApplyPatches, CountsTyped, DestTyped, PublishedSoFar
<1>12. DestinationsOwn'
  BY DEF IInv, ApplyPatches, CountsTyped, DestTyped, WorkTyped, Began, StagedSoFar,
     DestinationsOwn, Own, Finished, Sealed, Tree, Work, Published
<1>13. SuccessPublishesAll'
  BY DEF IInv, ApplyPatches, CountsTyped, DestTyped, PublishedSoFar, SuccessPublishesAll
<1>14. DestSoFar'
  BY DEF IInv, ApplyPatches, CountsTyped, DestTyped, PublishedSoFar, DestSoFar
<1>15. RootsInOrder'
  BY DEF IInv, ApplyPatches, CountsTyped, DestTyped, PublishedSoFar, DestSoFar, RootsInOrder
<1> QED
  BY <1>2, <1>3, <1>4, <1>5, <1>6, <1>7, <1>8, <1>9, <1>10, <1>11, <1>12, <1>13, <1>14,
     <1>15 DEF IInv

\* What is installed is of the source as it is now.
LEMMA BuildAndInstallOK ==
  ASSUME IInv, BuildAndInstall  PROVE IInv'
<1>1. work' \in Work /\ work'.installed = work.source
  BY DEF IInv, BuildAndInstall, Began, Work
<1>2. ControlTyped'
  BY DEF IInv, BuildAndInstall, setting, ControlTyped
<1>3. CountsTyped'
  BY DEF IInv, BuildAndInstall, setting, CountsTyped
<1>4. ReusedTyped'
  BY DEF IInv, BuildAndInstall, ReusedTyped
<1>5. WorkTyped'
  BY <1>1 DEF WorkTyped
<1>6. DestTyped'
  BY DEF IInv, BuildAndInstall, DestTyped, CountsTyped, WorkTyped, Began, StagedSoFar,
     Sealed, Finished, Own, Published
<1>7. Began'
  BY <1>1 DEF IInv, BuildAndInstall, Began, CountsTyped
<1>8. SourceKnown'
  BY <1>1 DEF IInv, BuildAndInstall, Began, SourceKnown, Work
<1>9. LoopStarts'
  BY DEF IInv, BuildAndInstall, LoopStarts
<1>10. StagedSoFar'
  BY DEF IInv, BuildAndInstall, CountsTyped, WorkTyped, Began, SourceKnown, LoopStarts,
     StagedSoFar, Own, Finished, Sealed, Tree, Work, Sources
<1>11. PublishedSoFar'
  BY DEF IInv, BuildAndInstall, CountsTyped, DestTyped, PublishedSoFar
<1>12. DestinationsOwn'
  BY DEF IInv, BuildAndInstall, CountsTyped, DestTyped, WorkTyped, Began, StagedSoFar,
     DestinationsOwn, Own, Finished, Sealed, Tree, Work, Published
<1>13. SuccessPublishesAll'
  BY DEF IInv, BuildAndInstall, CountsTyped, DestTyped, PublishedSoFar, SuccessPublishesAll
<1>14. DestSoFar'
  BY DEF IInv, BuildAndInstall, CountsTyped, DestTyped, PublishedSoFar, DestSoFar
<1>15. RootsInOrder'
  BY DEF IInv, BuildAndInstall, CountsTyped, DestTyped, PublishedSoFar, DestSoFar, RootsInOrder
<1> QED
  BY <1>2, <1>3, <1>4, <1>5, <1>6, <1>7, <1>8, <1>9, <1>10, <1>11, <1>12, <1>13, <1>14,
     <1>15 DEF IInv

-----------------------------------------------------------------------------
(* The loops over the outputs.                                              *)

\* One more output is a tree of this run; those behind it are not looked at.
LEMMA StageOK ==
  ASSUME IInv, Stage  PROVE IInv'
<1>1. StagedTree \in Tree
  BY DEF IInv, Stage, Began, SourceKnown, StagedTree, Tree
<1>2. work' \in Work
  BY <1>1 DEF IInv, Stage, Began, CountsTyped, Work
<1>3. ControlTyped'
  BY DEF IInv, Stage, Advance, StagedTree, setting, ControlTyped
<1>4. CountsTyped'
  BY DEF IInv, Stage, Advance, StagedTree, setting, CountsTyped
<1>5. ReusedTyped'
  BY DEF IInv, Stage, Advance, StagedTree, ReusedTyped
<1>6. WorkTyped'
  BY <1>2 DEF WorkTyped
<1>7. DestTyped'
  BY DEF IInv, Stage, Advance, StagedTree, DestTyped, CountsTyped, WorkTyped, Began,
     StagedSoFar, Sealed, Finished, Own, Published
<1>8. Began'
  BY <1>2 DEF IInv, Stage, Began, CountsTyped
<1>9. SourceKnown'
  BY DEF IInv, Stage, Advance, StagedTree, WorkTyped, Began, SourceKnown, Work, Sources
<1>10. LoopStarts'
  BY DEF IInv, Stage, Advance, StagedTree, LoopStarts
<1>11. StagedSoFar'
  BY DEF IInv, Stage, Advance, StagedTree, CountsTyped, WorkTyped, Began, SourceKnown,
     LoopStarts, StagedSoFar, Own, Finished, Sealed, Tree, Work, Sources
<1>12. PublishedSoFar'
  BY DEF IInv, Stage, Advance, StagedTree, CountsTyped, DestTyped, PublishedSoFar
<1>13. DestinationsOwn'
  BY DEF IInv, Stage, Advance, StagedTree, CountsTyped, DestTyped, WorkTyped, Began,
     StagedSoFar, DestinationsOwn, Own, Finished, Sealed, Tree, Work, Published
<1>14. SuccessPublishesAll'
  BY DEF IInv, Stage, Advance, StagedTree, CountsTyped, DestTyped, PublishedSoFar,
     SuccessPublishesAll
<1>15. DestSoFar'
  BY DEF IInv, Stage, Advance, CountsTyped, DestTyped, PublishedSoFar, DestSoFar
<1>16. RootsInOrder'
  BY DEF IInv, Stage, Advance, CountsTyped, DestTyped, PublishedSoFar, DestSoFar, RootsInOrder
<1> QED
  BY <1>3, <1>4, <1>5, <1>6, <1>7, <1>8, <1>9, <1>10, <1>11, <1>12, <1>13, <1>14, <1>15,
     <1>16 DEF IInv

\* All outputs become whole.
LEMMA FinishOutputsOK ==
  ASSUME IInv, FinishOutputs  PROVE IInv'
<1>1. \A o \in Outputs : Own(work.staged[o])
  BY DEF IInv, FinishOutputs, StagedSoFar
<1>2. \A o \in Outputs : [work.staged[o] EXCEPT !.whole = TRUE] \in Tree
  BY <1>1 DEF Own, Tree
<1>3. work' = [work EXCEPT !.staged = [o \in Outputs |-> [work.staged[o] EXCEPT !.whole = TRUE]]]
  BY DEF IInv, FinishOutputs, Began, Work
<1>4. work' \in Work /\ work'.installed = work.installed
  BY <1>2, <1>3 DEF IInv, FinishOutputs, Began, Work
<1>5. \A o \in Outputs : work'.staged[o] = [work.staged[o] EXCEPT !.whole = TRUE]
  BY <1>3 DEF IInv, FinishOutputs, Began, Work
<1>6. \A o \in Outputs : Finished(work.staged[o])'
  BY <1>1, <1>2, <1>5 DEF FinishOutputs, Finished, Own, Tree
<1>7. ControlTyped'
  BY DEF IInv, FinishOutputs, setting, ControlTyped
<1>8. CountsTyped'
  BY DEF IInv, FinishOutputs, setting, CountsTyped
<1>9. ReusedTyped'
  BY DEF IInv, FinishOutputs, ReusedTyped
<1>10. WorkTyped'
  BY <1>4 DEF WorkTyped
<1>11. DestTyped'
  BY DEF IInv, FinishOutputs, DestTyped, CountsTyped, WorkTyped, Began, StagedSoFar, Sealed,
     Finished, Own, Published
<1>12. Began'
  BY <1>4 DEF IInv, FinishOutputs, Began, CountsTyped
<1>13. SourceKnown'
  BY <1>4 DEF IInv, FinishOutputs, SourceKnown
<1>14. LoopStarts'
  BY DEF IInv, FinishOutputs, LoopStarts
<1>15. StagedSoFar'
  BY <1>6 DEF IInv, FinishOutputs, StagedSoFar, LoopStarts
<1>16. PublishedSoFar'
  BY DEF IInv, FinishOutputs, CountsTyped, DestTyped, PublishedSoFar
<1>17. DestinationsOwn'
  BY DEF IInv, FinishOutputs, CountsTyped, DestTyped, WorkTyped, Began, StagedSoFar,
     DestinationsOwn, Own, Finished, Sealed, Tree, Work, Published
<1>18. SuccessPublishesAll'
  BY DEF IInv, FinishOutputs, CountsTyped, DestTyped, PublishedSoFar, SuccessPublishesAll
<1>19. DestSoFar'
  BY DEF IInv, FinishOutputs, CountsTyped, DestTyped, PublishedSoFar, DestSoFar
<1>20. RootsInOrder'
  BY DEF IInv, FinishOutputs, CountsTyped, DestTyped, PublishedSoFar, DestSoFar, RootsInOrder
<1> QED
  BY <1>7, <1>8, <1>9, <1>10, <1>11, <1>12, <1>13, <1>14, <1>15, <1>16, <1>17, <1>18,
     <1>19, <1>20 DEF IInv

\* One more output is read-only; after the last one all are.
LEMMA SealOK ==
  ASSUME IInv, Seal  PROVE IInv'
<1>1. \A o \in Outputs : Finished(work.staged[o])
  BY DEF IInv, Seal, StagedSoFar
<1>2. next \in Outputs /\ [work.staged[next] EXCEPT !.sealed = TRUE] \in Tree
  BY <1>1 DEF IInv, CountsTyped, Finished, Own, Tree
<1>3. work' = [work EXCEPT !.staged = [work.staged EXCEPT ![next] = [work.staged[next] EXCEPT !.sealed = TRUE]]]
  BY <1>2 DEF IInv, Seal, Began, Work
<1>4. work' \in Work /\ work'.installed = work.installed
  BY <1>2, <1>3 DEF IInv, Seal, Began, Work
<1>5. work.staged \in [Outputs -> Tree \cup {None}] /\ work'.staged = [work.staged EXCEPT ![next] = [work.staged[next] EXCEPT !.sealed = TRUE]]
  BY <1>3 DEF IInv, Seal, Began, Work
<1>6. \A o \in Outputs : work'.staged[o] = IF o = next THEN [work.staged[o] EXCEPT !.sealed = TRUE] ELSE work.staged[o]
  BY <1>5
<1>7. \A o \in Outputs : Finished(work.staged[o])'
  BY <1>1, <1>2, <1>6 DEF Seal, Finished, Own, Tree
<1>8. \A o \in Outputs : o <= next => Sealed(work.staged[o])'
  BY <1>1, <1>2, <1>6, <1>7 DEF IInv, Seal, StagedSoFar, CountsTyped, Sealed, Finished, Own,
     Tree
<1>9. ControlTyped'
  BY DEF IInv, Seal, Advance, setting, ControlTyped
<1>10. CountsTyped'
  BY DEF IInv, Seal, Advance, setting, CountsTyped
<1>11. ReusedTyped'
  BY DEF IInv, Seal, Advance, ReusedTyped
<1>12. WorkTyped'
  BY <1>4 DEF WorkTyped
<1>13. DestTyped'
  BY DEF IInv, Seal, Advance, DestTyped, CountsTyped, WorkTyped, Began, StagedSoFar, Sealed,
     Finished, Own, Published
<1>14. Began'
  BY <1>4 DEF IInv, Seal, Advance, Began, CountsTyped
<1>15. SourceKnown'
  BY <1>4 DEF IInv, Seal, Advance, SourceKnown
<1>16. LoopStarts'
  BY DEF IInv, Seal, Advance, LoopStarts
<1>17. StagedSoFar'
  <2>1. CASE next = Splits + 1
    <3>1. pc' = "publish" /\ next' = 1
      BY <2>1 DEF Seal, Advance
    <3>2. \A o \in Outputs : Sealed(work.staged[o])'
      BY <1>8, <2>1
    <3> QED
      BY <3>1, <3>2 DEF StagedSoFar
  <2>2. CASE next # Splits + 1
    <3>1. pc' = "seal" /\ next' = next + 1
      BY <2>2 DEF Seal, Advance
    <3>2. \A o \in Outputs : o < next' => Sealed(work.staged[o])'
      BY <1>2, <1>8, <3>1
    <3> QED
      BY <1>7, <3>1, <3>2 DEF StagedSoFar
  <2> QED
    BY <2>1, <2>2
<1>18. PublishedSoFar'
  BY DEF IInv, Seal, Advance, CountsTyped, DestTyped, PublishedSoFar
<1>19. DestinationsOwn'
  BY DEF IInv, Seal, Advance, CountsTyped, DestTyped, WorkTyped, Began, StagedSoFar,
     DestinationsOwn, Own, Finished, Sealed, Tree, Work, Published
<1>20. SuccessPublishesAll'
  BY DEF IInv, Seal, Advance, CountsTyped, DestTyped, PublishedSoFar, SuccessPublishesAll
<1>21. DestSoFar'
  BY DEF IInv, Seal, Advance, CountsTyped, DestTyped, PublishedSoFar, DestSoFar
<1>22. RootsInOrder'
  BY DEF IInv, Seal, Advance, CountsTyped, DestTyped, PublishedSoFar, DestSoFar, RootsInOrder
<1> QED
  BY <1>9, <1>10, <1>11, <1>12, <1>13, <1>14, <1>15, <1>16, <1>17, <1>18, <1>19, <1>20,
     <1>21, <1>22 DEF IInv

\* The tree that is renamed is a sealed one of this run.
LEMMA PublishOK ==
  ASSUME IInv, Publish  PROVE IInv'
<1>1. next \in Outputs /\ Sealed(work.staged[next])
  BY DEF IInv, Publish, CountsTyped, StagedSoFar
<1>2. [tree |-> work.staged[next], rootWritable |-> TRUE] \in Published
  BY <1>1 DEF Sealed, Finished, Own, Published
<1>3. work' \in Work
  BY <1>1 DEF IInv, Publish, Began, Work
<1>4. \A o \in Outputs : o # next => dest'[o] = dest[o]
  BY <1>1 DEF IInv, Publish, DestTyped
<1>5. dest'[next] = [tree |-> work.staged[next], rootWritable |-> TRUE] /\ dest'[next] # None
  BY <1>1, <1>2, NoneAssumption DEF IInv, Publish, DestTyped
<1>6. ControlTyped'
  BY DEF IInv, Publish, setting, ControlTyped
<1>7. CountsTyped'
  BY DEF IInv, Publish, setting, CountsTyped
<1>8. ReusedTyped'
  BY DEF IInv, Publish, ReusedTyped
<1>9. WorkTyped'
  BY <1>3 DEF WorkTyped
<1>10. DestTyped'
  BY <1>2, <1>1 DEF IInv, Publish, DestTyped
<1>11. Began'
  BY <1>3 DEF IInv, Publish, Began, CountsTyped
<1>12. SourceKnown'
  BY DEF IInv, Publish, WorkTyped, Began, SourceKnown, Work, Sources
<1>13. LoopStarts'
  BY DEF IInv, Publish, LoopStarts
<1>14. StagedSoFar'
  BY DEF IInv, Publish, CountsTyped, WorkTyped, Began, SourceKnown, LoopStarts, StagedSoFar,
     Own, Finished, Sealed, Tree, Work, Sources
<1>15. PublishedSoFar'
  BY <1>4, <1>5 DEF IInv, Publish, CountsTyped, PublishedSoFar
<1>16. DestinationsOwn'
  BY <1>1, <1>4, <1>5 DEF IInv, Publish, DestinationsOwn, Sealed, Finished, Own
<1>17. SuccessPublishesAll'
  BY DEF IInv, Publish, CountsTyped, DestTyped, PublishedSoFar, SuccessPublishesAll
<1>18. DestSoFar'
  BY <1>1, <1>4, <1>5 DEF IInv, Publish, CountsTyped, DestTyped, PublishedSoFar, DestSoFar
<1>19. RootsInOrder'
  BY <1>1, <1>4, <1>5 DEF IInv, Publish, CountsTyped, DestTyped, PublishedSoFar, DestSoFar, RootsInOrder
<1> QED
  BY <1>6, <1>7, <1>8, <1>9, <1>10, <1>11, <1>12, <1>13, <1>14, <1>15, <1>16, <1>17,
     <1>18, <1>19 DEF IInv

\* One more output is there for good; after the last one the run has succeeded.
LEMMA ResealOK ==
  ASSUME IInv, Reseal  PROVE IInv'
<1>1. next \in Outputs /\ dest[next] \in Published /\ Sealed(dest[next].tree)
  BY DEF IInv, Reseal, CountsTyped, DestTyped, PublishedSoFar, DestinationsOwn
<1>2. [dest[next] EXCEPT !.rootWritable = FALSE] \in Published
  BY <1>1 DEF Published
<1>3. \A o \in Outputs : o # next => dest'[o] = dest[o]
  BY <1>1 DEF IInv, Reseal, DestTyped
<1>4. dest'[next] = [dest[next] EXCEPT !.rootWritable = FALSE]
  BY <1>1 DEF IInv, Reseal, DestTyped
<1>5. dest'[next] # None /\ dest'[next].tree = dest[next].tree /\ ~dest'[next].rootWritable
  BY <1>1, <1>2, <1>4, NoneAssumption DEF Published
<1>6. ControlTyped'
  BY DEF IInv, Reseal, Discard, setting, ControlTyped
<1>7. CountsTyped'
  BY DEF IInv, Reseal, Discard, setting, CountsTyped
<1>8. ReusedTyped'
  BY DEF IInv, Reseal, Discard, ReusedTyped
<1>9. WorkTyped'
  BY DEF IInv, Reseal, Discard, WorkTyped, Began, Work
<1>10. DestTyped'
  BY <1>1, <1>2, <1>3, <1>4 DEF IInv, Reseal, DestTyped
<1>11. Began'
  BY DEF IInv, Reseal, Discard, WorkTyped, CountsTyped, Began, Work
<1>12. SourceKnown'
  BY DEF IInv, Reseal, Discard, WorkTyped, Began, SourceKnown, Work, Sources
<1>13. LoopStarts'
  BY DEF IInv, Reseal, Discard, LoopStarts
<1>14. StagedSoFar'
  BY DEF IInv, Reseal, Discard, CountsTyped, WorkTyped, Began, SourceKnown, LoopStarts,
     StagedSoFar, Own, Finished, Sealed, Tree, Work, Sources
<1>15. PublishedSoFar'
  BY <1>1, <1>3, <1>5 DEF IInv, Reseal, CountsTyped, PublishedSoFar
<1>16. DestinationsOwn'
  BY <1>1, <1>3, <1>5 DEF IInv, Reseal, DestinationsOwn, Sealed, Finished, Own
<1>17. SuccessPublishesAll'
  BY <1>1, <1>3, <1>5 DEF IInv, Reseal, CountsTyped, PublishedSoFar, SuccessPublishesAll
<1>18. DestSoFar'
  BY <1>1, <1>3, <1>5 DEF IInv, Reseal, CountsTyped, DestTyped, PublishedSoFar, DestSoFar
<1>19. RootsInOrder'
  BY <1>1, <1>3, <1>5 DEF IInv, Reseal, CountsTyped, DestTyped, PublishedSoFar, DestSoFar, RootsInOrder
<1> QED
  BY <1>6, <1>7, <1>8, <1>9, <1>10, <1>11, <1>12, <1>13, <1>14, <1>15, <1>16, <1>17,
     <1>18, <1>19 DEF IInv

-----------------------------------------------------------------------------
(* The end of a run.                                                        *)

\* A refused run leaves destinations alone.
LEMMA RunRefusedOK ==
  ASSUME IInv, RunRefused  PROVE IInv'
BY DEF IInv, RunRefused, Refused, Prepared, Fail, Discard, setting, ControlTyped,
   CountsTyped, ReusedTyped, WorkTyped, DestTyped, Began, SourceKnown, LoopStarts,
       StagedSoFar, PublishedSoFar, DestinationsOwn, DestSoFar, RootsInOrder,
   SuccessPublishesAll, Own, Finished, Sealed, Tree, Work, Sources

\* A failing step leaves destinations alone.
LEMMA FaultOK ==
  ASSUME IInv, Fault  PROVE IInv'
BY DEF IInv, Fault, Fail, Discard, setting, ControlTyped, CountsTyped, ReusedTyped,
   WorkTyped, DestTyped, Began, SourceKnown, LoopStarts,
       StagedSoFar, PublishedSoFar, DestinationsOwn, DestSoFar, RootsInOrder,
   SuccessPublishesAll, Own, Finished, Sealed, Tree, Work, Sources

\* A killed run leaves everything alone.
LEMMA KillOK ==
  ASSUME IInv, Kill  PROVE IInv'
BY DEF IInv, Kill, setting, ControlTyped, CountsTyped, ReusedTyped, WorkTyped, DestTyped,
   Began, SourceKnown, LoopStarts,
       StagedSoFar, PublishedSoFar, DestinationsOwn, DestSoFar, RootsInOrder,
   SuccessPublishesAll, Own, Finished, Sealed, Tree, Work, Sources

\* Nothing happens.
LEMMA StutterOK ==
  ASSUME IInv, UNCHANGED vars  PROVE IInv'
BY DEF IInv, vars, setting, ControlTyped, CountsTyped, ReusedTyped, WorkTyped, DestTyped,
   Began, SourceKnown, LoopStarts,
       StagedSoFar, PublishedSoFar, DestinationsOwn, DestSoFar, RootsInOrder,
   SuccessPublishesAll, Own, Finished, Sealed, Tree, Work, Sources

-----------------------------------------------------------------------------
(* The theorems.                                                            *)

\* The invariant holds of every run, fault and kill.
THEOREM Invariance == Spec => []IInv
<1>1. IInv /\ [Next]_vars => IInv'
  <2> SUFFICES ASSUME IInv, [Next]_vars  PROVE IInv'
    OBVIOUS
  <2>1. CASE Start
    BY <2>1, StartFreshOK, StartReusingOK, StartRefusedOK DEF Start
  <2>2. CASE Step
    BY <2>2, CopySourceOK, PrepareOK, ApplyPatchesOK, BuildAndInstallOK, StageOK,
       FinishOutputsOK,
       SealOK, PublishOK, ResealOK, RunRefusedOK DEF Step
  <2>3. CASE Fault
    BY <2>3, FaultOK
  <2>4. CASE Kill
    BY <2>4, KillOK
  <2>5. CASE UNCHANGED vars
    BY <2>5, StutterOK
  <2> QED
    BY <2>1, <2>2, <2>3, <2>4, <2>5 DEF Next
<1> QED
  BY InitOK, <1>1, PTL DEF Spec

\* Every variable of a builder keeps its type.
THEOREM TypeCorrect == Spec => []TypeOK
<1>1. IInv => TypeOK
  BY DEF IInv, TypeOK, ControlTyped, CountsTyped, ReusedTyped, WorkTyped, DestTyped
<1> QED
  BY <1>1, Invariance, PTL

\* However many runs failed or were killed, what is at a destination is complete
\* and read-only below its root, and a root is writable for the last output that
\* is there only, while the run is at it or after one that stopped there.
THEOREM DestinationsWhole == Spec => []PublishedWhole
<1>1. IInv => PublishedWhole
  BY DEF IInv, DestinationsOwn, Sealed, Finished, RootsInOrder, PublishedWhole
<1> QED
  BY <1>1, Invariance, PTL

\* The outputs that are published together were staged by the same run.
THEOREM OneRunPublishes == Spec => []OutputsOfOneRun
<1>1. IInv => OutputsOfOneRun
  BY DEF IInv, DestinationsOwn, Sealed, Finished, Own, OutputsOfOneRun
<1> QED
  BY <1>1, Invariance, PTL

\* A run that succeeds has published every output and left none writable.
THEOREM SuccessIsComplete == Spec => []SuccessPublishesAll
<1>1. IInv => SuccessPublishesAll
  BY DEF IInv
<1> QED
  BY <1>1, Invariance, PTL

\* What a run with a fresh work directory publishes is built from the source
\* with every patch applied.
THEOREM FreshIsPatched == Spec => []FreshBuildsPatched
<1>1. IInv => FreshBuildsPatched
  BY DEF IInv, DestinationsOwn, Sealed, Finished, Own, FreshBuildsPatched
<1> QED
  BY <1>1, Invariance, PTL
=============================================================================
