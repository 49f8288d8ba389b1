---------------------------- MODULE PackageBuild ----------------------------
(****************************************************************************)
(* A package builder (pkgs_configure_make_install, and pkgs_make_install,   *)
(* which has the same shape without --work-dir): the work directory it      *)
(* starts from, the source it copies and patches, the sealed outputs it     *)
(* stages there, and their publication one rename after the other.          *)
(*                                                                          *)
(* Runs of the same action follow each other and may find what an earlier   *)
(* run left behind: under BUCK_SCRATCH_PATH, or in a --work-dir. A run may  *)
(* fail at any step, or be killed. What a command does to the source and    *)
(* the contents of an output are abstracted to which run built it and from  *)
(* a source in which state.                                                 *)
(****************************************************************************)
EXTENDS Naturals

CONSTANTS
  Modes,         \* kinds of work directory: "scratch", "temp", "work_dir"
  Splits,        \* number of split outputs
  OutOfSource,   \* BOOLEAN: the build directory is apart from the source
  Privileges,    \* of BOOLEAN: may the builder unlink in read-only directories
  MaxRuns,       \* bound on the runs of the action
  MaxFaults,     \* bound on failing steps
  MaxKills,      \* bound on killed runs
  None

ASSUME ModesAssumption == Modes \subseteq {"scratch", "temp", "work_dir"}
ASSUME PrivilegesAssumption == Privileges \subseteq BOOLEAN
ASSUME LayoutAssumption == OutOfSource \in BOOLEAN
ASSUME CountsAssumption ==
  Splits \in Nat /\ MaxRuns \in Nat /\ MaxFaults \in Nat /\ MaxKills \in Nat

VARIABLES
  mode,          \* how this action gets its work directory
  privileged,    \* whether its builder may unlink in read-only directories
  flat,          \* outputs declared as a list of plain files
  pc,            \* where the current run is
  run,           \* number of the current run
  reused,        \* whether it reuses a work directory
  next,          \* output the loop of the current phase is at
  work,          \* the work directory, or None
  dest,          \* output -> what is at its destination, or None
  faults, kills

\* What a behaviour does not change.
setting == <<mode, privileged, flat>>
vars == <<setting, pc, run, reused, next, work, dest, faults, kills>>

\* Output 1 is the primary one.
Primary == 1
Outputs == 1 .. (Splits + 1)

Sources == {"absent", "copying", "copied", "patching", "patched"}

\* An output tree: the run that staged it, the state of the source it was
\* built from, whether it has all its contents, whether it is read-only (but
\* for its root, once it is being published).
Tree == [run : 1 .. MaxRuns, source : Sources, whole : BOOLEAN, sealed : BOOLEAN]

Work ==
  [source : Sources, buildDir : BOOLEAN, installed : Sources \cup {None},
   staged : [Outputs -> Tree \cup {None}]]

Published == [tree : Tree, rootWritable : BOOLEAN]

ASSUME NoneAssumption ==
  None \notin Sources /\ None \notin Work /\ None \notin Tree /\ None \notin Published

Ended == {"idle", "ok", "failed", "killed"}
Phases == {"copy", "prepare", "patch", "build", "stage", "finish", "seal", "publish", "reseal"}

TypeOK ==
  /\ mode \in Modes
  /\ privileged \in Privileges
  /\ flat \subseteq Outputs
  /\ pc \in Ended \cup Phases
  /\ run \in 0 .. MaxRuns
  /\ reused \in BOOLEAN
  /\ next \in Outputs
  /\ work \in Work \cup {None}
  /\ dest \in [Outputs -> Published \cup {None}]
  /\ faults \in 0 .. MaxFaults
  /\ kills \in 0 .. MaxKills

EmptyWork ==
  [source |-> "absent", buildDir |-> FALSE, installed |-> None,
   staged |-> [o \in Outputs |-> None]]

Init ==
  /\ mode \in Modes
  /\ privileged \in Privileges
  /\ flat \in SUBSET Outputs
  /\ pc = "idle"
  /\ run = 0
  /\ reused = FALSE
  /\ next = 1
  /\ work = None
  /\ dest = [o \in Outputs |-> None]
  /\ faults = 0
  /\ kills = 0

\* fs::remove_dir_all of a work directory. Sealed directories below it can
\* only be emptied with privilege.
Removable ==
  privileged \/ \A o \in Outputs : work.staged[o] # None => ~work.staged[o].sealed

\* Each run has its outputs to itself: nothing is at their destinations.
BeginRun ==
  /\ pc \in Ended
  /\ run < MaxRuns
  /\ run' = run + 1
  /\ next' = 1
  /\ dest' = [o \in Outputs |-> None]
  /\ UNCHANGED <<setting, faults, kills>>

\* Mutant: a scratch directory that is there is not removed.
StartFreshNeverRemoves ==
  /\ BeginRun
  /\ mode = "temp" \/ work = None
  /\ work' = EmptyWork
  /\ reused' = FALSE
  /\ pc' = "copy"

\* A run that finds an empty work directory, or makes one.
StartFresh ==
  /\ BeginRun
  /\ \/ mode = "scratch" /\ (work # None => Removable)
     \/ mode = "temp"
     \/ mode = "work_dir" /\ work = None
  /\ work' = EmptyWork
  /\ reused' = FALSE
  /\ pc' = "copy"

\* WorkDir::new with --work-dir and --reuse-work-dir.
StartReusing ==
  /\ BeginRun
  /\ mode = "work_dir"
  /\ work # None
  /\ reused' = TRUE
  /\ pc' = "prepare"
  /\ UNCHANGED work

\* WorkDir::new fails: a scratch directory that cannot be removed, or a work
\* directory that is there without --reuse-work-dir.
StartRefused ==
  /\ BeginRun
  /\ work # None
  /\ \/ mode = "scratch" /\ ~Removable
     \/ mode = "work_dir"
  /\ pc' = "failed"
  /\ reused' = FALSE
  /\ UNCHANGED work

\* common::copy_tree of the source, which may stop in the middle.
CopySource ==
  /\ pc = "copy"
  /\ IF work.source = "absent"
       THEN work' = [work EXCEPT !.source = "copying"] /\ UNCHANGED pc
       ELSE work' = [work EXCEPT !.source = "copied"] /\ pc' = "prepare"
  /\ UNCHANGED <<setting, run, reused, next, dest, faults, kills>>

\* What a reused work directory must have.
Prepared == IF OutOfSource THEN work.buildDir ELSE work.source # "absent"

\* The build directory is made, or must be there; the install root is emptied;
\* then patches are next, which a reused source is taken to have already.
Prepare ==
  /\ pc = "prepare"
  /\ reused => Prepared
  /\ work' = [work EXCEPT !.buildDir = OutOfSource, !.installed = None]
  /\ pc' = IF reused THEN "build" ELSE "patch"
  /\ UNCHANGED <<setting, run, reused, next, dest, faults, kills>>

\* Mutant: only the first patch is applied.
ApplyOnePatch ==
  /\ pc = "patch"
  /\ work' = [work EXCEPT !.source = "patching"]
  /\ pc' = "build"
  /\ UNCHANGED <<setting, run, reused, next, dest, faults, kills>>

\* build::apply_patches.
ApplyPatches ==
  /\ pc = "patch"
  /\ IF work.source = "copied"
       THEN work' = [work EXCEPT !.source = "patching"] /\ UNCHANGED pc
       ELSE work' = [work EXCEPT !.source = "patched"] /\ pc' = "build"
  /\ UNCHANGED <<setting, run, reused, next, dest, faults, kills>>

\* configure, make, and make install into the install root.
BuildAndInstall ==
  /\ pc = "build"
  /\ work' = [work EXCEPT !.installed = work.source]
  /\ pc' = "stage"
  /\ next' = 1
  /\ UNCHANGED <<setting, run, reused, dest, faults, kills>>

StagedTree == [run |-> run, source |-> work.installed, whole |-> FALSE, sealed |-> FALSE]

\* The loops over outputs end with the last one.
Advance(phase, then) ==
  IF next = Splits + 1
    THEN pc' = then /\ next' = 1
    ELSE pc' = phase /\ next' = next + 1

\* Mutant: an output that is staged already is taken as it is.
StageOver ==
  /\ pc = "stage"
  /\ work' = [work EXCEPT !.staged[next] = IF @ = None THEN StagedTree ELSE @]
  /\ Advance("stage", "finish")
  /\ UNCHANGED <<setting, run, reused, dest, faults, kills>>

\* Whether output o can be copied to its staging directory. A copy makes each
\* directory and link anew and fails if it is there; plain files it overwrites,
\* unless they are sealed. The staging directory of an output that is declared
\* as a list of paths may be there itself.
CanStage(o) ==
  work.staged[o] # None => o \in flat /\ (privileged \/ ~work.staged[o].sealed)

\* copy_split_staged_prefix: the primary output is copied out of the install
\* root, then the paths of each split output are moved out of it.
Stage ==
  /\ pc = "stage"
  /\ CanStage(next)
  /\ work' = [work EXCEPT !.staged[next] = StagedTree]
  /\ Advance("stage", "finish")
  /\ UNCHANGED <<setting, run, reused, dest, faults, kills>>

\* The passes over the staged outputs: suffixes, libtool archives, work
\* directory paths, linker scripts, stripping, symlinks, bytecode.
FinishOutputs ==
  /\ pc = "finish"
  /\ work' = [work EXCEPT !.staged = [o \in Outputs |-> [@[o] EXCEPT !.whole = TRUE]]]
  /\ pc' = "seal"
  /\ UNCHANGED <<setting, run, reused, next, dest, faults, kills>>

\* Mutant: the split outputs are not sealed.
SealPrimary ==
  /\ pc = "seal"
  /\ work' = [work EXCEPT !.staged[Primary].sealed = TRUE]
  /\ pc' = "publish"
  /\ UNCHANGED <<setting, run, reused, next, dest, faults, kills>>

\* normalize_tree_mtimes and make_tree_read_only.
Seal ==
  /\ pc = "seal"
  /\ work' = [work EXCEPT !.staged[next].sealed = TRUE]
  /\ Advance("seal", "publish")
  /\ UNCHANGED <<setting, run, reused, dest, faults, kills>>

\* publish_sealed_output: the root is made writable to be renamed ...
Publish ==
  /\ pc = "publish"
  /\ dest' = [dest EXCEPT ![next] = [tree |-> work.staged[next], rootWritable |-> TRUE]]
  /\ work' = [work EXCEPT !.staged[next] = None]
  /\ pc' = "reseal"
  /\ UNCHANGED <<setting, run, reused, next, faults, kills>>

\* A temporary directory goes with the run.
Discard == work' = IF mode = "temp" THEN None ELSE work

\* Mutant: the run ends with the primary output.
ResealEnds ==
  /\ pc = "reseal"
  /\ dest' = [dest EXCEPT ![next].rootWritable = FALSE]
  /\ pc' = "ok"
  /\ Discard
  /\ next' = 1
  /\ UNCHANGED <<setting, run, reused, faults, kills>>

\* ... and read-only again at its destination. After the last output the run
\* has succeeded.
Reseal ==
  /\ pc = "reseal"
  /\ dest' = [dest EXCEPT ![next].rootWritable = FALSE]
  /\ IF next = Splits + 1
       THEN pc' = "ok" /\ Discard
       ELSE pc' = "publish" /\ UNCHANGED work
  /\ next' = IF next = Splits + 1 THEN 1 ELSE next + 1
  /\ UNCHANGED <<setting, run, reused, faults, kills>>

\* Errors the state of the work directory forces.
Refused ==
  \/ pc = "prepare" /\ reused /\ ~Prepared
  \/ pc = "stage" /\ ~CanStage(next)

Fail ==
  /\ pc' = "failed"
  /\ next' = 1
  /\ Discard
  /\ UNCHANGED <<setting, run, reused, dest, kills>>

RunRefused == Refused /\ Fail /\ UNCHANGED faults

\* A command or a system call of the current step fails.
Fault ==
  /\ pc \in Phases
  /\ faults < MaxFaults
  /\ faults' = faults + 1
  /\ Fail

Kill ==
  /\ pc \in Phases
  /\ kills < MaxKills
  /\ kills' = kills + 1
  /\ pc' = "killed"
  /\ next' = 1
  /\ UNCHANGED <<setting, run, reused, work, dest, faults>>

Start == StartFresh \/ StartReusing \/ StartRefused

Step ==
  \/ CopySource \/ Prepare \/ ApplyPatches \/ BuildAndInstall
  \/ Stage \/ FinishOutputs \/ Seal \/ Publish \/ Reseal
  \/ RunRefused

Next == Start \/ Step \/ Fault \/ Kill

Spec == Init /\ [][Next]_vars

\* A running builder goes on, and whoever asked for the package asks again
\* until it is built.
FairSpec == Spec /\ WF_vars(Step) /\ WF_vars(pc # "ok" /\ Start)

-----------------------------------------------------------------------------
\* What is at a destination is complete and read-only below its root. Outputs
\* appear in their order, and a root is writable for the last one that is there
\* only: while the run is between its rename and the last change of its mode,
\* and for good if the run failed or was killed there.
PublishedWhole ==
  \A o \in Outputs : dest[o] # None =>
    /\ dest[o].tree.whole /\ dest[o].tree.sealed
    /\ dest[o].rootWritable => pc \in {"reseal", "failed", "killed"}
    /\ \A q \in Outputs : q < o => dest[q] # None /\ ~dest[q].rootWritable

\* The outputs of a run come from one installation. What an earlier run staged
\* is never published with them, though the names of the staging directories
\* are the same in every run.
OutputsOfOneRun ==
  \A o \in Outputs : dest[o] # None => dest[o].tree.run = run

\* A run that succeeds has published every output, and sealed it for good.
SuccessPublishesAll ==
  pc = "ok" => \A o \in Outputs : dest[o] # None /\ ~dest[o].rootWritable

\* A build that starts from an empty work directory builds the patched source.
FreshBuildsPatched ==
  ~reused => \A o \in Outputs : dest[o] # None => dest[o].tree.source = "patched"

\* tests/realize.rs expects as much of a build that reuses its work directory.
ReuseBuildsPatched ==
  pc = "ok" => \A o \in Outputs : dest[o].tree.source = "patched"

\* Under BUCK_SCRATCH_PATH, where a privileged run removes what earlier ones
\* left, and in a temporary directory, the build is done in the end, whatever
\* failed or was killed before.
RetriesBuild ==
  mode = "temp" \/ (mode = "scratch" /\ privileged) => <>(pc = "ok")
=============================================================================
