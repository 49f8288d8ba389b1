---------------------------- MODULE HydratedUse ----------------------------
(* The tools that bring a tree of the store, or another tree, to an output: *)
(* project_hydrated_store_object, verify_hydrated_store_object, stage_tree. *)
(* The store entry may be damaged at any moment, reads take time, a run may *)
(* be killed anywhere, and Buck2 removes the output before it runs an       *)
(* action again (a person need not).                                        *)
EXTENDS Naturals

CONSTANTS Pinned,       \* the tree of the pinned manifest
          Damaged,      \* any other tree
          MaxDamages,   \* bound: changes of the entry
          MaxTasks      \* bound: runs

ASSUME PinnedAssumption == Pinned # Damaged /\ {Pinned, Damaged} \cap {"none", "torn"} = {}

VARIABLES entry,        \* the tree under the store path, or none
          output,       \* the tree in the output directory, torn or none
          sealed,       \* whether the output is read-only
          stamp,        \* the stamp of verify_hydrated_store_object
          task,         \* none, project, verify or stage
          at,           \* its next step, done or failed
          cleared,      \* whether the run found its output cleared
          source,       \* the entry when the copy began, torn if it changed since
          damages, tasks

useVars == <<entry, output, sealed, stamp, task, at, cleared, source, damages, tasks>>
environment == <<entry, damages, tasks>>

UseInit ==
  /\ entry = "none" /\ output = "none" /\ sealed = FALSE /\ stamp = FALSE
  /\ task = "none" /\ at = "done" /\ cleared = TRUE /\ source = "none" /\ damages = 0 /\ tasks = 0

Hydrated ==
  /\ entry = "none" /\ entry' = Pinned
  /\ UNCHANGED <<output, sealed, stamp, task, at, cleared, source, damages, tasks>>

Damage(t) ==
  /\ damages < MaxDamages /\ damages' = damages + 1
  /\ entry # "none" /\ entry' = t
  /\ source' = IF t = source THEN source ELSE "torn"
  /\ UNCHANGED <<output, sealed, stamp, task, at, cleared, tasks>>

\* Buck2 clears outputs; a person may run a tool over what is there.
Run(t, clear) ==
  /\ at \in {"done", "failed"} /\ tasks < MaxTasks /\ tasks' = tasks + 1
  /\ task' = t /\ stamp' = FALSE /\ cleared' = clear
  /\ at' = IF t = "stage" THEN "output" ELSE "entry"
  /\ output' = IF clear THEN "none" ELSE output
  /\ sealed' = (sealed /\ ~clear)
  /\ UNCHANGED <<entry, source, damages>>

Fail ==
  /\ at \notin {"done", "failed"}
  /\ at' = "failed"
  /\ UNCHANGED <<environment, output, sealed, stamp, task, cleared, source>>

\* verify_existing_tree on the entry.
CheckEntry ==
  /\ at = "entry"
  /\ entry = Pinned
  /\ at' = IF task = "verify" THEN "stamp" ELSE "output"
  /\ UNCHANGED <<environment, output, sealed, stamp, task, cleared, source>>

WriteStamp ==
  /\ at = "stamp"
  /\ stamp' = TRUE /\ at' = "done"
  /\ UNCHANGED <<environment, output, sealed, task, cleared, source>>

\* stage_tree takes an output that is there as it is, if its source is there
\* too; a projection refuses it.
OutputThere ==
  /\ at = "output" /\ output # "none" /\ entry # "none"
  /\ at' = IF task = "stage" THEN "done" ELSE "failed"
  /\ UNCHANGED <<environment, output, sealed, stamp, task, cleared, source>>

BeginCopy ==
  /\ at = "output" /\ output = "none" /\ entry # "none"
  /\ source' = entry /\ output' = "torn" /\ at' = "copy"
  /\ UNCHANGED <<environment, sealed, stamp, task, cleared>>

\* What was copied is of one tree only if the entry did not change meanwhile;
\* if it did, the copy may mix both or be of either.
EndCopy ==
  /\ at = "copy"
  /\ output' \in IF source = "torn" THEN {Pinned, Damaged, "torn"} ELSE {source}
  /\ at' = "seal"
  /\ UNCHANGED <<environment, sealed, stamp, task, cleared, source>>

\* Mutant: the projected copy is not compared with the manifest.
SealUnverified ==
  /\ at = "seal"
  /\ sealed' = TRUE /\ at' = "done"
  /\ UNCHANGED <<environment, output, stamp, task, cleared, source>>

\* normalize_tree_mtimes and make_tree_read_only.
Seal ==
  /\ at = "seal"
  /\ sealed' = TRUE
  /\ at' = IF task = "project" THEN "compare" ELSE "done"
  /\ UNCHANGED <<environment, output, stamp, task, cleared, source>>

CompareCopy ==
  /\ at = "compare" /\ output = Pinned
  /\ at' = "done"
  /\ UNCHANGED <<environment, output, sealed, stamp, task, cleared, source>>

UseNext ==
  \/ Hydrated \/ \E t \in {Pinned, Damaged} : Damage(t)
  \/ \E t \in {"project", "verify", "stage"}, clear \in BOOLEAN : Run(t, clear)
  \/ Fail \/ CheckEntry \/ WriteStamp \/ OutputThere \/ BeginCopy \/ EndCopy
  \/ Seal \/ CompareCopy

UseSpec == UseInit /\ [][UseNext]_useVars

-----------------------------------------------------------------------------
\* A projection that succeeds has put the pinned tree, read-only, into its
\* output, whatever happened to the entry between the reads and whatever an
\* earlier run left; a staging that found its output cleared and succeeds has
\* copied all of its source unless that changed; and no stamp is written for
\* an entry that is missing.
UsedIsPinned ==
  /\ task = "project" /\ at = "done" => output = Pinned /\ sealed
  /\ task = "stage" /\ at = "done" /\ cleared /\ damages = 0 => output = Pinned /\ sealed
  /\ stamp /\ damages = 0 => entry = Pinned
=============================================================================
