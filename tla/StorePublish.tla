---------------------------- MODULE StorePublish ----------------------------
(****************************************************************************)
(* pkgs_hydrate_store_object: publication of one verified store object      *)
(* below /pkgs/store (publish_validated_store_object and the parts of       *)
(* materialize_validated_payload that touch the file system).               *)
(*                                                                          *)
(* Several hydrators run at once. Each takes flock(LOCK_EX) on              *)
(* <entry>.buckpkgs.lock, reuses an existing destination whose canonical    *)
(* hash is the pinned one, or expands the archive in <entry>.buckpkgs.tmp,  *)
(* seals it and renames it into place. A hydrator may be killed between     *)
(* any two steps: the kernel drops its lock, its temporary tree stays. A    *)
(* system call may fail. Buck2's materializer publishes into the same store *)
(* without taking the lock.                                                 *)
(****************************************************************************)
EXTENDS Naturals

CONSTANTS
  Hydrators,     \* processes running pkgs_hydrate_store_object
  Entries,       \* store entries: <key>-<store name>
  Trees,         \* canonical trees, one per canonical tree hash
  Manifests,     \* object manifests: records with an entry and its pinned tree
  NativeTrees,   \* trees Buck2's materializer may publish under an entry
  Privileged,    \* may the hydrator unlink inside a read-only directory?
  MaxCrashes,    \* bound: how many hydrators are killed in a behaviour
  MaxFaults,     \* bound: how many system calls fail in a behaviour
  None

ASSUME ManifestsAssumption == \A m \in Manifests : m.entry \in Entries /\ m.tree \in Trees
ASSUME NativeAssumption == NativeTrees \subseteq Trees
ASSUME NoneAssumption == None \notin Hydrators \cup Manifests
ASSUME NoneIsNoTree == None \notin Trees
ASSUME BoundsAssumption == MaxCrashes \in Nat /\ MaxFaults \in Nat
ASSUME PrivilegedAssumption == Privileged \in BOOLEAN

VARIABLES
  dest,       \* entry -> what is at <store>/<entry>, or None
  temp,       \* entry -> what is at <store>/<entry>.buckpkgs.tmp, or None
  lock,       \* entry -> the holder of the flock on its lock file, or None
  pc,         \* hydrator -> where it is in publish_validated_store_object
  job,        \* hydrator -> the verified manifest it publishes, or None
  payload,    \* hydrator -> the tree its in-memory payload encodes, or None
  error,      \* hydrator -> the error it failed with, or None
  crashes,    \* hydrators killed so far
  faults      \* system calls failed so far

vars == <<dest, temp, lock, pc, job, payload, error, crashes, faults>>

(* A directory on disk: the tree being laid down and how far it has come.   *)
(* "sealing": some non-empty directory below the root is already read-only. *)
Stages == {"partial", "written", "sealing", "sealed"}
Directory == [tree : Trees, stage : Stages]
Absent == [tree |-> None, stage |-> "absent"]

Working == {"lock", "check", "clear", "load", "create", "write", "seal", "rename"}
Critical == Working \ {"lock"}
Errors == {"TreeHash", "RemoveDir", "Load", "Materialize", "Rename"}
ASSUME NoneIsNoError == None \notin Errors

TypeOK ==
  /\ dest \in [Entries -> Directory \cup {Absent}]
  /\ temp \in [Entries -> Directory \cup {Absent}]
  /\ lock \in [Entries -> Hydrators \cup {None}]
  /\ pc \in [Hydrators -> Working \cup {"idle", "done", "failed"}]
  /\ job \in [Hydrators -> Manifests \cup {None}]
  /\ payload \in [Hydrators -> Trees \cup {None}]
  /\ error \in [Hydrators -> Errors \cup {None}]
  /\ crashes \in 0..MaxCrashes
  /\ faults \in 0..MaxFaults

Init ==
  /\ dest = [e \in Entries |-> Absent]
  /\ temp = [e \in Entries |-> Absent]
  /\ lock = [e \in Entries |-> None]
  /\ pc = [h \in Hydrators |-> "idle"]
  /\ job = [h \in Hydrators |-> None]
  /\ payload = [h \in Hydrators |-> None]
  /\ error = [h \in Hydrators |-> None]
  /\ crashes = 0
  /\ faults = 0

entry(h) == job[h].entry

Goto(h, from, to) == pc[h] = from /\ pc' = [pc EXCEPT ![h] = to]

\* The lock file is closed when the function returns, whatever it returns.
Unlock(h) == lock' = [lock EXCEPT ![entry(h)] = None]

\* Mutant: a failing hydrator that keeps its lock file open.
FailHoldingLock(h, why) ==
  /\ pc' = [pc EXCEPT ![h] = "failed"]
  /\ error' = [error EXCEPT ![h] = why]
  /\ UNCHANGED lock

Fail(h, why) ==
  /\ pc' = [pc EXCEPT ![h] = "failed"]
  /\ error' = [error EXCEPT ![h] = why]
  /\ Unlock(h)

\* Mutant: a removal that fails on read-only directories, root or not.
RemovableIfWritable(d) == d.stage \in {"partial", "written"}

\* fs::remove_dir_all of a directory: unlinking below a read-only directory
\* needs privileges the hydrator may not have.
Removable(d) == Privileged \/ d.stage \in {"partial", "written"}

\* Mutant: an error path without cleanup.
NoRemove(e) == UNCHANGED temp

\* `let _ = fs::remove_dir_all(&temporary)`: the failure is dropped.
BestEffortRemove(e) ==
  temp' = IF Removable(temp[e]) THEN [temp EXCEPT ![e] = Absent] ELSE temp

-----------------------------------------------------------------------------
(* One hydrator.                                                            *)

\* hydrate_store_object: load_and_verify has accepted a manifest and its archive.
Begin(h, m) ==
  /\ Goto(h, "idle", "lock")
  /\ job' = [job EXCEPT ![h] = m]
  /\ UNCHANGED <<dest, temp, lock, payload, error, crashes, faults>>

\* Mutant: a shared lock.
AcquireLockShared(h) ==
  /\ Goto(h, "lock", "check")
  /\ lock' = [lock EXCEPT ![entry(h)] = h]
  /\ UNCHANGED <<dest, temp, job, payload, error, crashes, faults>>

AcquireLock(h) ==
  /\ Goto(h, "lock", "check")
  /\ lock[entry(h)] = None
  /\ lock' = [lock EXCEPT ![entry(h)] = h]
  /\ UNCHANGED <<dest, temp, job, payload, error, crashes, faults>>

\* Mutant: an existing destination is trusted.
ReuseUnverified(h) ==
  /\ Goto(h, "check", "done")
  /\ dest[entry(h)] # Absent
  /\ Unlock(h)
  /\ UNCHANGED <<dest, temp, job, payload, error, crashes, faults>>

\* destination.exists() and verify_existing_tree accepts it.
ReuseExisting(h) ==
  /\ Goto(h, "check", "done")
  /\ dest[entry(h)].tree = job[h].tree
  /\ Unlock(h)
  /\ UNCHANGED <<dest, temp, job, payload, error, crashes, faults>>

RejectExisting(h) ==
  /\ pc[h] = "check"
  /\ dest[entry(h)] # Absent
  /\ dest[entry(h)].tree # job[h].tree
  /\ Fail(h, "TreeHash")
  /\ UNCHANGED <<dest, temp, job, payload, crashes, faults>>

\* Mutant: the payload is not loaded before the expansion.
FindAbsentSkipsLoad(h) ==
  /\ Goto(h, "check", "create")
  /\ dest[entry(h)] = Absent
  /\ UNCHANGED <<dest, temp, lock, job, payload, error, crashes, faults>>

FindAbsent(h) ==
  /\ Goto(h, "check", "clear")
  /\ dest[entry(h)] = Absent
  /\ UNCHANGED <<dest, temp, lock, job, payload, error, crashes, faults>>

\* No temporary tree, or one a killed or failed hydrator left and that
\* remove_dir_all can remove. (A removal that is itself interrupted leaves a
\* tree no different from one whose expansion was interrupted.)
ClearTemporary(h) ==
  /\ Goto(h, "clear", "load")
  /\ temp[entry(h)] = Absent \/ Removable(temp[entry(h)])
  /\ temp' = [temp EXCEPT ![entry(h)] = Absent]
  /\ UNCHANGED <<dest, lock, job, payload, error, crashes, faults>>

ClearTemporaryFails(h) ==
  /\ pc[h] = "clear"
  /\ temp[entry(h)] # Absent
  /\ ~Removable(temp[entry(h)])
  /\ Fail(h, "RemoveDir")
  /\ UNCHANGED <<dest, temp, job, payload, crashes, faults>>

\* load_payload() returns the payload of a tree t.
LoadPayload(h, t) ==
  /\ Goto(h, "load", "create")
  /\ payload' = [payload EXCEPT ![h] = t]
  /\ UNCHANGED <<dest, temp, lock, job, error, crashes, faults>>

\* The root record creates the temporary directory. It is absent: the
\* ExistingOutput error at the head of materialize cannot be met here.
CreateTemporary(h) ==
  /\ Goto(h, "create", "write")
  /\ temp[entry(h)] = Absent
  /\ temp' = [temp EXCEPT ![entry(h)] = [tree |-> payload[h], stage |-> "partial"]]
  /\ UNCHANGED <<dest, lock, job, payload, error, crashes, faults>>

\* The remaining records are written and the mtimes normalized.
WriteEntries(h) ==
  /\ Goto(h, "write", "seal")
  /\ temp[entry(h)] # Absent
  /\ temp' = [temp EXCEPT ![entry(h)] = [tree |-> payload[h], stage |-> "written"]]
  /\ UNCHANGED <<dest, lock, job, payload, error, crashes, faults>>

\* make_tree_read_only seals children before their directory; a tree with no
\* directory worth sealing below its root goes straight to SealRoot.
SealChildren(h) ==
  /\ pc[h] = "seal"
  /\ temp[entry(h)].stage = "written"
  /\ temp' = [temp EXCEPT ![entry(h)].stage = "sealing"]
  /\ UNCHANGED <<dest, lock, pc, job, payload, error, crashes, faults>>

SealRoot(h) ==
  /\ Goto(h, "seal", "rename")
  /\ temp[entry(h)] # Absent
  /\ temp' = [temp EXCEPT ![entry(h)].stage = "sealed"]
  /\ UNCHANGED <<dest, lock, job, payload, error, crashes, faults>>

\* Mutant: a rename that replaces what is there.
RenameReplaces(h) ==
  /\ Goto(h, "rename", "done")
  /\ dest' = [dest EXCEPT ![entry(h)] = temp[entry(h)]]
  /\ temp' = [temp EXCEPT ![entry(h)] = Absent]
  /\ Unlock(h)
  /\ UNCHANGED <<job, payload, error, crashes, faults>>

Rename(h) ==
  /\ Goto(h, "rename", "done")
  /\ temp[entry(h)] # Absent
  /\ dest[entry(h)] = Absent
  /\ dest' = [dest EXCEPT ![entry(h)] = temp[entry(h)]]
  /\ temp' = [temp EXCEPT ![entry(h)] = Absent]
  /\ Unlock(h)
  /\ UNCHANGED <<job, payload, error, crashes, faults>>

\* Mutant: losing to another publisher counts as success.
RenameBlockedTolerated(h) ==
  /\ Goto(h, "rename", "done")
  /\ dest[entry(h)] # Absent
  /\ BestEffortRemove(entry(h))
  /\ Unlock(h)
  /\ UNCHANGED <<dest, job, payload, error, crashes, faults>>

\* rename(2) does not replace a non-empty directory: the materializer won.
RenameBlocked(h) ==
  /\ pc[h] = "rename"
  /\ dest[entry(h)] # Absent
  /\ BestEffortRemove(entry(h))
  /\ Fail(h, "Rename")
  /\ UNCHANGED <<dest, job, payload, crashes, faults>>

\* The process reports and exits; its caller may run it again.
Return(h) ==
  /\ pc[h] \in {"done", "failed"}
  /\ pc' = [pc EXCEPT ![h] = "idle"]
  /\ job' = [job EXCEPT ![h] = None]
  /\ payload' = [payload EXCEPT ![h] = None]
  /\ error' = [error EXCEPT ![h] = None]
  /\ UNCHANGED <<dest, temp, lock, crashes, faults>>

-----------------------------------------------------------------------------
(* What may go wrong, and who else is there.                                *)

\* A system call of the expansion or of the sealing fails (ENOSPC, EIO).
MaterializeFails(h) ==
  /\ pc[h] \in {"create", "write", "seal"}
  /\ faults < MaxFaults
  /\ faults' = faults + 1
  /\ BestEffortRemove(entry(h))
  /\ Fail(h, "Materialize")
  /\ UNCHANGED <<dest, job, payload, crashes>>

RenameFails(h) ==
  /\ pc[h] = "rename"
  /\ faults < MaxFaults
  /\ faults' = faults + 1
  /\ BestEffortRemove(entry(h))
  /\ Fail(h, "Rename")
  /\ UNCHANGED <<dest, job, payload, crashes>>

\* Killed: the kernel closes the lock file, nobody removes the temporary tree.
Crash(h) ==
  /\ pc[h] \in Working
  /\ crashes < MaxCrashes
  /\ crashes' = crashes + 1
  /\ lock' = IF lock[entry(h)] = h THEN [lock EXCEPT ![entry(h)] = None] ELSE lock
  /\ pc' = [pc EXCEPT ![h] = "idle"]
  /\ job' = [job EXCEPT ![h] = None]
  /\ payload' = [payload EXCEPT ![h] = None]
  /\ UNCHANGED <<dest, temp, error, faults>>

\* Buck2's materializer publishes by its own temporary name and rename.
Materialize(e, t) ==
  /\ dest[e] = Absent
  /\ dest' = [dest EXCEPT ![e] = [tree |-> t, stage |-> "sealed"]]
  /\ UNCHANGED <<temp, lock, pc, job, payload, error, crashes, faults>>

\* The steps of publish_validated_store_object once it holds the lock, but
\* for load_payload.
PublishStep(h) ==
  \/ ReuseExisting(h)
  \/ RejectExisting(h)
  \/ FindAbsent(h)
  \/ ClearTemporary(h)
  \/ ClearTemporaryFails(h)
  \/ CreateTemporary(h)
  \/ WriteEntries(h)
  \/ SealChildren(h)
  \/ SealRoot(h)
  \/ Rename(h)
  \/ RenameBlocked(h)

Disturb(h) ==
  \/ MaterializeFails(h)
  \/ RenameFails(h)
  \/ Crash(h)

Next ==
  \/ \E h \in Hydrators :
       \/ \E m \in Manifests : Begin(h, m)
       \/ AcquireLock(h)
       \/ PublishStep(h)
       \* hydrate_store_object: load_payload is `|| Ok(payload)`
       \/ LoadPayload(h, job[h].tree)
       \/ Return(h)
       \/ Disturb(h)
  \/ \E e \in Entries, t \in NativeTrees : Materialize(e, t)

Spec == Init /\ [][Next]_vars

(* A hydrator that runs keeps running, and flock serves its waiters: one    *)
(* that waits while the lock is free over and over gets it.                 *)
Fairness ==
  \A h \in Hydrators :
    /\ SF_vars(AcquireLock(h))
    /\ WF_vars(PublishStep(h) \/ LoadPayload(h, job[h].tree))

FairSpec == Spec /\ Fairness

-----------------------------------------------------------------------------
(* Safety.                                                                  *)

\* An object visible in the store is whole and sealed: no interleaving of
\* hydrators, no crash and no failed cleanup ever exposes a tree that is
\* still being expanded.
PublishedComplete ==
  \A e \in Entries : dest[e] # Absent => dest[e].stage = "sealed"

\* A hydrator that reports success has the pinned tree of its manifest in
\* the store, whether it published it, found it, or lost a race for it.
OkMeansPinned ==
  \A h \in Hydrators :
    pc[h] = "done" => /\ dest[entry(h)].tree = job[h].tree
                      /\ dest[entry(h)].stage = "sealed"

\* From the moment a hydrator starts to expand to its rename, the temporary
\* name holds its own tree and nobody else's, as far as it has come.
OwnTemporary ==
  \A h \in Hydrators :
    /\ pc[h] = "write"  => temp[entry(h)] = [tree |-> payload[h], stage |-> "partial"]
    /\ pc[h] = "seal"   => /\ temp[entry(h)].tree = payload[h]
                           /\ temp[entry(h)].stage \in {"written", "sealing"}
    /\ pc[h] = "rename" => temp[entry(h)] = [tree |-> payload[h], stage |-> "sealed"]

\* An object of the store is never rewritten, repaired or removed.
StoreImmutable ==
  [][\A e \in Entries : dest[e] # Absent => dest'[e] = dest[e]]_vars

\* REPRODUCIBILITY.md, "Outputs are either complete or absent": "If
\* materialization or publication fails, the temporary tree is removed."
FailureRemovesTemporary ==
  [][\A h \in Hydrators :
       (error[h] = None /\ error'[h] \in {"Materialize", "Rename"})
         => temp'[entry(h)] = Absent]_vars

-----------------------------------------------------------------------------
(* Liveness.                                                                *)

\* A caller that keeps retrying an object gets it into the store: no residue
\* of a killed or failed attempt can defeat every later one.
RetriesPublish ==
  \A e \in Entries :
    []<>(\E h \in Hydrators : pc[h] = "lock" /\ entry(h) = e) => <>(dest[e] # Absent)

-----------------------------------------------------------------------------
(* The promise, and the inductive invariant behind the proofs.              *)

\* What a reader of /pkgs/store sees under an entry.
visible ==
  [e \in Entries |->
     IF dest[e].stage \in {"absent", "sealed"} THEN dest[e].tree ELSE "torn"]

answer ==
  [h \in Hydrators |->
     IF pc[h] = "done" THEN "ok" ELSE IF pc[h] = "failed" THEN "failed" ELSE "none"]

Abstract == INSTANCE AtomicStore WITH store <- visible, request <- job, outcome <- answer

\* Hydration implements the atomic store.
ImplementsAtomicStore == Abstract!Spec

LockHeld ==
  \A h \in Hydrators : pc[h] \in Critical => lock[entry(h)] = h

JobKnown ==
  \A h \in Hydrators : (job[h] = None) <=> (pc[h] = "idle")

PayloadPinned ==
  \A h \in Hydrators : pc[h] \in {"create", "write", "seal", "rename"} => payload[h] = job[h].tree

ClearedTemporary ==
  \A h \in Hydrators : pc[h] \in {"load", "create"} => temp[entry(h)] = Absent

IInv ==
  /\ TypeOK
  /\ LockHeld
  /\ JobKnown
  /\ PayloadPinned
  /\ ClearedTemporary
  /\ OwnTemporary
  /\ PublishedComplete
  /\ OkMeansPinned
=============================================================================
