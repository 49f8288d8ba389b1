------------------------- MODULE StorePublishProofs -------------------------
(****************************************************************************)
(* Proofs about StorePublish, for any number of hydrators, entries, trees   *)
(* and manifests, any bounds on crashes and faults, and with or without the *)
(* privilege to remove sealed residue:                                      *)
(*   - the inductive invariant IInv and, from it, type correctness and the  *)
(*     safety properties;                                                   *)
(*   - immutability of the store;                                           *)
(*   - that hydration implements AtomicStore.                               *)
(****************************************************************************)
EXTENDS StorePublish, TLAPS

(* The named steps of one hydrator, as the proofs split them.               *)
Step(h) ==
  \/ \E m \in Manifests : Begin(h, m)
  \/ AcquireLock(h)
  \/ PublishStep(h)
  \/ LoadPayload(h, job[h].tree)
  \/ Return(h)
  \/ Disturb(h)

-----------------------------------------------------------------------------
(* Type correctness.                                                        *)

\* An entry a hydrator works on is an entry of the store.
LEMMA WorksOnEntry ==
  ASSUME TypeOK, JobKnown, NEW h \in Hydrators, pc[h] # "idle"
  PROVE  /\ job[h] \in Manifests
         /\ entry(h) \in Entries
         /\ job[h].tree \in Trees
  BY ManifestsAssumption DEF TypeOK, JobKnown, entry

\* The part of the invariant that does not depend on which payload is loaded.
Loaded ==
  \A h \in Hydrators : pc[h] \in {"create", "write", "seal", "rename"} => payload[h] \in Trees

DonePresent ==
  \A h \in Hydrators : pc[h] = "done" => dest[entry(h)] # Absent

Held ==
  /\ TypeOK
  /\ LockHeld
  /\ JobKnown
  /\ Loaded
  /\ ClearedTemporary
  /\ OwnTemporary
  /\ PublishedComplete
  /\ DonePresent

\* The invariant holds when no hydrator has run.
LEMMA InitIInv == Init => IInv
  BY BoundsAssumption, NoneAssumption, NoneIsNoTree
  DEF Init, IInv, TypeOK, LockHeld, JobKnown, PayloadPinned, ClearedTemporary,
      OwnTemporary, PublishedComplete, OkMeansPinned, Directory, Stages, Absent,
      Working, Critical, Errors

\* The part that does not say which payload was loaded.
LEMMA IInvHeld == IInv => Held
<1> SUFFICES ASSUME IInv PROVE Held
  OBVIOUS
<1>1. Loaded
  BY WorksOnEntry DEF IInv, Loaded, PayloadPinned
<1>2. DonePresent
  BY DEF IInv, DonePresent, OkMeansPinned, Absent
<1> QED BY <1>1, <1>2 DEF IInv, Held

\* A new call touches nothing but its own control state.
LEMMA BeginHeld ==
  ASSUME Held, NEW h \in Hydrators, NEW m \in Manifests, Begin(h, m)
  PROVE  Held'
<1> USE DEF Held, entry
<1>1. TypeOK'
  BY DEF Begin, Goto, TypeOK, Directory, Stages, Absent, Working, Errors
<1>2. LockHeld'
  BY DEF Begin, Goto, LockHeld, TypeOK, Critical, Working
<1>3. JobKnown'
  BY NoneAssumption DEF Begin, Goto, JobKnown, TypeOK, Working
<1>4. Loaded'
  BY DEF Begin, Goto, Loaded, TypeOK
<1>5. ClearedTemporary'
  BY DEF Begin, Goto, ClearedTemporary, TypeOK, LockHeld, Critical, Working
<1>6. OwnTemporary'
  BY DEF Begin, Goto, OwnTemporary, TypeOK, LockHeld, Critical, Working
<1>7. PublishedComplete'
  BY DEF Begin, Goto, PublishedComplete, TypeOK
<1>8. DonePresent'
  BY DEF Begin, Goto, DonePresent, TypeOK
<1> QED BY <1>1, <1>2, <1>3, <1>4, <1>5, <1>6, <1>7, <1>8

\* The lock was free, so nobody else is in the critical section of the entry.
LEMMA AcquireLockHeld ==
  ASSUME Held, NEW h \in Hydrators, AcquireLock(h)
  PROVE  Held'
<1> USE DEF Held, entry
<1>0. job[h] \in Manifests /\ entry(h) \in Entries /\ job[h].tree \in Trees
  BY WorksOnEntry DEF AcquireLock, Goto, Working
<1>1. TypeOK'
  BY <1>0
  DEF AcquireLock, Goto, TypeOK, Directory, Stages, Absent, Working, Errors
<1>2. LockHeld'
  BY <1>0, NoneAssumption
  DEF AcquireLock, Goto, LockHeld, TypeOK, Critical, Working
<1>3. JobKnown'
  BY <1>0 DEF AcquireLock, Goto, JobKnown, TypeOK, Working
<1>4. Loaded'
  BY <1>0 DEF AcquireLock, Goto, Loaded, TypeOK
<1>5. ClearedTemporary'
  BY <1>0
  DEF AcquireLock, Goto, ClearedTemporary, TypeOK, LockHeld, Critical, Working
<1>6. OwnTemporary'
  BY <1>0
  DEF AcquireLock, Goto, OwnTemporary, TypeOK, LockHeld, Critical, Working
<1>7. PublishedComplete'
  BY <1>0 DEF AcquireLock, Goto, PublishedComplete, TypeOK
<1>8. DonePresent'
  BY <1>0 DEF AcquireLock, Goto, DonePresent, TypeOK
<1> QED BY <1>1, <1>2, <1>3, <1>4, <1>5, <1>6, <1>7, <1>8

\* An existing destination is whole, and its hash is the pinned one.
LEMMA ReuseExistingHeld ==
  ASSUME Held, NEW h \in Hydrators, ReuseExisting(h)
  PROVE  Held'
<1> USE DEF Held, entry
<1>0. job[h] \in Manifests /\ entry(h) \in Entries /\ job[h].tree \in Trees
  BY WorksOnEntry DEF ReuseExisting, Goto, Unlock, Working
<1>1. TypeOK'
  BY <1>0
  DEF ReuseExisting, Goto, Unlock, TypeOK, Directory, Stages, Absent, Working, Errors
<1>2. LockHeld'
  BY <1>0 DEF ReuseExisting, Goto, Unlock, LockHeld, TypeOK, Critical, Working
<1>3. JobKnown'
  BY <1>0 DEF ReuseExisting, Goto, Unlock, JobKnown, TypeOK, Working
<1>4. Loaded'
  BY <1>0 DEF ReuseExisting, Goto, Unlock, Loaded, TypeOK
<1>5. ClearedTemporary'
  BY <1>0
  DEF ReuseExisting, Goto, Unlock, ClearedTemporary, TypeOK, LockHeld, Critical, Working
<1>6. OwnTemporary'
  BY <1>0
  DEF ReuseExisting, Goto, Unlock, OwnTemporary, TypeOK, LockHeld, Critical, Working
<1>7. PublishedComplete'
  BY <1>0 DEF ReuseExisting, Goto, Unlock, PublishedComplete, TypeOK
<1>8. DonePresent'
  BY <1>0, NoneIsNoTree
  DEF ReuseExisting, Goto, Unlock, DonePresent, TypeOK, PublishedComplete, Absent
<1> QED BY <1>1, <1>2, <1>3, <1>4, <1>5, <1>6, <1>7, <1>8

\* A mismatch ends the call and touches neither tree.
LEMMA RejectExistingHeld ==
  ASSUME Held, NEW h \in Hydrators, RejectExisting(h)
  PROVE  Held'
<1> USE DEF Held, entry
<1>0. job[h] \in Manifests /\ entry(h) \in Entries /\ job[h].tree \in Trees
  BY WorksOnEntry DEF RejectExisting, Fail, Unlock, Working
<1>1. TypeOK'
  BY <1>0
  DEF RejectExisting, Fail, Unlock, TypeOK, Directory, Stages, Absent, Working, Errors
<1>2. LockHeld'
  BY <1>0
  DEF RejectExisting, Fail, Unlock, LockHeld, TypeOK, Critical, Working
<1>3. JobKnown'
  BY <1>0 DEF RejectExisting, Fail, Unlock, JobKnown, TypeOK, Working
<1>4. Loaded'
  BY <1>0 DEF RejectExisting, Fail, Unlock, Loaded, TypeOK
<1>5. ClearedTemporary'
  BY <1>0
  DEF RejectExisting, Fail, Unlock, ClearedTemporary, TypeOK, LockHeld, Critical, Working
<1>6. OwnTemporary'
  BY <1>0
  DEF RejectExisting, Fail, Unlock, OwnTemporary, TypeOK, LockHeld, Critical, Working
<1>7. PublishedComplete'
  BY <1>0 DEF RejectExisting, Fail, Unlock, PublishedComplete, TypeOK
<1>8. DonePresent'
  BY <1>0 DEF RejectExisting, Fail, Unlock, DonePresent, TypeOK
<1> QED BY <1>1, <1>2, <1>3, <1>4, <1>5, <1>6, <1>7, <1>8

\* Finding nothing changes nothing.
LEMMA FindAbsentHeld ==
  ASSUME Held, NEW h \in Hydrators, FindAbsent(h)
  PROVE  Held'
<1> USE DEF Held, entry
<1>0. job[h] \in Manifests /\ entry(h) \in Entries /\ job[h].tree \in Trees
  BY WorksOnEntry DEF FindAbsent, Goto, Working
<1>1. TypeOK'
  BY <1>0
  DEF FindAbsent, Goto, TypeOK, Directory, Stages, Absent, Working, Errors
<1>2. LockHeld'
  BY <1>0 DEF FindAbsent, Goto, LockHeld, TypeOK, Critical, Working
<1>3. JobKnown'
  BY <1>0 DEF FindAbsent, Goto, JobKnown, TypeOK, Working
<1>4. Loaded'
  BY <1>0 DEF FindAbsent, Goto, Loaded, TypeOK
<1>5. ClearedTemporary'
  BY <1>0
  DEF FindAbsent, Goto, ClearedTemporary, TypeOK, LockHeld, Critical, Working
<1>6. OwnTemporary'
  BY <1>0
  DEF FindAbsent, Goto, OwnTemporary, TypeOK, LockHeld, Critical, Working
<1>7. PublishedComplete'
  BY <1>0 DEF FindAbsent, Goto, PublishedComplete, TypeOK
<1>8. DonePresent'
  BY <1>0 DEF FindAbsent, Goto, DonePresent, TypeOK
<1> QED BY <1>1, <1>2, <1>3, <1>4, <1>5, <1>6, <1>7, <1>8

\* Only the holder of the lock removes the temporary tree: nobody else expands in it.
LEMMA ClearTemporaryHeld ==
  ASSUME Held, NEW h \in Hydrators, ClearTemporary(h)
  PROVE  Held'
<1> USE DEF Held, entry
<1>0. job[h] \in Manifests /\ entry(h) \in Entries /\ job[h].tree \in Trees
  BY WorksOnEntry DEF ClearTemporary, Goto, Working
<1>1. TypeOK'
  BY <1>0
  DEF ClearTemporary, Goto, TypeOK, Directory, Stages, Absent, Working, Errors
<1>2. LockHeld'
  BY <1>0 DEF ClearTemporary, Goto, LockHeld, TypeOK, Critical, Working
<1>3. JobKnown'
  BY <1>0 DEF ClearTemporary, Goto, JobKnown, TypeOK, Working
<1>4. Loaded'
  BY <1>0 DEF ClearTemporary, Goto, Loaded, TypeOK
<1>5. ClearedTemporary'
  BY <1>0
  DEF ClearTemporary, Goto, ClearedTemporary, TypeOK, LockHeld, Critical, Working
<1>6. OwnTemporary'
  BY <1>0
  DEF ClearTemporary, Goto, OwnTemporary, TypeOK, LockHeld, Critical, Working
<1>7. PublishedComplete'
  BY <1>0 DEF ClearTemporary, Goto, PublishedComplete, TypeOK
<1>8. DonePresent'
  BY <1>0 DEF ClearTemporary, Goto, DonePresent, TypeOK
<1> QED BY <1>1, <1>2, <1>3, <1>4, <1>5, <1>6, <1>7, <1>8

\* A residue that cannot be removed ends the call and stays.
LEMMA ClearTemporaryFailsHeld ==
  ASSUME Held, NEW h \in Hydrators, ClearTemporaryFails(h)
  PROVE  Held'
<1> USE DEF Held, entry
<1>0. job[h] \in Manifests /\ entry(h) \in Entries /\ job[h].tree \in Trees
  BY WorksOnEntry DEF ClearTemporaryFails, Fail, Unlock, Working
<1>1. TypeOK'
  BY <1>0
  DEF ClearTemporaryFails, Fail, Unlock, TypeOK, Directory, Stages, Absent, Working, Errors
<1>2. LockHeld'
  BY <1>0
  DEF ClearTemporaryFails, Fail, Unlock, LockHeld, TypeOK, Critical, Working
<1>3. JobKnown'
  BY <1>0 DEF ClearTemporaryFails, Fail, Unlock, JobKnown, TypeOK, Working
<1>4. Loaded'
  BY <1>0 DEF ClearTemporaryFails, Fail, Unlock, Loaded, TypeOK
<1>5. ClearedTemporary'
  BY <1>0
  DEF ClearTemporaryFails, Fail, Unlock, ClearedTemporary, TypeOK, LockHeld, Critical, Working
<1>6. OwnTemporary'
  BY <1>0
  DEF ClearTemporaryFails, Fail, Unlock, OwnTemporary, TypeOK, LockHeld, Critical, Working
<1>7. PublishedComplete'
  BY <1>0 DEF ClearTemporaryFails, Fail, Unlock, PublishedComplete, TypeOK
<1>8. DonePresent'
  BY <1>0 DEF ClearTemporaryFails, Fail, Unlock, DonePresent, TypeOK
<1> QED BY <1>1, <1>2, <1>3, <1>4, <1>5, <1>6, <1>7, <1>8

\* A hydrator loads a payload, whichever it is.
LEMMA LoadPayloadHeld ==
  ASSUME Held, NEW h \in Hydrators, NEW t \in Trees, LoadPayload(h, t)
  PROVE  Held'
<1> USE DEF Held, entry
<1>0. job[h] \in Manifests /\ entry(h) \in Entries /\ job[h].tree \in Trees
  BY WorksOnEntry DEF LoadPayload, Goto, Working
<1>1. TypeOK'
  BY <1>0
  DEF LoadPayload, Goto, TypeOK, Directory, Stages, Absent, Working, Errors
<1>2. LockHeld'
  BY <1>0 DEF LoadPayload, Goto, LockHeld, TypeOK, Critical, Working
<1>3. JobKnown'
  BY <1>0 DEF LoadPayload, Goto, JobKnown, TypeOK, Working
<1>4. Loaded'
  BY <1>0 DEF LoadPayload, Goto, Loaded, TypeOK
<1>5. ClearedTemporary'
  BY <1>0
  DEF LoadPayload, Goto, ClearedTemporary, TypeOK, LockHeld, Critical, Working
<1>6. OwnTemporary'
  BY <1>0
  DEF LoadPayload, Goto, OwnTemporary, TypeOK, LockHeld, Critical, Working
<1>7. PublishedComplete'
  BY <1>0 DEF LoadPayload, Goto, PublishedComplete, TypeOK
<1>8. DonePresent'
  BY <1>0 DEF LoadPayload, Goto, DonePresent, TypeOK
<1> QED BY <1>1, <1>2, <1>3, <1>4, <1>5, <1>6, <1>7, <1>8

\* A payload that cannot be loaded ends the call with nothing expanded.
LEMMA LoadErrorHeld ==
  ASSUME Held, NEW h \in Hydrators, pc[h] = "load", Fail(h, "Load"),
         UNCHANGED <<dest, temp, job, payload, crashes, faults>>
  PROVE  Held'
<1> USE DEF Held, entry
<1>0. job[h] \in Manifests /\ entry(h) \in Entries /\ job[h].tree \in Trees
  BY WorksOnEntry DEF Working
<1>1. TypeOK'
  BY <1>0 DEF Fail, Unlock, TypeOK, Directory, Stages, Absent, Working, Errors
<1>2. LockHeld'
  BY <1>0 DEF Fail, Unlock, LockHeld, TypeOK, Critical, Working
<1>3. JobKnown'
  BY <1>0 DEF Fail, Unlock, JobKnown, TypeOK, Working
<1>4. Loaded'
  BY <1>0 DEF Fail, Unlock, Loaded, TypeOK
<1>5. ClearedTemporary'
  BY <1>0 DEF Fail, Unlock, ClearedTemporary, TypeOK, LockHeld, Critical, Working
<1>6. OwnTemporary'
  BY <1>0 DEF Fail, Unlock, OwnTemporary, TypeOK, LockHeld, Critical, Working
<1>7. PublishedComplete'
  BY <1>0 DEF Fail, Unlock, PublishedComplete, TypeOK
<1>8. DonePresent'
  BY <1>0 DEF Fail, Unlock, DonePresent, TypeOK
<1> QED BY <1>1, <1>2, <1>3, <1>4, <1>5, <1>6, <1>7, <1>8

\* The temporary directory is created by the holder of the lock.
LEMMA CreateTemporaryHeld ==
  ASSUME Held, NEW h \in Hydrators, CreateTemporary(h)
  PROVE  Held'
<1> USE DEF Held, entry
<1>0. job[h] \in Manifests /\ entry(h) \in Entries /\ job[h].tree \in Trees
  BY WorksOnEntry DEF CreateTemporary, Goto, Working
<1>1. TypeOK'
  BY <1>0
  DEF CreateTemporary, Goto, TypeOK, Directory, Stages, Absent, Working, Errors, Loaded
<1>2. LockHeld'
  BY <1>0 DEF CreateTemporary, Goto, LockHeld, TypeOK, Critical, Working
<1>3. JobKnown'
  BY <1>0 DEF CreateTemporary, Goto, JobKnown, TypeOK, Working
<1>4. Loaded'
  BY <1>0 DEF CreateTemporary, Goto, Loaded, TypeOK
<1>5. ClearedTemporary'
  BY <1>0
  DEF CreateTemporary, Goto, ClearedTemporary, TypeOK, LockHeld, Critical, Working
<1>6. OwnTemporary'
  BY <1>0
  DEF CreateTemporary, Goto, OwnTemporary, TypeOK, LockHeld, Critical, Working
<1>7. PublishedComplete'
  BY <1>0 DEF CreateTemporary, Goto, PublishedComplete, TypeOK
<1>8. DonePresent'
  BY <1>0 DEF CreateTemporary, Goto, DonePresent, TypeOK
<1> QED BY <1>1, <1>2, <1>3, <1>4, <1>5, <1>6, <1>7, <1>8

\* The temporary tree receives the pinned payload.
LEMMA WriteEntriesHeld ==
  ASSUME Held, NEW h \in Hydrators, WriteEntries(h)
  PROVE  Held'
<1> USE DEF Held, entry
<1>0. job[h] \in Manifests /\ entry(h) \in Entries /\ job[h].tree \in Trees
  BY WorksOnEntry DEF WriteEntries, Goto, Working
<1>1. TypeOK'
  BY <1>0
  DEF WriteEntries, Goto, TypeOK, Directory, Stages, Absent, Working, Errors, Loaded
<1>2. LockHeld'
  BY <1>0 DEF WriteEntries, Goto, LockHeld, TypeOK, Critical, Working
<1>3. JobKnown'
  BY <1>0 DEF WriteEntries, Goto, JobKnown, TypeOK, Working
<1>4. Loaded'
  BY <1>0 DEF WriteEntries, Goto, Loaded, TypeOK
<1>5. ClearedTemporary'
  BY <1>0
  DEF WriteEntries, Goto, ClearedTemporary, TypeOK, LockHeld, Critical, Working
<1>6. OwnTemporary'
  BY <1>0
  DEF WriteEntries, Goto, OwnTemporary, TypeOK, LockHeld, Critical, Working
<1>7. PublishedComplete'
  BY <1>0 DEF WriteEntries, Goto, PublishedComplete, TypeOK
<1>8. DonePresent'
  BY <1>0 DEF WriteEntries, Goto, DonePresent, TypeOK
<1> QED BY <1>1, <1>2, <1>3, <1>4, <1>5, <1>6, <1>7, <1>8

\* Sealing below the root keeps the tree.
LEMMA SealChildrenHeld ==
  ASSUME Held, NEW h \in Hydrators, SealChildren(h)
  PROVE  Held'
<1> USE DEF Held, entry
<1>0. job[h] \in Manifests /\ entry(h) \in Entries /\ job[h].tree \in Trees
  BY WorksOnEntry DEF SealChildren, Working
<1>1. TypeOK'
  BY <1>0 DEF SealChildren, TypeOK, Directory, Stages, Absent, Working, Errors
<1>2. LockHeld'
  BY <1>0 DEF SealChildren, LockHeld, TypeOK, Critical, Working
<1>3. JobKnown'
  BY <1>0 DEF SealChildren, JobKnown, TypeOK, Working
<1>4. Loaded'
  BY <1>0 DEF SealChildren, Loaded, TypeOK
<1>5. ClearedTemporary'
  BY <1>0
  DEF SealChildren, ClearedTemporary, TypeOK, LockHeld, Critical, Working
<1>6. OwnTemporary'
  BY <1>0 DEF SealChildren, OwnTemporary, TypeOK, LockHeld, Critical, Working
<1>7. PublishedComplete'
  BY <1>0 DEF SealChildren, PublishedComplete, TypeOK
<1>8. DonePresent'
  BY <1>0 DEF SealChildren, DonePresent, TypeOK
<1> QED BY <1>1, <1>2, <1>3, <1>4, <1>5, <1>6, <1>7, <1>8

\* Sealing the root finishes the temporary tree.
LEMMA SealRootHeld ==
  ASSUME Held, NEW h \in Hydrators, SealRoot(h)
  PROVE  Held'
<1> USE DEF Held, entry
<1>0. job[h] \in Manifests /\ entry(h) \in Entries /\ job[h].tree \in Trees
  BY WorksOnEntry DEF SealRoot, Goto, Working
<1>1. TypeOK'
  BY <1>0
  DEF SealRoot, Goto, TypeOK, Directory, Stages, Absent, Working, Errors
<1>2. LockHeld'
  BY <1>0 DEF SealRoot, Goto, LockHeld, TypeOK, Critical, Working
<1>3. JobKnown'
  BY <1>0 DEF SealRoot, Goto, JobKnown, TypeOK, Working
<1>4. Loaded'
  BY <1>0 DEF SealRoot, Goto, Loaded, TypeOK
<1>5. ClearedTemporary'
  BY <1>0
  DEF SealRoot, Goto, ClearedTemporary, TypeOK, LockHeld, Critical, Working
<1>6. OwnTemporary'
  BY <1>0
  DEF SealRoot, Goto, OwnTemporary, TypeOK, LockHeld, Critical, Working, Directory, Absent
<1>7. PublishedComplete'
  BY <1>0 DEF SealRoot, Goto, PublishedComplete, TypeOK
<1>8. DonePresent'
  BY <1>0 DEF SealRoot, Goto, DonePresent, TypeOK
<1> QED BY <1>1, <1>2, <1>3, <1>4, <1>5, <1>6, <1>7, <1>8

\* The rename moves the finished, pinned tree to an absent destination.
LEMMA RenameHeld ==
  ASSUME Held, NEW h \in Hydrators, Rename(h)
  PROVE  Held'
<1> USE DEF Held, entry
<1>0. job[h] \in Manifests /\ entry(h) \in Entries /\ job[h].tree \in Trees
  BY WorksOnEntry DEF Rename, Goto, Unlock, Working
<1>moved. dest' = [dest EXCEPT ![entry(h)] = [tree |-> payload[h], stage |-> "sealed"]]
  BY <1>0 DEF Rename, Goto, OwnTemporary
<1>1. TypeOK'
  BY <1>0
  DEF Rename, Goto, Unlock, TypeOK, Directory, Stages, Absent, Working, Errors
<1>2. LockHeld'
  BY <1>0 DEF Rename, Goto, Unlock, LockHeld, TypeOK, Critical, Working
<1>3. JobKnown'
  BY <1>0 DEF Rename, Goto, Unlock, JobKnown, TypeOK, Working
<1>4. Loaded'
  BY <1>0 DEF Rename, Goto, Unlock, Loaded, TypeOK
<1>5. ClearedTemporary'
  BY <1>0
  DEF Rename, Goto, Unlock, ClearedTemporary, TypeOK, LockHeld, Critical, Working
<1>6. OwnTemporary'
  BY <1>0
  DEF Rename, Goto, Unlock, OwnTemporary, TypeOK, LockHeld, Critical, Working
<1>7. PublishedComplete'
  BY <1>0, <1>moved DEF Rename, Goto, Unlock, PublishedComplete, TypeOK
<1>8. DonePresent'
  BY <1>0, <1>moved DEF Rename, Goto, Unlock, DonePresent, TypeOK, Absent
<1> QED BY <1>1, <1>2, <1>3, <1>4, <1>5, <1>6, <1>7, <1>8

\* A lost race against Buck2 leaves the destination alone.
LEMMA RenameBlockedHeld ==
  ASSUME Held, NEW h \in Hydrators, RenameBlocked(h)
  PROVE  Held'
<1> USE DEF Held, entry
<1>0. job[h] \in Manifests /\ entry(h) \in Entries /\ job[h].tree \in Trees
  BY WorksOnEntry DEF RenameBlocked, Fail, Unlock, BestEffortRemove, Working
<1>1. TypeOK'
  BY <1>0
  DEF RenameBlocked, Fail, Unlock, BestEffortRemove, TypeOK, Directory, Stages, Absent, Working, Errors
<1>2. LockHeld'
  BY <1>0
  DEF RenameBlocked, Fail, Unlock, BestEffortRemove, LockHeld, TypeOK, Critical, Working
<1>3. JobKnown'
  BY <1>0
  DEF RenameBlocked, Fail, Unlock, BestEffortRemove, JobKnown, TypeOK, Working
<1>4. Loaded'
  BY <1>0
  DEF RenameBlocked, Fail, Unlock, BestEffortRemove, Loaded, TypeOK
<1>5. ClearedTemporary'
  BY <1>0
  DEF RenameBlocked, Fail, Unlock, BestEffortRemove, ClearedTemporary, TypeOK, LockHeld, Critical, Working
<1>6. OwnTemporary'
  BY <1>0
  DEF RenameBlocked, Fail, Unlock, BestEffortRemove, OwnTemporary, TypeOK, LockHeld, Critical, Working
<1>7. PublishedComplete'
  BY <1>0
  DEF RenameBlocked, Fail, Unlock, BestEffortRemove, PublishedComplete, TypeOK
<1>8. DonePresent'
  BY <1>0
  DEF RenameBlocked, Fail, Unlock, BestEffortRemove, DonePresent, TypeOK
<1> QED BY <1>1, <1>2, <1>3, <1>4, <1>5, <1>6, <1>7, <1>8

\* A process that exits forgets its call.
LEMMA ReturnHeld ==
  ASSUME Held, NEW h \in Hydrators, Return(h)
  PROVE  Held'
<1> USE DEF Held, entry
<1>0. job[h] \in Manifests /\ entry(h) \in Entries /\ job[h].tree \in Trees
  BY WorksOnEntry DEF Return, Working
<1>1. TypeOK'
  BY <1>0 DEF Return, TypeOK, Directory, Stages, Absent, Working, Errors
<1>2. LockHeld'
  BY <1>0 DEF Return, LockHeld, TypeOK, Critical, Working
<1>3. JobKnown'
  BY <1>0 DEF Return, JobKnown, TypeOK, Working
<1>4. Loaded'
  BY <1>0 DEF Return, Loaded, TypeOK
<1>5. ClearedTemporary'
  BY <1>0 DEF Return, ClearedTemporary, TypeOK, LockHeld, Critical, Working
<1>6. OwnTemporary'
  BY <1>0 DEF Return, OwnTemporary, TypeOK, LockHeld, Critical, Working
<1>7. PublishedComplete'
  BY <1>0 DEF Return, PublishedComplete, TypeOK
<1>8. DonePresent'
  BY <1>0 DEF Return, DonePresent, TypeOK
<1> QED BY <1>1, <1>2, <1>3, <1>4, <1>5, <1>6, <1>7, <1>8

\* A failed expansion only touches the temporary tree.
LEMMA MaterializeFailsHeld ==
  ASSUME Held, NEW h \in Hydrators, MaterializeFails(h)
  PROVE  Held'
<1> USE DEF Held, entry
<1>0. job[h] \in Manifests /\ entry(h) \in Entries /\ job[h].tree \in Trees
  BY WorksOnEntry DEF MaterializeFails, Fail, Unlock, BestEffortRemove, Working
<1>1. TypeOK'
  BY <1>0, BoundsAssumption
  DEF MaterializeFails, Fail, Unlock, BestEffortRemove, TypeOK, Directory, Stages, Absent, Working, Errors
<1>2. LockHeld'
  BY <1>0
  DEF MaterializeFails, Fail, Unlock, BestEffortRemove, LockHeld, TypeOK, Critical, Working
<1>3. JobKnown'
  BY <1>0
  DEF MaterializeFails, Fail, Unlock, BestEffortRemove, JobKnown, TypeOK, Working
<1>4. Loaded'
  BY <1>0
  DEF MaterializeFails, Fail, Unlock, BestEffortRemove, Loaded, TypeOK
<1>5. ClearedTemporary'
  BY <1>0
  DEF MaterializeFails, Fail, Unlock, BestEffortRemove, ClearedTemporary, TypeOK, LockHeld, Critical, Working
<1>6. OwnTemporary'
  BY <1>0
  DEF MaterializeFails, Fail, Unlock, BestEffortRemove, OwnTemporary, TypeOK, LockHeld, Critical, Working
<1>7. PublishedComplete'
  BY <1>0
  DEF MaterializeFails, Fail, Unlock, BestEffortRemove, PublishedComplete, TypeOK
<1>8. DonePresent'
  BY <1>0
  DEF MaterializeFails, Fail, Unlock, BestEffortRemove, DonePresent, TypeOK
<1> QED BY <1>1, <1>2, <1>3, <1>4, <1>5, <1>6, <1>7, <1>8

\* A failed rename only touches the temporary tree.
LEMMA RenameFailsHeld ==
  ASSUME Held, NEW h \in Hydrators, RenameFails(h)
  PROVE  Held'
<1> USE DEF Held, entry
<1>0. job[h] \in Manifests /\ entry(h) \in Entries /\ job[h].tree \in Trees
  BY WorksOnEntry DEF RenameFails, Fail, Unlock, BestEffortRemove, Working
<1>1. TypeOK'
  BY <1>0, BoundsAssumption
  DEF RenameFails, Fail, Unlock, BestEffortRemove, TypeOK, Directory, Stages, Absent, Working, Errors
<1>2. LockHeld'
  BY <1>0
  DEF RenameFails, Fail, Unlock, BestEffortRemove, LockHeld, TypeOK, Critical, Working
<1>3. JobKnown'
  BY <1>0
  DEF RenameFails, Fail, Unlock, BestEffortRemove, JobKnown, TypeOK, Working
<1>4. Loaded'
  BY <1>0
  DEF RenameFails, Fail, Unlock, BestEffortRemove, Loaded, TypeOK
<1>5. ClearedTemporary'
  BY <1>0
  DEF RenameFails, Fail, Unlock, BestEffortRemove, ClearedTemporary, TypeOK, LockHeld, Critical, Working
<1>6. OwnTemporary'
  BY <1>0
  DEF RenameFails, Fail, Unlock, BestEffortRemove, OwnTemporary, TypeOK, LockHeld, Critical, Working
<1>7. PublishedComplete'
  BY <1>0
  DEF RenameFails, Fail, Unlock, BestEffortRemove, PublishedComplete, TypeOK
<1>8. DonePresent'
  BY <1>0
  DEF RenameFails, Fail, Unlock, BestEffortRemove, DonePresent, TypeOK
<1> QED BY <1>1, <1>2, <1>3, <1>4, <1>5, <1>6, <1>7, <1>8

\* A killed process loses its lock; its temporary tree stays, and is owned by nobody.
LEMMA CrashHeld ==
  ASSUME Held, NEW h \in Hydrators, Crash(h)
  PROVE  Held'
<1> USE DEF Held, entry
<1>0. job[h] \in Manifests /\ entry(h) \in Entries /\ job[h].tree \in Trees
  BY WorksOnEntry DEF Crash, Working
<1>1. TypeOK'
  BY <1>0, BoundsAssumption
  DEF Crash, TypeOK, Directory, Stages, Absent, Working, Errors
<1>2. LockHeld'
  BY <1>0 DEF Crash, LockHeld, TypeOK, Critical, Working
<1>3. JobKnown'
  BY <1>0 DEF Crash, JobKnown, TypeOK, Working
<1>4. Loaded'
  BY <1>0 DEF Crash, Loaded, TypeOK
<1>5. ClearedTemporary'
  BY <1>0 DEF Crash, ClearedTemporary, TypeOK, LockHeld, Critical, Working
<1>6. OwnTemporary'
  BY <1>0 DEF Crash, OwnTemporary, TypeOK, LockHeld, Critical, Working
<1>7. PublishedComplete'
  BY <1>0 DEF Crash, PublishedComplete, TypeOK
<1>8. DonePresent'
  BY <1>0 DEF Crash, DonePresent, TypeOK
<1> QED BY <1>1, <1>2, <1>3, <1>4, <1>5, <1>6, <1>7, <1>8

\* Buck2 fills an absent destination with a whole tree.
LEMMA MaterializeHeld ==
  ASSUME Held, NEW e \in Entries, NEW t \in NativeTrees, Materialize(e, t)
  PROVE  Held'
<1> USE NativeAssumption DEF Held, Materialize
<1>1. TypeOK'
  BY DEF TypeOK, Directory, Stages
<1>2. LockHeld' /\ JobKnown' /\ Loaded' /\ ClearedTemporary' /\ OwnTemporary'
  BY DEF LockHeld, JobKnown, Loaded, ClearedTemporary, OwnTemporary, entry
<1>3. PublishedComplete'
  BY DEF PublishedComplete, TypeOK
<1>4. DonePresent'
  BY DEF DonePresent, TypeOK, Absent, entry
<1> QED BY <1>1, <1>2, <1>3, <1>4

\* Every step of the protocol keeps this, whatever load_payload returns.
LEMMA StepHeld ==
  ASSUME Held, NEW h \in Hydrators,
         \/ \E m \in Manifests : Begin(h, m)
         \/ AcquireLock(h) \/ PublishStep(h) \/ Return(h) \/ Disturb(h)
         \/ \E t \in Trees : LoadPayload(h, t)
  PROVE  Held'
<1>1. CASE \E m \in Manifests : Begin(h, m)
  BY <1>1, BeginHeld
<1>2. CASE AcquireLock(h)
  BY <1>2, AcquireLockHeld
<1>3. CASE PublishStep(h)
  BY <1>3, ReuseExistingHeld, RejectExistingHeld, FindAbsentHeld, ClearTemporaryHeld,
     ClearTemporaryFailsHeld, CreateTemporaryHeld, WriteEntriesHeld, SealChildrenHeld,
     SealRootHeld, RenameHeld, RenameBlockedHeld
  DEF PublishStep
<1>4. CASE Return(h)
  BY <1>4, ReturnHeld
<1>5. CASE Disturb(h)
  BY <1>5, MaterializeFailsHeld, RenameFailsHeld, CrashHeld DEF Disturb
<1>6. CASE \E t \in Trees : LoadPayload(h, t)
  BY <1>6, LoadPayloadHeld
<1> QED BY <1>1, <1>2, <1>3, <1>4, <1>5, <1>6

\* With the pinned payload, what is published and reported is the pinned tree.
LEMMA StepPinned ==
  ASSUME IInv, Held', NEW h \in Hydrators, Step(h)
  PROVE  PayloadPinned' /\ OkMeansPinned'
<1> USE DEF IInv, entry
<1>1. CASE Rename(h)
  <2>1. job[h] \in Manifests /\ entry(h) \in Entries
    BY <1>1, WorksOnEntry DEF Rename, Goto
  <2>2. dest' = [dest EXCEPT ![entry(h)] = [tree |-> job[h].tree, stage |-> "sealed"]]
    BY <1>1, <2>1 DEF Rename, Goto, OwnTemporary, PayloadPinned
  <2>3. PayloadPinned'
    BY <1>1 DEF Rename, Goto, PayloadPinned, TypeOK
  <2>4. OkMeansPinned'
    BY <1>1, <2>1, <2>2 DEF Rename, Goto, OkMeansPinned, TypeOK, Absent
  <2> QED BY <2>3, <2>4
<1>2. CASE ReuseExisting(h)
  <2>1. PayloadPinned'
    BY <1>2 DEF ReuseExisting, Goto, PayloadPinned, TypeOK
  <2>2. job[h].tree \in Trees /\ entry(h) \in Entries
    BY <1>2, WorksOnEntry DEF ReuseExisting, Goto
  <2>3. OkMeansPinned'
    BY <1>2, <2>2, NoneIsNoTree
    DEF ReuseExisting, Goto, OkMeansPinned, TypeOK, PublishedComplete, Absent
  <2> QED BY <2>1, <2>3
<1>3. CASE ~Rename(h) /\ ~ReuseExisting(h)
  <2>1. dest' = dest
    BY <1>3 DEF Step, PublishStep, Disturb, Begin, AcquireLock, RejectExisting, FindAbsent,
      ClearTemporary, ClearTemporaryFails, LoadPayload, CreateTemporary, WriteEntries,
      SealChildren, SealRoot, RenameBlocked, Return, MaterializeFails, RenameFails, Crash
  <2>2. \A k \in Hydrators \ {h} : pc'[k] = pc[k] /\ job'[k] = job[k] /\ payload'[k] = payload[k]
    BY <1>3 DEF Step, PublishStep, Disturb, Begin, AcquireLock, RejectExisting, FindAbsent,
      ClearTemporary, ClearTemporaryFails, LoadPayload, CreateTemporary, WriteEntries,
      SealChildren, SealRoot, RenameBlocked, Return, MaterializeFails, RenameFails, Crash,
      Goto, Fail, TypeOK
  <2>3. pc'[h] # "done"
    BY <1>3 DEF Step, PublishStep, Disturb, Begin, AcquireLock, RejectExisting, FindAbsent,
      ClearTemporary, ClearTemporaryFails, LoadPayload, CreateTemporary, WriteEntries,
      SealChildren, SealRoot, RenameBlocked, Return, MaterializeFails, RenameFails, Crash,
      Goto, Fail, TypeOK
  <2>4. pc'[h] \in {"create", "write", "seal", "rename"} => payload'[h] = job'[h].tree
    BY <1>3 DEF Step, PublishStep, Disturb, Begin, AcquireLock, RejectExisting, FindAbsent,
      ClearTemporary, ClearTemporaryFails, LoadPayload, CreateTemporary, WriteEntries,
      SealChildren, SealRoot, RenameBlocked, Return, MaterializeFails, RenameFails, Crash,
      Goto, Fail, TypeOK, PayloadPinned
  <2> QED BY <2>1, <2>2, <2>3, <2>4 DEF PayloadPinned, OkMeansPinned
<1> QED BY <1>1, <1>2, <1>3

\* Every step preserves the inductive invariant.
LEMMA NextIInv == IInv /\ [Next]_vars => IInv'
<1> SUFFICES ASSUME IInv, [Next]_vars PROVE IInv'
  OBVIOUS
<1>1. ASSUME NEW h \in Hydrators, Step(h)
      PROVE  IInv'
  <2>1. CASE LoadPayload(h, job[h].tree)
    <3>1. job[h].tree \in Trees
      BY <2>1, WorksOnEntry DEF LoadPayload, Goto, IInv
    <3> QED BY <1>1, <2>1, <3>1, IInvHeld, StepHeld, StepPinned DEF Held, IInv
  <2>2. CASE ~LoadPayload(h, job[h].tree)
    <3>1. Held'
      BY <1>1, <2>2, IInvHeld, StepHeld DEF Step
    <3> QED BY <1>1, <3>1, StepPinned DEF Held, IInv
  <2> QED BY <2>1, <2>2
<1>2. ASSUME NEW e \in Entries, NEW t \in NativeTrees, Materialize(e, t)
      PROVE  IInv'
  <2>1. Held'
    BY <1>2, IInvHeld, MaterializeHeld
  <2>2. PayloadPinned' /\ OkMeansPinned'
    BY <1>2 DEF Materialize, PayloadPinned, OkMeansPinned, IInv, TypeOK, Absent, entry
  <2> QED BY <2>1, <2>2 DEF Held, IInv
<1>3. CASE UNCHANGED vars
  BY <1>3 DEF vars, IInv, TypeOK, LockHeld, JobKnown, PayloadPinned,
    ClearedTemporary, OwnTemporary, PublishedComplete, OkMeansPinned, entry
<1> QED BY <1>1, <1>2, <1>3 DEF Next, Step

\* The inductive invariant holds in every reachable state.
THEOREM Invariance == Spec => []IInv
  BY InitIInv, NextIInv, PTL DEF Spec

\* Every variable keeps its type: in particular a hydrator never expands a
\* payload it has not loaded.
THEOREM TypeCorrect == Spec => []TypeOK
  BY Invariance, PTL DEF IInv

\* A visible store object is whole and sealed, whatever is killed or fails.
THEOREM StoreIsComplete == Spec => []PublishedComplete
  BY Invariance, PTL DEF IInv

\* Success means the pinned tree is in the store.
THEOREM SuccessIsPinned == Spec => []OkMeansPinned
  BY Invariance, PTL DEF IInv

\* The temporary tree of a hydrator that expands is its own.
THEOREM TemporaryIsOwn == Spec => []OwnTemporary
  BY Invariance, PTL DEF IInv

-----------------------------------------------------------------------------
(* The store is immutable.                                                  *)

\* Whatever step is taken, what is at a destination stays.
LEMMA DestinationStays ==
  ASSUME TypeOK, Next, NEW e \in Entries, dest[e] # Absent
  PROVE  dest'[e] = dest[e]
<1>1. ASSUME NEW h \in Hydrators, Step(h)
      PROVE  dest'[e] = dest[e]
  <2>1. CASE Rename(h)
    BY <2>1 DEF Rename, TypeOK
  <2>2. CASE ~Rename(h)
    BY <1>1, <2>2 DEF Step, PublishStep, Disturb, Begin, AcquireLock, ReuseExisting,
      RejectExisting, FindAbsent, ClearTemporary, ClearTemporaryFails, LoadPayload,
      CreateTemporary, WriteEntries, SealChildren, SealRoot, RenameBlocked, Return,
      MaterializeFails, RenameFails, Crash
  <2> QED BY <2>1, <2>2
<1>2. ASSUME NEW f \in Entries, NEW t \in NativeTrees, Materialize(f, t)
      PROVE  dest'[e] = dest[e]
  BY <1>2 DEF Materialize, TypeOK
<1> QED BY <1>1, <1>2 DEF Next, Step

\* What is visible in the store is never rewritten or removed.
THEOREM Immutability == Spec => StoreImmutable
<1>1. IInv /\ [Next]_vars => [\A e \in Entries : dest[e] # Absent => dest'[e] = dest[e]]_vars
  BY DestinationStays DEF IInv
<1> QED BY <1>1, Invariance, PTL DEF Spec, StoreImmutable

-----------------------------------------------------------------------------
(* Cleanup after failures.                                                  *)

\* The only steps that fail at an expansion or a rename remove the temporary
\* tree, and with privilege they succeed in it.
LEMMA FailureCleans ==
  ASSUME IInv, Next, Privileged, NEW h \in Hydrators,
         error[h] = None, error'[h] \in {"Materialize", "Rename"}
  PROVE  temp'[entry(h)] = Absent
<1>1. error'[h] # error[h]
  BY NoneIsNoError DEF Errors
<1>2. temp \in [Entries -> Directory \cup {Absent}] /\ error \in [Hydrators -> Errors \cup {None}]
  BY DEF IInv, TypeOK
<1>3. ASSUME NEW k \in Hydrators, Step(k)
      PROVE  temp'[entry(h)] = Absent
  <2>1. CASE MaterializeFails(k) \/ RenameFails(k) \/ RenameBlocked(k)
    <3>1. k = h
      BY <1>1, <1>2, <2>1 DEF MaterializeFails, RenameFails, RenameBlocked, Fail
    <3>2. entry(h) \in Entries
      BY <2>1, <3>1, WorksOnEntry DEF IInv, MaterializeFails, RenameFails, RenameBlocked
    <3>3. temp' = [temp EXCEPT ![entry(h)] = Absent]
      BY <2>1, <3>1 DEF MaterializeFails, RenameFails, RenameBlocked, BestEffortRemove, Removable
    <3> QED BY <1>2, <3>2, <3>3
  <2>2. CASE RejectExisting(k) \/ ClearTemporaryFails(k)
    <3>1. error' = [error EXCEPT ![k] = "TreeHash"] \/ error' = [error EXCEPT ![k] = "RemoveDir"]
      BY <2>2 DEF RejectExisting, ClearTemporaryFails, Fail
    <3> QED BY <1>1, <1>2, <3>1
  <2>3. CASE ~(MaterializeFails(k) \/ RenameFails(k) \/ RenameBlocked(k)
                \/ RejectExisting(k) \/ ClearTemporaryFails(k))
    <3>1. error' = error \/ error' = [error EXCEPT ![k] = None]
      BY <1>3, <2>3 DEF Step, PublishStep, Disturb, Begin, AcquireLock, ReuseExisting,
        FindAbsent, ClearTemporary, LoadPayload, CreateTemporary, WriteEntries,
        SealChildren, SealRoot, Rename, Return, Crash
    <3> QED BY <1>1, <1>2, <3>1
  <2> QED BY <2>1, <2>2, <2>3
<1>4. ASSUME NEW e \in Entries, NEW t \in NativeTrees, Materialize(e, t)
      PROVE  temp'[entry(h)] = Absent
  BY <1>1, <1>4 DEF Materialize
<1> QED BY <1>3, <1>4 DEF Next, Step

\* A privileged hydrator that fails to expand or to publish leaves no
\* temporary tree behind, however far the expansion had come.
THEOREM FailureIsClean == ASSUME Privileged PROVE Spec => FailureRemovesTemporary
<1>1. IInv /\ [Next]_vars
        => [\A h \in Hydrators :
              (error[h] = None /\ error'[h] \in {"Materialize", "Rename"})
                => temp'[entry(h)] = Absent]_vars
  BY FailureCleans
<1> QED BY <1>1, Invariance, PTL DEF Spec, FailureRemovesTemporary

-----------------------------------------------------------------------------
(* Hydration implements AtomicStore.                                        *)

\* Under the invariant a reader sees the tree that is at the destination.
LEMMA VisibleIsDest ==
  ASSUME TypeOK, PublishedComplete
  PROVE  visible = [e \in Entries |-> dest[e].tree]
  BY DEF visible, PublishedComplete, Absent

\* The initial store is empty in both specifications.
LEMMA InitRefines == Init => Abstract!Init
  BY DEF Init, Abstract!Init, visible, answer, Absent

\* The steps of a hydrator that a caller cannot see.
LEMMA SilentRefines ==
  ASSUME IInv, IInv', NEW h \in Hydrators,
         \/ AcquireLock(h) \/ FindAbsent(h) \/ ClearTemporary(h)
         \/ LoadPayload(h, job[h].tree) \/ CreateTemporary(h) \/ WriteEntries(h)
         \/ SealChildren(h) \/ SealRoot(h)
  PROVE  UNCHANGED Abstract!abstractVars
<1>1. dest' = dest /\ job' = job
  BY DEF AcquireLock, FindAbsent, ClearTemporary, LoadPayload, CreateTemporary,
    WriteEntries, SealChildren, SealRoot
<1>2. answer' = answer
  BY DEF AcquireLock, FindAbsent, ClearTemporary, LoadPayload, CreateTemporary,
    WriteEntries, SealChildren, SealRoot, Goto, answer, IInv, TypeOK
<1> QED BY <1>1, <1>2 DEF visible, Abstract!abstractVars

\* A call, and a return or a crash.
LEMMA CallRefines ==
  ASSUME IInv, NEW h \in Hydrators, NEW m \in Manifests, Begin(h, m)
  PROVE  Abstract!Call(h, m)
  BY DEF Begin, Goto, Abstract!Call, visible, answer, IInv, TypeOK, JobKnown

\* A process that returns, or is killed, leaves the atomic store as it is.
LEMMA ExitRefines ==
  ASSUME IInv, NEW h \in Hydrators, Return(h) \/ Crash(h)
  PROVE  Abstract!Exit(h)
<1>1. job[h] # None
  BY DEF Return, Crash, Working, IInv, JobKnown
<1>2. pc' = [pc EXCEPT ![h] = "idle"] /\ job' = [job EXCEPT ![h] = None] /\ dest' = dest
  BY DEF Return, Crash
<1>3. answer' = [answer EXCEPT ![h] = "none"]
  BY <1>2 DEF answer, IInv, TypeOK
<1> QED BY <1>1, <1>2, <1>3 DEF Abstract!Exit, visible

\* A hydrator that has started and not finished has a pending call.
LEMMA WorkingIsPending ==
  ASSUME IInv, NEW h \in Hydrators, pc[h] \in Working
  PROVE  job[h] # None /\ answer[h] = "none" /\ job[h] \in Manifests
         /\ job[h].entry \in Entries /\ job[h].tree \in Trees
  BY ManifestsAssumption DEF IInv, TypeOK, JobKnown, Working, answer

\* The rename is the atomic publication.
LEMMA PublishRefines ==
  ASSUME IInv, IInv', NEW h \in Hydrators, Rename(h)
  PROVE  Abstract!Publish(h)
<1>1. pc[h] = "rename" /\ pc' = [pc EXCEPT ![h] = "done"] /\ job' = job
  BY DEF Rename, Goto
<1>2. job[h] # None /\ answer[h] = "none" /\ job[h].entry \in Entries
  BY <1>1, WorkingIsPending DEF Working
<1>3. dest[job[h].entry] = Absent
      /\ dest' = [dest EXCEPT ![job[h].entry] = [tree |-> job[h].tree, stage |-> "sealed"]]
  BY <1>1, <1>2 DEF Rename, IInv, OwnTemporary, PayloadPinned, entry
<1>4. answer' = [answer EXCEPT ![h] = "ok"]
  BY <1>1 DEF answer, IInv, TypeOK
<1>5. visible[job[h].entry] = None
  BY <1>2, <1>3 DEF visible, Absent
<1>6. visible' = [visible EXCEPT ![job[h].entry] = job[h].tree]
  BY <1>2, <1>3 DEF visible, IInv, TypeOK
<1> QED BY <1>1, <1>2, <1>4, <1>5, <1>6 DEF Abstract!Publish, Abstract!Pending

\* The hash check of an existing destination is the atomic reuse.
LEMMA ReuseRefines ==
  ASSUME IInv, NEW h \in Hydrators, ReuseExisting(h)
  PROVE  Abstract!Reuse(h)
<1>1. pc[h] = "check" /\ pc' = [pc EXCEPT ![h] = "done"] /\ job' = job /\ dest' = dest
  BY DEF ReuseExisting, Goto
<1>2. job[h] # None /\ answer[h] = "none" /\ job[h].entry \in Entries
  BY <1>1, WorkingIsPending DEF Working
<1>3. visible[job[h].entry] = job[h].tree
  BY <1>2, VisibleIsDest DEF ReuseExisting, entry, IInv
<1>4. answer' = [answer EXCEPT ![h] = "ok"]
  BY <1>1 DEF answer, IInv, TypeOK
<1> QED BY <1>1, <1>2, <1>3, <1>4 DEF Abstract!Reuse, Abstract!Pending, visible

\* Every failure is an atomic rejection.
LEMMA RejectRefines ==
  ASSUME IInv, NEW h \in Hydrators,
         \/ RejectExisting(h) \/ ClearTemporaryFails(h) \/ RenameBlocked(h)
         \/ MaterializeFails(h) \/ RenameFails(h)
  PROVE  Abstract!Reject(h)
<1>1. pc[h] \in Working /\ pc' = [pc EXCEPT ![h] = "failed"] /\ job' = job /\ dest' = dest
  BY DEF RejectExisting, ClearTemporaryFails, RenameBlocked, MaterializeFails,
    RenameFails, Fail, Working
<1>2. job[h] # None /\ answer[h] = "none"
  BY <1>1, WorkingIsPending
<1>3. answer' = [answer EXCEPT ![h] = "failed"]
  BY <1>1 DEF answer, IInv, TypeOK
<1> QED BY <1>1, <1>2, <1>3 DEF Abstract!Reject, Abstract!Pending, visible

\* Buck2's publication is the abstract one.
LEMMA MaterializeRefines ==
  ASSUME IInv, NEW e \in Entries, NEW t \in NativeTrees, Materialize(e, t)
  PROVE  Abstract!Materialize(e, t)
<1>1. visible[e] = None
  BY DEF Materialize, visible, Absent
<1>2. visible' = [visible EXCEPT ![e] = t]
  BY DEF Materialize, visible, IInv, TypeOK
<1>3. answer' = answer /\ job' = job
  BY DEF Materialize, answer
<1> QED BY <1>1, <1>2, <1>3 DEF Abstract!Materialize

\* Every step of the hydrators is a step of the atomic store, or invisible.
LEMMA NextRefines ==
  IInv /\ IInv' /\ [Next]_vars => [Abstract!Next]_(Abstract!abstractVars)
<1> SUFFICES ASSUME IInv, IInv', [Next]_vars
             PROVE  [Abstract!Next]_(Abstract!abstractVars)
  OBVIOUS
<1>1. ASSUME NEW h \in Hydrators, Step(h)
      PROVE  [Abstract!Next]_(Abstract!abstractVars)
  <2>1. CASE \E m \in Manifests : Begin(h, m)
    BY <2>1, CallRefines DEF Abstract!Next
  <2>2. CASE Return(h) \/ Crash(h)
    BY <2>2, ExitRefines DEF Abstract!Next
  <2>3. CASE Rename(h)
    BY <2>3, PublishRefines DEF Abstract!Next
  <2>4. CASE ReuseExisting(h)
    BY <2>4, ReuseRefines DEF Abstract!Next
  <2>5. CASE \/ RejectExisting(h) \/ ClearTemporaryFails(h) \/ RenameBlocked(h)
             \/ MaterializeFails(h) \/ RenameFails(h)
    BY <2>5, RejectRefines DEF Abstract!Next
  <2>6. CASE \/ AcquireLock(h) \/ FindAbsent(h) \/ ClearTemporary(h)
             \/ LoadPayload(h, job[h].tree) \/ CreateTemporary(h) \/ WriteEntries(h)
             \/ SealChildren(h) \/ SealRoot(h)
    BY <2>6, SilentRefines
  <2> QED BY <1>1, <2>1, <2>2, <2>3, <2>4, <2>5, <2>6 DEF Step, PublishStep, Disturb
<1>2. ASSUME NEW e \in Entries, NEW t \in NativeTrees, Materialize(e, t)
      PROVE  [Abstract!Next]_(Abstract!abstractVars)
  BY <1>2, MaterializeRefines DEF Abstract!Next
<1>3. CASE UNCHANGED vars
  BY <1>3 DEF vars, visible, answer, Abstract!abstractVars
<1> QED BY <1>1, <1>2, <1>3 DEF Next, Step

\* Hydration implements the atomic store: one call is one atomic step.
THEOREM Refinement == Spec => ImplementsAtomicStore
  BY InitRefines, NextRefines, Invariance, PTL
  DEF Spec, ImplementsAtomicStore, Abstract!Spec

=============================================================================
