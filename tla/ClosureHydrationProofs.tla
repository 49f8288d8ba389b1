----------------------- MODULE ClosureHydrationProofs -----------------------
(****************************************************************************)
(* Proofs about ClosureHydration for any hydrators, closures and bundles,   *)
(* any bounds, and with or without privilege. While no file of the bundle   *)
(* is replaced, the hydration of a closure implements StorePublish, success *)
(* is the pinned closure, and a defect anywhere keeps everything out of the *)
(* store. While files are replaced at any time, what is published may not   *)
(* be what is pinned, but nothing of the closure is left out, and all of it *)
(* is whole.                                                                *)
(****************************************************************************)
EXTENDS ClosureHydration, StorePublishProofs

\* What ClosureTypeOK says beyond TypeOK.
ClosureTyped ==
  /\ closure \in Closures
  /\ manifestOf \in [Entries -> Manifests \cup {None}]
  /\ archiveOf \in [Entries -> Trees \cup {None}]
  /\ phase \in [Hydrators -> {"rest"} \cup Verifying \cup Publishing \cup Ended]
  /\ todo \in [Hydrators -> SUBSET Entries]
  /\ object \in [Hydrators -> Entries \cup {None}]
  /\ candidate \in [Hydrators -> Manifests \cup {None}]
  /\ verified \in [Hydrators -> UNION {[S -> Manifests] : S \in SUBSET Entries}]
  /\ refetches \in 0..MaxRefetches

\* The files of one object are what the closure pins.
ObjectSound(e) ==
  /\ manifestOf[e] = closure.pins[e]
  /\ closure.pins[e].entry = e
  /\ closure.pins[e].target = closure.target
  /\ archiveOf[e] = closure.pins[e].tree

\* The verified map holds sound objects of the closure, as they are pinned.
VerifiedSound(h) ==
  \A e \in DOMAIN verified[h] :
    e \in closureObjects /\ verified[h][e] = closure.pins[e] /\ ObjectSound(e)

Rests(h) == phase[h] = "rest" => DOMAIN verified[h] = {}

\* First pass: what is not verified is still to do.
Verifies(h) ==
  /\ phase[h] \in Verifying =>
       /\ VerifiedSound(h)
       /\ todo[h] \subseteq closureObjects
       /\ DOMAIN verified[h] = closureObjects \ todo[h]
  /\ phase[h] \in {"manifest", "archive"} =>
       object[h] \in closureObjects /\ manifestOf[object[h]] = closure.pins[object[h]]
  /\ phase[h] = "archive" => candidate[h] = closure.pins[object[h]]

PinnedAt(e) == [tree |-> closure.pins[e].tree, stage |-> "sealed"]

\* Second pass: what is not to do any more is in the store.
Publishes(h) ==
  /\ phase[h] \in Publishing \cup {"hydrated"} =>
       /\ Sound
       /\ DOMAIN verified[h] = closureObjects
       /\ \A e \in closureObjects : verified[h][e] = closure.pins[e]
       /\ todo[h] \subseteq closureObjects
       /\ \A e \in closureObjects \ todo[h] : dest[e] = PinnedAt(e)
  /\ phase[h] = "hydrated" => todo[h] = {}

\* What publish_validated_store_object is called with.
Calls(h) ==
  /\ pc[h] # "idle" =>
       /\ phase[h] \in Publishing
       /\ entry(h) \in closureObjects
       /\ job[h] = closure.pins[entry(h)]
  /\ phase[h] = "payload" => pc[h] = "load" /\ candidate[h] = manifestOf[entry(h)]

HydratorInv(h) == Rests(h) /\ Verifies(h) /\ Publishes(h) /\ Calls(h)

ClosureInv == IInv /\ ClosureTyped /\ \A h \in Hydrators : HydratorInv(h)

\* A step that leaves hydrator k where it is.
Same(k) ==
  /\ phase'[k] = phase[k] /\ todo'[k] = todo[k] /\ object'[k] = object[k]
  /\ candidate'[k] = candidate[k] /\ verified'[k] = verified[k]
  /\ pc'[k] = pc[k] /\ job'[k] = job[k]

\* A step that changes no file of the bundle and takes nothing out of the store.
Keeps ==
  /\ UNCHANGED <<closure, manifestOf, archiveOf>>
  /\ \A e \in Entries : dest[e] # Absent => dest'[e] = dest[e]

-----------------------------------------------------------------------------
(* Facts about one state.                                                   *)

\* The pins of a closure are manifests of entries of the store.
LEMMA PinsKnown ==
  ASSUME ClosureTyped
  PROVE  /\ closureObjects \subseteq Entries
         /\ \A e \in closureObjects :
              closure.pins[e] \in Manifests /\ closure.pins[e].tree \in Trees
  BY ClosuresAssumption, ManifestsAssumption DEF ClosureTyped, closureObjects

\* A pinned tree in the store is not an absent one.
LEMMA PinnedIsPresent == \A e : PinnedAt(e) # Absent
  BY DEF PinnedAt, Absent

\* What a hydrator relies on is not disturbed by the steps of others.
LEMMA OthersKeep ==
  ASSUME ClosureTyped, Keeps, NEW k \in Hydrators, HydratorInv(k), Same(k)
  PROVE  HydratorInv(k)'
<1>1. closureObjects' = closureObjects /\ entry(k)' = entry(k)
  BY DEF Keeps, Same, closureObjects, entry
<1>2. \A e : ObjectSound(e)' <=> ObjectSound(e)
  BY DEF ObjectSound, Keeps
<1>3. Sound' <=> Sound
  BY DEF Sound, Keeps, closureObjects
<1>4. \A e \in closureObjects : dest[e] = PinnedAt(e) => dest'[e] = PinnedAt(e)'
  BY PinsKnown, PinnedIsPresent DEF Keeps, PinnedAt
<1>5. Rests(k)'
  BY DEF HydratorInv, Rests, Same
<1>6. Verifies(k)'
  BY <1>1, <1>2 DEF HydratorInv, Verifies, VerifiedSound, Same, Keeps
<1>7. Publishes(k)'
  BY <1>1, <1>3, <1>4 DEF HydratorInv, Publishes, Same, Keeps
<1>8. Calls(k)'
  BY <1>1 DEF HydratorInv, Calls, Same, Keeps
<1> QED BY <1>5, <1>6, <1>7, <1>8 DEF HydratorInv

\* A step of h is right when it is right for h and leaves the others alone.
LEMMA Assemble ==
  ASSUME ClosureInv, NEW h \in Hydrators, Keeps, HydratorInv(h)',
         \A k \in Hydrators \ {h} : Same(k)
  PROVE  \A k \in Hydrators : HydratorInv(k)'
  BY OthersKeep DEF ClosureInv

-----------------------------------------------------------------------------
(* The first pass: nothing of StorePublish moves.                           *)

\* The end of a hydration by an error of the first pass.
LEMMA RefusedHolds ==
  ASSUME ClosureInv, NEW h \in Hydrators,
         \/ \E e \in todo[h] : RefuseManifestHash(h, e)
         \/ RefuseObject(h) \/ RefuseClosure(h)
  PROVE  ClosureTyped' /\ \A k \in Hydrators : HydratorInv(k)'
<1>1. /\ phase[h] \in Verifying /\ phase' = [phase EXCEPT ![h] = "refused"]
      /\ UNCHANGED <<vars, closure, bundle, todo, object, candidate, verified>>
  BY DEF RefuseManifestHash, RefuseObject, RefuseClosure, Enter, Verifying
<1>2. ClosureTyped'
  BY <1>1 DEF ClosureInv, ClosureTyped, bundle, Ended
<1>3. phase'[h] = "refused" /\ pc'[h] = "idle"
  BY <1>1 DEF ClosureInv, ClosureTyped, HydratorInv, Calls, vars, Verifying, Publishing
<1>4. HydratorInv(h)'
  BY <1>3 DEF HydratorInv, Rests, Verifies, Publishes, Calls, Verifying, Publishing
<1>5. Keeps /\ \A k \in Hydrators \ {h} : Same(k)
  BY <1>1 DEF Keeps, Same, vars, bundle, ClosureInv, ClosureTyped
<1> QED BY <1>2, <1>4, <1>5, Assemble

\* The first pass begins with nothing verified.
LEMMA HydrateClosureHolds ==
  ASSUME ClosureInv, NEW h \in Hydrators, HydrateClosure(h)
  PROVE  ClosureTyped' /\ \A k \in Hydrators : HydratorInv(k)'
<1>1. /\ phase[h] = "rest" /\ phase' = [phase EXCEPT ![h] = "hash"]
      /\ todo' = [todo EXCEPT ![h] = closureObjects]
      /\ UNCHANGED <<vars, closure, bundle, object, candidate, verified>>
  BY DEF HydrateClosure, Enter
<1>2. ClosureTyped'
  BY <1>1, PinsKnown DEF ClosureInv, ClosureTyped, bundle, Verifying
<1>3. /\ phase'[h] = "hash" /\ todo'[h] = closureObjects' /\ DOMAIN verified'[h] = {}
      /\ pc'[h] = "idle"
  BY <1>1 DEF ClosureInv, ClosureTyped, HydratorInv, Rests, Calls, vars, Publishing,
     closureObjects
<1>4. HydratorInv(h)'
  BY <1>3
  DEF HydratorInv, Rests, Verifies, VerifiedSound, Publishes, Calls, Verifying, Publishing
<1>5. Keeps /\ \A k \in Hydrators \ {h} : Same(k)
  BY <1>1 DEF Keeps, Same, vars, bundle, ClosureInv, ClosureTyped
<1> QED BY <1>2, <1>4, <1>5, Assemble

\* The manifest file has the pinned hash, and keeps it.
LEMMA CheckManifestHashHolds ==
  ASSUME ClosureInv, NEW h \in Hydrators, NEW e \in todo[h], CheckManifestHash(h, e)
  PROVE  ClosureTyped' /\ \A k \in Hydrators : HydratorInv(k)'
<1>1. /\ phase[h] = "hash" /\ phase' = [phase EXCEPT ![h] = "manifest"]
      /\ manifestOf[e] = closure.pins[e]
      /\ object' = [object EXCEPT ![h] = e]
      /\ UNCHANGED <<vars, closure, bundle, todo, candidate, verified>>
  BY DEF CheckManifestHash, Enter
<1>2. VerifiedSound(h) /\ todo[h] \subseteq closureObjects /\ pc[h] = "idle"
      /\ DOMAIN verified[h] = closureObjects \ todo[h]
  BY <1>1 DEF ClosureInv, HydratorInv, Verifies, Calls, Verifying, Publishing
<1>3. ClosureTyped'
  BY <1>1, <1>2, PinsKnown DEF ClosureInv, ClosureTyped, bundle, Verifying
<1>4. phase'[h] = "manifest" /\ object'[h] = e
  BY <1>1 DEF ClosureInv, ClosureTyped
<1>5. VerifiedSound(h)'
  BY <1>1, <1>2 DEF VerifiedSound, ObjectSound, closureObjects, bundle
<1>6. HydratorInv(h)'
  BY <1>1, <1>2, <1>4, <1>5
  DEF HydratorInv, Rests, Verifies, Publishes, Calls, Verifying, Publishing,
      closureObjects, bundle, vars
<1>7. Keeps /\ \A k \in Hydrators \ {h} : Same(k)
  BY <1>1 DEF Keeps, Same, vars, bundle, ClosureInv, ClosureTyped
<1> QED BY <1>3, <1>6, <1>7, Assemble

\* What is parsed is what was hashed; a pinned manifest is there.
LEMMA LoadManifestHolds ==
  ASSUME ClosureInv, NEW h \in Hydrators, LoadManifest(h)
  PROVE  ClosureTyped' /\ \A k \in Hydrators : HydratorInv(k)'
<1>1. /\ phase[h] = "manifest"
      /\ candidate' = [candidate EXCEPT ![h] = manifestOf[object[h]]]
      /\ UNCHANGED <<vars, closure, bundle, todo, object, verified>>
  BY DEF LoadManifest, Enter
<1>2. /\ VerifiedSound(h) /\ todo[h] \subseteq closureObjects /\ pc[h] = "idle"
      /\ DOMAIN verified[h] = closureObjects \ todo[h]
      /\ object[h] \in closureObjects /\ manifestOf[object[h]] = closure.pins[object[h]]
  BY <1>1 DEF ClosureInv, HydratorInv, Verifies, Calls, Verifying, Publishing
<1>3. manifestOf[object[h]] \in Manifests /\ manifestOf[object[h]] # None
  BY <1>2, PinsKnown, NoneAssumption DEF ClosureInv
<1>4. phase' = [phase EXCEPT ![h] = "archive"]
  BY <1>3 DEF LoadManifest, Enter
<1>5. ClosureTyped'
  BY <1>1, <1>3, <1>4 DEF ClosureInv, ClosureTyped, bundle, Verifying
<1>6. phase'[h] = "archive" /\ candidate'[h] = closure.pins[object[h]]
  BY <1>1, <1>2, <1>4 DEF ClosureInv, ClosureTyped
<1>7. VerifiedSound(h)'
  BY <1>1, <1>2 DEF VerifiedSound, ObjectSound, closureObjects, bundle
<1>8. HydratorInv(h)'
  BY <1>1, <1>2, <1>6, <1>7
  DEF HydratorInv, Rests, Verifies, Publishes, Calls, Verifying, Publishing,
      closureObjects, bundle, vars
<1>9. Keeps /\ \A k \in Hydrators \ {h} : Same(k)
  BY <1>1, <1>4 DEF Keeps, Same, vars, bundle, ClosureInv, ClosureTyped
<1> QED BY <1>5, <1>8, <1>9, Assemble

\* An accepted object is sound, and joins the verified ones.
LEMMA VerifyObjectHolds ==
  ASSUME ClosureInv, NEW h \in Hydrators, VerifyObject(h)
  PROVE  ClosureTyped' /\ \A k \in Hydrators : HydratorInv(k)'
<1> DEFINE o == object[h]
           now == [e \in DOMAIN verified[h] \cup {o} |->
                     IF e = o THEN candidate[h] ELSE verified[h][e]]
<1>1. /\ phase[h] = "archive" /\ phase' = [phase EXCEPT ![h] = "hash"]
      /\ Acceptable(candidate[h], o)
      /\ verified' = [verified EXCEPT ![h] = now]
      /\ todo' = [todo EXCEPT ![h] = todo[h] \ {o}]
      /\ UNCHANGED <<vars, closure, bundle, object, candidate>>
  BY DEF VerifyObject, Enter
<1>2. /\ VerifiedSound(h) /\ todo[h] \subseteq closureObjects /\ pc[h] = "idle"
      /\ DOMAIN verified[h] = closureObjects \ todo[h]
      /\ o \in closureObjects /\ manifestOf[o] = closure.pins[o]
      /\ candidate[h] = closure.pins[o]
  BY <1>1 DEF ClosureInv, HydratorInv, Verifies, Calls, Verifying, Publishing
<1>3. ObjectSound(o)
  BY <1>1, <1>2 DEF ObjectSound, Acceptable
<1>4. /\ phase'[h] = "hash" /\ todo'[h] = todo[h] \ {o} /\ verified'[h] = now
  BY <1>1 DEF ClosureInv, ClosureTyped
<1>5. now \in [DOMAIN now -> Manifests] /\ DOMAIN now \in SUBSET Entries
  BY <1>2, PinsKnown DEF ClosureInv, VerifiedSound
<1>6. ClosureTyped'
  <2>1. verified' \in [Hydrators -> UNION {[S -> Manifests] : S \in SUBSET Entries}]
    <3>1. now \in UNION {[S -> Manifests] : S \in SUBSET Entries}
      BY <1>5
    <3> HIDE DEF now
    <3> QED BY <1>1, <3>1 DEF ClosureInv, ClosureTyped
  <2>2. todo' \in [Hydrators -> SUBSET Entries]
        /\ phase' \in [Hydrators -> {"rest"} \cup Verifying \cup Publishing \cup Ended]
    BY <1>1 DEF ClosureInv, ClosureTyped, Verifying
  <2> QED BY <1>1, <2>1, <2>2 DEF ClosureInv, ClosureTyped, bundle
<1>7. VerifiedSound(h)'
  BY <1>1, <1>2, <1>3, <1>4 DEF VerifiedSound, ObjectSound, closureObjects, bundle
<1>8. DOMAIN verified'[h] = closureObjects' \ todo'[h] /\ todo'[h] \subseteq closureObjects'
  BY <1>1, <1>2, <1>4 DEF closureObjects
<1>9. HydratorInv(h)'
  BY <1>1, <1>2, <1>4, <1>7, <1>8
  DEF HydratorInv, Rests, Verifies, Publishes, Calls, Verifying, Publishing, vars
<1>10. Keeps /\ \A k \in Hydrators \ {h} : Same(k)
  BY <1>1 DEF Keeps, Same, vars, bundle, ClosureInv, ClosureTyped
<1> QED BY <1>6, <1>9, <1>10, Assemble

\* When validate_closure accepts, the bundle and the closure are sound.
LEMMA ValidateClosureHolds ==
  ASSUME ClosureInv, NEW h \in Hydrators, ValidateClosure(h)
  PROVE  ClosureTyped' /\ \A k \in Hydrators : HydratorInv(k)'
<1>1. /\ phase[h] = "hash" /\ phase' = [phase EXCEPT ![h] = "publish"]
      /\ todo[h] = {} /\ CompleteAndMinimal(h)
      /\ todo' = [todo EXCEPT ![h] = closureObjects]
      /\ UNCHANGED <<vars, closure, bundle, object, candidate, verified>>
  BY DEF ValidateClosure, Enter
<1>2. VerifiedSound(h) /\ DOMAIN verified[h] = closureObjects /\ pc[h] = "idle"
  BY <1>1 DEF ClosureInv, HydratorInv, Verifies, Calls, Verifying, Publishing
<1>3. Sound
  <2>1. [e \in DOMAIN verified[h] |-> verified[h][e].refs]
          = [e \in closureObjects |-> closure.pins[e].refs]
    BY <1>2 DEF VerifiedSound
  <2>2. \A e \in closureObjects : ObjectSound(e)
    BY <1>2 DEF VerifiedSound
  <2> QED BY <1>1, <2>1, <2>2 DEF Sound, CompleteAndMinimal, ObjectSound
<1>4. ClosureTyped'
  BY <1>1, PinsKnown DEF ClosureInv, ClosureTyped, bundle, Publishing
<1>5. phase'[h] = "publish" /\ todo'[h] = closureObjects /\ verified'[h] = verified[h] /\ pc'[h] = "idle"
  BY <1>1, <1>2 DEF ClosureInv, ClosureTyped, vars
<1>6. closureObjects' = closureObjects /\ Sound'
  BY <1>1, <1>3 DEF Sound, closureObjects, bundle
<1>7. HydratorInv(h)'
  BY <1>1, <1>2, <1>5, <1>6
  DEF HydratorInv, Rests, Verifies, Publishes, Calls, Verifying, Publishing, VerifiedSound
<1>8. Keeps /\ \A k \in Hydrators \ {h} : Same(k)
  BY <1>1 DEF Keeps, Same, vars, bundle, ClosureInv, ClosureTyped
<1> QED BY <1>4, <1>7, <1>8, Assemble

-----------------------------------------------------------------------------
(* The second pass.                                                         *)

\* What a publishing hydrator knows of an object of its closure.
LEMMA PinnedObject ==
  ASSUME ClosureInv, NEW h \in Hydrators, phase[h] \in Publishing, NEW e \in closureObjects
  PROVE  /\ closure.pins[e] \in Manifests /\ e \in Entries
         /\ closure.pins[e].entry = e /\ closure.pins[e].tree \in Trees
         /\ verified[h][e] = closure.pins[e]
         /\ manifestOf[e] = closure.pins[e] /\ archiveOf[e] = closure.pins[e].tree
  BY PinsKnown DEF ClosureInv, HydratorInv, Publishes, Sound

\* The store call is made for an object that is still to do, as it is pinned.
LEMMA PublishObjectHolds ==
  ASSUME ClosureInv, NEW h \in Hydrators, NEW e \in todo[h], PublishObject(h, e)
  PROVE  /\ ClosureTyped' /\ \A k \in Hydrators : HydratorInv(k)'
         /\ Next
<1>1. /\ phase[h] = "publish" /\ pc[h] = "idle"
      /\ pc' = [pc EXCEPT ![h] = "lock"] /\ job' = [job EXCEPT ![h] = verified[h][e]]
      /\ UNCHANGED <<dest, closure, bundle, own>> /\ Begin(h, verified[h][e])
  BY DEF PublishObject, Begin, Goto
<1>2. e \in closureObjects
  BY <1>1 DEF ClosureInv, HydratorInv, Publishes, Publishing
<1>3. /\ verified[h][e] = closure.pins[e] /\ closure.pins[e] \in Manifests
      /\ closure.pins[e].entry = e
  BY <1>1, <1>2, PinnedObject DEF Publishing
<1>4. ClosureTyped'
  BY <1>1 DEF ClosureInv, ClosureTyped, bundle, own
<1>5. pc'[h] = "lock" /\ job'[h] = closure.pins[e] /\ entry(h)' = e
  BY <1>1, <1>3 DEF ClosureInv, IInv, TypeOK, entry
<1>6. HydratorInv(h)'
  <2>1. Publishes(h)'
    BY <1>1 DEF ClosureInv, HydratorInv, Publishes, Sound, PinnedAt, closureObjects, bundle, own
  <2>2. Calls(h)'
    BY <1>1, <1>2, <1>5 DEF Calls, Publishing, closureObjects, own
  <2> QED BY <1>1, <2>1, <2>2 DEF HydratorInv, Rests, Verifies, Verifying, own
<1>7. Keeps /\ \A k \in Hydrators \ {h} : Same(k)
  BY <1>1 DEF Keeps, Same, bundle, own, ClosureInv, IInv, TypeOK
<1> QED BY <1>1, <1>3, <1>4, <1>6, <1>7, Assemble DEF Next

\* Steps inside publish_validated_store_object leave the closure alone.
LEMMA InsideHolds ==
  ASSUME ClosureInv, NEW h \in Hydrators, Next, UNCHANGED <<closure, bundle, own>>,
         pc[h] \notin {"idle", "load"}, pc'[h] # "idle",
         job' = job, \A k \in Hydrators \ {h} : pc'[k] = pc[k]
  PROVE  ClosureTyped' /\ \A k \in Hydrators : HydratorInv(k)'
<1>1. ClosureTyped'
  BY DEF ClosureInv, ClosureTyped, bundle, own
<1>2. Keeps
  BY DestinationStays DEF Keeps, bundle, ClosureInv, IInv
<1>3. phase[h] = "publish" /\ entry(h) \in closureObjects /\ job[h] = closure.pins[entry(h)]
  BY DEF ClosureInv, HydratorInv, Calls, Publishing
<1>4. \A e \in closureObjects : dest[e] = PinnedAt(e) => dest'[e] = PinnedAt(e)'
  BY <1>2, PinsKnown, PinnedIsPresent DEF Keeps, PinnedAt, ClosureInv
<1>5. HydratorInv(h)'
  <2>1. Publishes(h)'
    BY <1>2, <1>3, <1>4
    DEF ClosureInv, HydratorInv, Publishes, Sound, Keeps, closureObjects, Publishing, own
  <2>2. Calls(h)'
    BY <1>3 DEF Calls, Publishing, closureObjects, own, entry
  <2> QED BY <1>3, <2>1, <2>2 DEF HydratorInv, Rests, Verifies, Verifying, own
<1>6. \A k \in Hydrators \ {h} : Same(k)
  BY DEF Same, own
<1> QED BY <1>1, <1>2, <1>5, <1>6, Assemble

\* The steps of publish_validated_store_object, and its failures.
LEMMA StoreStepHolds ==
  ASSUME ClosureInv, NEW h \in Hydrators, StoreStep(h) \/ StoreFails(h)
  PROVE  /\ ClosureTyped' /\ \A k \in Hydrators : HydratorInv(k)'
         /\ Next
<1>1. Next /\ UNCHANGED <<closure, bundle, own>>
  BY DEF StoreStep, StoreFails, Next, Disturb
<1>2. /\ pc[h] \notin {"idle", "load"} /\ pc'[h] # "idle" /\ job' = job
      /\ \A k \in Hydrators \ {h} : pc'[k] = pc[k]
  <2>1. CASE StoreStep(h)
    BY <2>1 DEF StoreStep, AcquireLock, PublishStep, ReuseExisting, RejectExisting, FindAbsent,
      ClearTemporary, ClearTemporaryFails, CreateTemporary, WriteEntries, SealChildren,
      SealRoot, Rename, RenameBlocked, Goto, Fail, ClosureInv, IInv, TypeOK
  <2>2. CASE StoreFails(h)
    BY <2>2 DEF StoreFails, MaterializeFails, RenameFails, Fail, ClosureInv, IInv, TypeOK
  <2> QED BY <2>1, <2>2
<1> QED BY <1>1, <1>2, InsideHolds

\* The second read finds the pinned manifest again.
LEMMA ReadManifestAgainHolds ==
  ASSUME ClosureInv, NEW h \in Hydrators, ReadManifestAgain(h)
  PROVE  ClosureTyped' /\ \A k \in Hydrators : HydratorInv(k)'
<1>1. /\ phase[h] = "publish" /\ phase' = [phase EXCEPT ![h] = "payload"] /\ pc[h] = "load"
      /\ candidate' = [candidate EXCEPT ![h] = manifestOf[entry(h)]]
      /\ UNCHANGED <<vars, closure, bundle, todo, object, verified>>
  BY DEF ReadManifestAgain, Enter
<1>2. entry(h) \in closureObjects /\ job[h] = closure.pins[entry(h)]
  BY <1>1 DEF ClosureInv, HydratorInv, Calls
<1>3. ClosureTyped'
  BY <1>1, <1>2, PinsKnown DEF ClosureInv, ClosureTyped, bundle, Publishing
<1>4. phase'[h] = "payload" /\ candidate'[h] = manifestOf[entry(h)]
  BY <1>1 DEF ClosureInv, ClosureTyped
<1>5. HydratorInv(h)'
  <2>1. Publishes(h)'
    BY <1>1, <1>4
    DEF ClosureInv, HydratorInv, Publishes, Sound, PinnedAt, closureObjects, bundle, Publishing, vars
  <2>2. Calls(h)'
    BY <1>1, <1>2, <1>4 DEF Calls, Publishing, closureObjects, vars, entry, bundle
  <2> QED BY <1>4, <2>1, <2>2 DEF HydratorInv, Rests, Verifies, Verifying
<1>6. Keeps /\ \A k \in Hydrators \ {h} : Same(k)
  BY <1>1 DEF Keeps, Same, vars, bundle, ClosureInv, ClosureTyped
<1> QED BY <1>3, <1>5, <1>6, Assemble

\* A stable bundle gives the tree that is asked for: load_payload cannot fail.
LEMMA LoadHolds ==
  ASSUME ClosureInv, NEW h \in Hydrators, LoadFromBundle(h) \/ LoadFails(h)
  PROVE  /\ ClosureTyped' /\ \A k \in Hydrators : HydratorInv(k)'
         /\ Next
<1>1. /\ phase[h] = "payload" /\ phase' = [phase EXCEPT ![h] = "publish"]
      /\ UNCHANGED <<closure, bundle, todo, object, candidate, verified>>
  BY DEF LoadFromBundle, LoadFails, Enter
<1>2. /\ pc[h] = "load" /\ candidate[h] = manifestOf[entry(h)]
      /\ entry(h) \in closureObjects /\ job[h] = closure.pins[entry(h)]
  BY <1>1 DEF ClosureInv, HydratorInv, Calls
<1>3. candidate[h] = job[h] /\ job[h] \in Manifests /\ archiveOf[entry(h)] = job[h].tree
  BY <1>1, <1>2, PinnedObject DEF Publishing
<1>4. Coherent(h)
  BY <1>3, NoneAssumption DEF Coherent
<1>5. LoadPayload(h, job[h].tree)
  BY <1>3, <1>4 DEF LoadFromBundle, LoadFails
<1>6. pc'[h] = "create" /\ job' = job /\ dest' = dest /\ \A k \in Hydrators \ {h} : pc'[k] = pc[k]
  BY <1>5 DEF LoadPayload, Goto, ClosureInv, IInv, TypeOK
<1>7. ClosureTyped'
  BY <1>1 DEF ClosureInv, ClosureTyped, bundle, Publishing
<1>8. phase'[h] = "publish"
  BY <1>1 DEF ClosureInv, ClosureTyped
<1>9. HydratorInv(h)'
  <2>1. Publishes(h)'
    BY <1>1, <1>6, <1>8
    DEF ClosureInv, HydratorInv, Publishes, Sound, PinnedAt, closureObjects, bundle, Publishing
  <2>2. Calls(h)'
    BY <1>1, <1>2, <1>6, <1>8 DEF Calls, Publishing, closureObjects, entry
  <2> QED BY <1>8, <2>1, <2>2 DEF HydratorInv, Rests, Verifies, Verifying
<1>10. Keeps /\ \A k \in Hydrators \ {h} : Same(k)
  BY <1>1, <1>6 DEF Keeps, Same, bundle, ClosureInv, ClosureTyped
<1> QED BY <1>5, <1>7, <1>9, <1>10, Assemble DEF Next

\* An object is done when its pinned tree is in the store.
LEMMA ObjectPublishedHolds ==
  ASSUME ClosureInv, NEW h \in Hydrators, ObjectPublished(h)
  PROVE  /\ ClosureTyped' /\ \A k \in Hydrators : HydratorInv(k)'
         /\ Next
<1> DEFINE e == entry(h)
<1>1. /\ pc[h] = "done" /\ Return(h)
      /\ todo' = [todo EXCEPT ![h] = todo[h] \ {e}]
      /\ UNCHANGED <<closure, bundle, phase, object, candidate, verified>>
  BY DEF ObjectPublished
<1>2. phase[h] = "publish" /\ e \in closureObjects /\ job[h] = closure.pins[e]
  BY <1>1 DEF ClosureInv, HydratorInv, Calls, Publishing
<1>3. dest[e] = PinnedAt(e)
  <2>1. dest[e].tree = closure.pins[e].tree /\ dest[e].stage = "sealed" /\ e \in Entries
    BY <1>1, <1>2, PinsKnown DEF ClosureInv, IInv, OkMeansPinned
  <2>2. dest[e] \in Directory
    BY <2>1 DEF ClosureInv, IInv, TypeOK, Absent
  <2> QED BY <2>1, <2>2 DEF PinnedAt, Directory
<1>4. /\ pc'[h] = "idle" /\ dest' = dest
      /\ \A k \in Hydrators \ {h} : pc'[k] = pc[k] /\ job'[k] = job[k]
  BY <1>1 DEF Return, ClosureInv, IInv, TypeOK
<1>5. ClosureTyped' /\ todo'[h] = todo[h] \ {e}
  BY <1>1 DEF ClosureInv, ClosureTyped, bundle
<1>6. HydratorInv(h)'
  <2>1. Publishes(h)'
    BY <1>1, <1>2, <1>3, <1>4, <1>5
    DEF ClosureInv, HydratorInv, Publishes, Sound, PinnedAt, closureObjects, bundle, Publishing
  <2> QED BY <1>1, <1>2, <1>4, <2>1 DEF HydratorInv, Rests, Verifies, Calls, Verifying
<1>7. Keeps /\ \A k \in Hydrators \ {h} : Same(k)
  BY <1>1, <1>4 DEF Keeps, Same, bundle, ClosureInv, ClosureTyped
<1> QED BY <1>1, <1>5, <1>6, <1>7, Assemble DEF Next

\* A failed object or a kill ends the hydration; the store keeps what it has.
LEMMA StoppedHolds ==
  ASSUME ClosureInv, NEW h \in Hydrators, ObjectFailed(h) \/ Killed(h)
  PROVE  /\ ClosureTyped' /\ \A k \in Hydrators : HydratorInv(k)'
         /\ Next
<1>1. CASE ObjectFailed(h)
  <2>1. /\ Return(h) /\ phase' = [phase EXCEPT ![h] = "failed"]
        /\ UNCHANGED <<closure, bundle, todo, object, candidate, verified>>
    BY <1>1 DEF ObjectFailed, Enter
  <2>2. /\ pc'[h] = "idle" /\ dest' = dest /\ phase'[h] = "failed"
        /\ \A k \in Hydrators \ {h} : pc'[k] = pc[k] /\ job'[k] = job[k]
    BY <2>1 DEF Return, ClosureInv, IInv, TypeOK, ClosureTyped
  <2>3. ClosureTyped'
    BY <2>1 DEF ClosureInv, ClosureTyped, bundle, Ended
  <2>4. HydratorInv(h)'
    BY <2>2 DEF HydratorInv, Rests, Verifies, Publishes, Calls, Verifying, Publishing
  <2>5. Keeps /\ \A k \in Hydrators \ {h} : Same(k)
    BY <2>1, <2>2 DEF Keeps, Same, bundle, ClosureInv, ClosureTyped
  <2> QED BY <2>1, <2>3, <2>4, <2>5, Assemble DEF Next
<1>2. CASE Killed(h)
  <2>1. Crash(h) /\ Forget(h) /\ UNCHANGED <<closure, bundle>>
    BY <1>2 DEF Killed
  <2>2. /\ pc'[h] = "idle" /\ dest' = dest /\ phase'[h] = "rest" /\ DOMAIN verified'[h] = {}
        /\ \A k \in Hydrators \ {h} : pc'[k] = pc[k] /\ job'[k] = job[k]
    BY <2>1 DEF Crash, Forget, NothingVerified, ClosureInv, IInv, TypeOK, ClosureTyped
  <2>3. ClosureTyped'
    <3>1. NothingVerified \in UNION {[S -> Manifests] : S \in SUBSET Entries}
      <4>1. NothingVerified \in [{} -> Manifests]
        BY DEF NothingVerified
      <4> QED BY <4>1
    <3>2. verified' \in [Hydrators -> UNION {[S -> Manifests] : S \in SUBSET Entries}]
      BY <2>1, <3>1 DEF Forget, ClosureInv, ClosureTyped
    <3> QED BY <2>1, <3>2 DEF Forget, ClosureInv, ClosureTyped, bundle
  <2>4. HydratorInv(h)'
    BY <2>2 DEF HydratorInv, Rests, Verifies, Publishes, Calls, Verifying, Publishing
  <2>5. Keeps /\ \A k \in Hydrators \ {h} : Same(k)
    BY <2>1, <2>2 DEF Keeps, Same, Forget, bundle, ClosureInv, ClosureTyped
  <2> QED BY <2>1, <2>3, <2>4, <2>5, Assemble DEF Next, Disturb
<1> QED BY <1>1, <1>2

\* Success, and the exit of the process.
LEMMA EndHolds ==
  ASSUME ClosureInv, NEW h \in Hydrators, ClosureHydrated(h) \/ Exit(h)
  PROVE  ClosureTyped' /\ \A k \in Hydrators : HydratorInv(k)'
<1>1. CASE ClosureHydrated(h)
  <2>1. /\ phase[h] = "publish" /\ phase' = [phase EXCEPT ![h] = "hydrated"]
        /\ pc[h] = "idle" /\ todo[h] = {}
        /\ UNCHANGED <<vars, closure, bundle, todo, object, candidate, verified>>
    BY <1>1 DEF ClosureHydrated, Enter
  <2>2. ClosureTyped' /\ phase'[h] = "hydrated"
    BY <2>1 DEF ClosureInv, ClosureTyped, bundle, Ended
  <2>3. Publishes(h)'
    BY <2>1, <2>2
    DEF ClosureInv, HydratorInv, Publishes, Sound, PinnedAt, closureObjects, bundle, Publishing, vars
  <2>4. HydratorInv(h)'
    BY <2>1, <2>2, <2>3 DEF HydratorInv, Rests, Verifies, Calls, Verifying, vars
  <2>5. Keeps /\ \A k \in Hydrators \ {h} : Same(k)
    BY <2>1 DEF Keeps, Same, vars, bundle, ClosureInv, ClosureTyped
  <2> QED BY <2>2, <2>4, <2>5, Assemble
<1>2. CASE Exit(h)
  <2>1. phase[h] \in Ended /\ Forget(h) /\ UNCHANGED <<vars, closure, bundle>>
    BY <1>2 DEF Exit
  <2>2. /\ pc'[h] = "idle" /\ phase'[h] = "rest" /\ DOMAIN verified'[h] = {}
    BY <2>1 DEF Forget, NothingVerified, ClosureInv, ClosureTyped, HydratorInv, Calls, vars,
       Ended, Publishing
  <2>3. ClosureTyped'
    <3>1. NothingVerified \in UNION {[S -> Manifests] : S \in SUBSET Entries}
      <4>1. NothingVerified \in [{} -> Manifests]
        BY DEF NothingVerified
      <4> QED BY <4>1
    <3>2. verified' \in [Hydrators -> UNION {[S -> Manifests] : S \in SUBSET Entries}]
      BY <2>1, <3>1 DEF Forget, ClosureInv, ClosureTyped
    <3> QED BY <2>1, <3>2 DEF Forget, ClosureInv, ClosureTyped, bundle
  <2>4. HydratorInv(h)'
    BY <2>2 DEF HydratorInv, Rests, Verifies, Publishes, Calls, Verifying, Publishing
  <2>5. Keeps /\ \A k \in Hydrators \ {h} : Same(k)
    BY <2>1 DEF Keeps, Same, Forget, vars, bundle, ClosureInv, ClosureTyped
  <2> QED BY <2>3, <2>4, <2>5, Assemble
<1> QED BY <1>1, <1>2

\* Buck2 publishes: no hydrator moves, and what is in the store stays.
LEMMA NativePublishHolds ==
  ASSUME ClosureInv, NEW e \in Entries, NEW t \in NativeTrees, NativePublish(e, t)
  PROVE  /\ ClosureTyped' /\ \A k \in Hydrators : HydratorInv(k)'
         /\ Next
<1>1. Next /\ UNCHANGED <<closure, bundle, own>> /\ pc' = pc /\ job' = job
  BY DEF NativePublish, Materialize, Next
<1>2. ClosureTyped'
  BY <1>1 DEF ClosureInv, ClosureTyped, bundle, own
<1>3. Keeps
  BY <1>1, DestinationStays DEF Keeps, bundle, ClosureInv, IInv
<1>4. \A k \in Hydrators : Same(k)
  BY <1>1 DEF Same, own
<1> QED BY <1>1, <1>2, <1>3, <1>4, OthersKeep DEF ClosureInv

-----------------------------------------------------------------------------
(* A stable bundle: no file of it is replaced.                              *)

Stable == refetches = 0

\* The invariant holds at the start.
LEMMA InitClosureInv == ClosureInit => ClosureInv
<1> SUFFICES ASSUME ClosureInit PROVE ClosureInv
  OBVIOUS
<1>1. IInv
  BY InitIInv DEF ClosureInit
<1>2. verified \in [Hydrators -> UNION {[S -> Manifests] : S \in SUBSET Entries}]
  <2>1. NothingVerified \in [{} -> Manifests]
    BY DEF NothingVerified
  <2> HIDE DEF NothingVerified
  <2> QED BY <2>1 DEF ClosureInit
<1>3. ClosureTyped
  BY <1>2, RefetchAssumption DEF ClosureInit, ClosureTyped
<1>4. ASSUME NEW h \in Hydrators PROVE HydratorInv(h)
  <2>1. phase[h] = "rest" /\ pc[h] = "idle" /\ DOMAIN verified[h] = {}
    BY DEF ClosureInit, Init, NothingVerified
  <2> QED BY <2>1 DEF HydratorInv, Rests, Verifies, Publishes, Calls, Verifying, Publishing
<1> QED BY <1>1, <1>3, <1>4 DEF ClosureInv

\* Every step of a stable closure hydration is a step of StorePublish or none,
\* and keeps what every hydrator relies on.
LEMMA StepHolds ==
  ASSUME ClosureInv, ClosureNext, Stable, Stable'
  PROVE  /\ ClosureTyped' /\ \A k \in Hydrators : HydratorInv(k)'
         /\ [Next]_vars
<1>1. CASE \E h \in Hydrators : HydrateClosure(h) \/ HydrateStep(h) \/ StoreStep(h)
                                 \/ Exit(h) \/ StoreFails(h) \/ Killed(h)
  <2>1. PICK h \in Hydrators : HydrateClosure(h) \/ HydrateStep(h) \/ StoreStep(h)
                                 \/ Exit(h) \/ StoreFails(h) \/ Killed(h)
    BY <1>1
  <2>2. CASE \/ \E e \in todo[h] : RefuseManifestHash(h, e)
             \/ RefuseObject(h) \/ RefuseClosure(h)
    BY <2>2, RefusedHolds DEF RefuseManifestHash, RefuseObject, RefuseClosure
  <2>3. CASE HydrateClosure(h)
    BY <2>3, HydrateClosureHolds DEF HydrateClosure
  <2>4. CASE \E e \in todo[h] : CheckManifestHash(h, e)
    BY <2>4, CheckManifestHashHolds DEF CheckManifestHash
  <2>5. CASE LoadManifest(h)
    BY <2>5, LoadManifestHolds DEF LoadManifest
  <2>6. CASE VerifyObject(h)
    BY <2>6, VerifyObjectHolds DEF VerifyObject
  <2>7. CASE ValidateClosure(h)
    BY <2>7, ValidateClosureHolds DEF ValidateClosure
  <2>8. CASE \E e \in todo[h] : PublishObject(h, e)
    BY <2>8, PublishObjectHolds
  <2>9. CASE StoreStep(h) \/ StoreFails(h)
    BY <2>9, StoreStepHolds
  <2>10. CASE ReadManifestAgain(h)
    BY <2>10, ReadManifestAgainHolds DEF ReadManifestAgain
  <2>11. CASE LoadFromBundle(h) \/ LoadFails(h)
    BY <2>11, LoadHolds
  <2>12. CASE ObjectPublished(h)
    BY <2>12, ObjectPublishedHolds
  <2>13. CASE ObjectFailed(h) \/ Killed(h)
    BY <2>13, StoppedHolds
  <2>14. CASE ClosureHydrated(h) \/ Exit(h)
    BY <2>14, EndHolds DEF ClosureHydrated, Exit
  <2> QED BY <2>1, <2>2, <2>3, <2>4, <2>5, <2>6, <2>7, <2>8, <2>9, <2>10, <2>11, <2>12,
             <2>13, <2>14 DEF HydrateStep
<1>2. ASSUME NEW e \in Entries,
             (\E m \in Manifests : RefetchManifest(e, m)) \/ (\E t \in Trees : RefetchArchive(e, t))
      PROVE  FALSE
  BY <1>2 DEF RefetchManifest, RefetchArchive, Stable
<1>3. CASE \E e \in Entries, t \in NativeTrees : NativePublish(e, t)
  BY <1>3, NativePublishHolds
<1> QED BY <1>1, <1>2, <1>3 DEF ClosureNext

\* Every step keeps it while the bundle is stable.
LEMMA NextClosureInv ==
  ClosureInv /\ [ClosureNext]_closureVars /\ Stable /\ Stable' => ClosureInv' /\ [Next]_vars
<1> SUFFICES ASSUME ClosureInv, [ClosureNext]_closureVars, Stable, Stable'
             PROVE  ClosureInv' /\ [Next]_vars
  OBVIOUS
<1>1. CASE ClosureNext
  BY <1>1, StepHolds, NextIInv DEF ClosureInv
<1>2. CASE UNCHANGED closureVars
  <2>1. UNCHANGED <<vars, closure, bundle, own>>
    BY <1>2 DEF closureVars
  <2>2. IInv'
    BY <2>1, NextIInv DEF ClosureInv
  <2>3. ClosureTyped'
    BY <2>1 DEF ClosureInv, ClosureTyped, bundle, own
  <2>4. Keeps /\ \A k \in Hydrators : Same(k)
    BY <2>1 DEF Keeps, Same, vars, bundle, own
  <2> QED BY <2>1, <2>2, <2>3, <2>4, OthersKeep DEF ClosureInv
<1> QED BY <1>1, <1>2

\* The strengthening holds as long as the bundle is stable.
THEOREM ClosureInvariance == ClosureSpec /\ []Stable => []ClosureInv
  BY InitClosureInv, NextClosureInv, PTL DEF ClosureSpec

\* Hydrating a closure from a stable bundle is hydrating its objects: every
\* step is one StorePublish allows, whatever the closure and the bundle are.
THEOREM ClosureRefinement == ClosureSpec /\ []Stable => ImplementsStorePublish
<1>1. ClosureInit => Init
  BY DEF ClosureInit
<1> QED BY <1>1, InitClosureInv, NextClosureInv, PTL DEF ClosureSpec, ImplementsStorePublish, Spec

\* Success is the whole closure, as it is pinned.
THEOREM HydratedIsPinned == ClosureSpec /\ []Stable => []HydratedMeansPinned
<1>1. ClosureInv => HydratedMeansPinned
  BY DEF ClosureInv, HydratorInv, Publishes, HydratedMeansPinned, PinnedAt
<1> QED BY <1>1, ClosureInvariance, PTL

\* Every variable keeps its type.
THEOREM ClosureTypeCorrect == ClosureSpec /\ []Stable => []ClosureTypeOK
<1>1. ClosureInv => ClosureTypeOK
  BY DEF ClosureInv, IInv, ClosureTyped, ClosureTypeOK
<1> QED BY <1>1, ClosureInvariance, PTL

\* A hydrator changes the store only when everything has been found sound.
THEOREM DefectsPublishNothing == ClosureSpec /\ []Stable => BadBundlePublishesNothing
<1>1. ClosureInv /\ [ClosureNext]_closureVars /\ Stable /\ Stable'
        => [pc' # pc /\ dest' # dest => Sound]_closureVars
  <2> SUFFICES ASSUME ClosureInv, ClosureNext, Stable, Stable', pc' # pc, dest' # dest
               PROVE  Sound
    OBVIOUS
  <2>1. PICK h \in Hydrators : StoreStep(h) \/ StoreFails(h)
    BY DEF ClosureNext, HydrateStep, HydrateClosure, CheckManifestHash, RefuseManifestHash,
      LoadManifest, VerifyObject, RefuseObject, ValidateClosure, RefuseClosure, PublishObject,
      Begin, ReadManifestAgain, LoadFromBundle, LoadPayload, LoadFails, ObjectPublished,
      ObjectFailed, Return, ClosureHydrated, Exit, Killed, Crash, RefetchManifest,
      RefetchArchive, NativePublish, Materialize, vars
  <2>2. pc[h] # "idle"
    BY <2>1 DEF StoreStep, StoreFails, AcquireLock, PublishStep, ReuseExisting, RejectExisting,
      FindAbsent, ClearTemporary, ClearTemporaryFails, CreateTemporary, WriteEntries,
      SealChildren, SealRoot, Rename, RenameBlocked, MaterializeFails, RenameFails, Goto
  <2> QED BY <2>2 DEF ClosureInv, HydratorInv, Calls, Publishes
<1> QED BY <1>1, ClosureInvariance, PTL DEF ClosureSpec, BadBundlePublishesNothing

-----------------------------------------------------------------------------
\* What a hydrator knows when it can trust no file of the bundle twice.
PresentInv(h) ==
  /\ phase[h] = "rest" => DOMAIN verified[h] = {}
  /\ phase[h] \in Verifying =>
       todo[h] \subseteq closureObjects /\ DOMAIN verified[h] = closureObjects \ todo[h]
  /\ phase[h] \in {"manifest", "archive"} => object[h] \in closureObjects
  /\ phase[h] = "archive" => candidate[h] \in Manifests
  /\ phase[h] \in Publishing \cup {"hydrated"} =>
       /\ DOMAIN verified[h] = closureObjects
       /\ todo[h] \subseteq closureObjects
       /\ \A e \in closureObjects \ todo[h] : dest[e] # Absent
  /\ phase[h] = "hydrated" => todo[h] = {}
  /\ pc[h] # "idle" => phase[h] \in Publishing
  /\ phase[h] = "payload" => pc[h] = "load"

RefetchInv == Held /\ ClosureTyped /\ \A h \in Hydrators : PresentInv(h)

\* A step that takes nothing out of the store.
KeepsStore == closure' = closure /\ \A e \in Entries : dest[e] # Absent => dest'[e] = dest[e]

\* A step of one hydrator leaves what the others know.
LEMMA OthersStay ==
  ASSUME RefetchInv, KeepsStore, NEW k \in Hydrators, Same(k)
  PROVE  PresentInv(k)'
<1>1. closureObjects' = closureObjects /\ closureObjects \subseteq Entries
  BY PinsKnown DEF KeepsStore, closureObjects, RefetchInv
<1>2. \A e \in closureObjects : dest[e] # Absent => dest'[e] # Absent
  BY <1>1 DEF KeepsStore
<1>3. Absent' = Absent
  BY DEF Absent
<1> QED BY <1>1, <1>2, <1>3 DEF RefetchInv, PresentInv, Same

\* A step of h is right when it is right for h and leaves the others alone.
LEMMA RefetchAssemble ==
  ASSUME RefetchInv, NEW h \in Hydrators, KeepsStore, PresentInv(h)', Held', ClosureTyped',
         \A k \in Hydrators \ {h} : Same(k)
  PROVE  RefetchInv'
  BY OthersStay DEF RefetchInv

\* What StorePublish does not see leaves its part alone.
LEMMA HeldStays ==
  ASSUME Held, UNCHANGED vars
  PROVE  Held'
  BY DEF vars, Held, TypeOK, LockHeld, JobKnown, Loaded, ClearedTemporary, OwnTemporary,
     PublishedComplete, DonePresent, entry

\* A hydrator that has verified nothing is typed.
LEMMA NothingTyped == NothingVerified \in UNION {[S -> Manifests] : S \in SUBSET Entries}
<1>1. NothingVerified \in [{} -> Manifests]
  BY DEF NothingVerified
<1> QED BY <1>1

-----------------------------------------------------------------------------
(* The first pass, and the steps around the store calls.                    *)

\* Steps of the first pass, and the end of the second, publish nothing.
LEMMA FirstPassStays ==
  ASSUME RefetchInv, NEW h \in Hydrators,
         \/ HydrateClosure(h)
         \/ \E e \in todo[h] : CheckManifestHash(h, e) \/ RefuseManifestHash(h, e)
         \/ LoadManifest(h) \/ RefuseObject(h) \/ ValidateClosure(h) \/ RefuseClosure(h)
         \/ ClosureHydrated(h)
  PROVE  RefetchInv'
<1> USE DEF RefetchInv
<1>1. UNCHANGED <<vars, closure, bundle, verified>>
  BY DEF HydrateClosure, CheckManifestHash, RefuseManifestHash, LoadManifest, RefuseObject,
    ValidateClosure, RefuseClosure, ClosureHydrated
<1>2. closureObjects' = closureObjects /\ closureObjects \subseteq Entries
  BY <1>1, PinsKnown DEF closureObjects
<1>3. \A k \in Hydrators \ {h} : Same(k)
  BY DEF HydrateClosure, CheckManifestHash, RefuseManifestHash, LoadManifest, RefuseObject,
    ValidateClosure, RefuseClosure, ClosureHydrated, Enter, Same, vars, ClosureTyped
<1>4. KeepsStore /\ Held'
  BY <1>1, HeldStays DEF KeepsStore, vars
<1>5. CASE \/ \E e \in todo[h] : RefuseManifestHash(h, e)
           \/ RefuseObject(h) \/ RefuseClosure(h)
  <2>1. phase' = [phase EXCEPT ![h] = "refused"] /\ phase[h] \in Verifying
        /\ UNCHANGED <<todo, object, candidate>>
    BY <1>5 DEF RefuseManifestHash, RefuseObject, RefuseClosure, Enter, Verifying
  <2>2. ClosureTyped' /\ phase'[h] = "refused"
    BY <1>1, <2>1 DEF ClosureTyped, bundle, Ended
  <2>3. PresentInv(h)'
    BY <1>1, <2>1, <2>2 DEF PresentInv, vars, Verifying, Publishing
  <2> QED BY <1>3, <1>4, <2>2, <2>3, RefetchAssemble
<1>6. CASE HydrateClosure(h)
  <2>1. ClosureTyped' /\ phase'[h] = "hash" /\ todo'[h] = closureObjects
    BY <1>1, <1>2, <1>6 DEF HydrateClosure, Enter, ClosureTyped, bundle, Verifying
  <2>2. PresentInv(h)'
    BY <1>1, <1>2, <1>6, <2>1 DEF PresentInv, HydrateClosure, Enter, vars, Verifying, Publishing
  <2> QED BY <1>3, <1>4, <2>1, <2>2, RefetchAssemble
<1>7. CASE \E e \in todo[h] : CheckManifestHash(h, e)
  <2>1. PICK e \in todo[h] : CheckManifestHash(h, e)
    BY <1>7
  <2>2. phase[h] = "hash" /\ e \in closureObjects
    BY <2>1 DEF CheckManifestHash, Enter, PresentInv, Verifying
  <2>3. ClosureTyped' /\ phase'[h] = "manifest" /\ object'[h] = e /\ todo' = todo
    BY <1>1, <1>2, <2>1, <2>2 DEF CheckManifestHash, Enter, ClosureTyped, bundle, Verifying
  <2>4. PresentInv(h)'
    BY <1>1, <1>2, <2>2, <2>3 DEF PresentInv, vars, Verifying, Publishing
  <2> QED BY <1>3, <1>4, <2>3, <2>4, RefetchAssemble
<1>8. CASE LoadManifest(h)
  <2>1. phase[h] = "manifest" /\ object[h] \in closureObjects
    BY <1>8 DEF LoadManifest, Enter, PresentInv
  <2>2. manifestOf[object[h]] \in Manifests \cup {None}
    BY <1>2, <2>1 DEF ClosureTyped
  <2>3. /\ ClosureTyped' /\ candidate'[h] = manifestOf[object[h]]
        /\ phase'[h] = IF manifestOf[object[h]] = None THEN "refused" ELSE "archive"
        /\ todo' = todo /\ object' = object
    BY <1>1, <1>8, <2>2 DEF LoadManifest, Enter, ClosureTyped, bundle, Verifying, Ended
  <2>4. PresentInv(h)'
    BY <1>1, <1>2, <2>1, <2>2, <2>3 DEF PresentInv, vars, Verifying, Publishing
  <2> QED BY <1>3, <1>4, <2>3, <2>4, RefetchAssemble
<1>9. CASE ValidateClosure(h)
  <2>1. phase[h] = "hash" /\ DOMAIN verified[h] = closureObjects
    BY <1>9 DEF ValidateClosure, Enter, PresentInv, Verifying
  <2>2. ClosureTyped' /\ phase'[h] = "publish" /\ todo'[h] = closureObjects
    BY <1>1, <1>2, <1>9 DEF ValidateClosure, Enter, ClosureTyped, bundle, Publishing
  <2>3. PresentInv(h)'
    BY <1>1, <1>2, <2>1, <2>2 DEF PresentInv, vars, Verifying, Publishing
  <2> QED BY <1>3, <1>4, <2>2, <2>3, RefetchAssemble
<1>10. CASE ClosureHydrated(h)
  <2>1. phase[h] = "publish" /\ pc[h] = "idle" /\ todo[h] = {} /\ todo' = todo
    BY <1>10 DEF ClosureHydrated, Enter
  <2>2. ClosureTyped' /\ phase'[h] = "hydrated"
    BY <1>1, <1>10 DEF ClosureHydrated, Enter, ClosureTyped, bundle, Ended
  <2>3. PresentInv(h)'
    BY <1>1, <1>2, <2>1, <2>2 DEF PresentInv, vars, Verifying, Publishing, Absent
  <2> QED BY <1>3, <1>4, <2>2, <2>3, RefetchAssemble
<1> QED BY <1>5, <1>6, <1>7, <1>8, <1>9, <1>10

\* The first pass verifies an object of the closure.
LEMMA VerifyObjectStays ==
  ASSUME RefetchInv, NEW h \in Hydrators, VerifyObject(h)
  PROVE  RefetchInv'
<1> USE DEF RefetchInv
<1> DEFINE o == object[h]
           now == [e \in DOMAIN verified[h] \cup {o} |->
                     IF e = o THEN candidate[h] ELSE verified[h][e]]
<1>1. /\ phase[h] = "archive" /\ phase' = [phase EXCEPT ![h] = "hash"]
      /\ verified' = [verified EXCEPT ![h] = now]
      /\ todo' = [todo EXCEPT ![h] = todo[h] \ {o}]
      /\ UNCHANGED <<vars, closure, bundle, object, candidate>>
  BY DEF VerifyObject, Enter
<1>2. /\ todo[h] \subseteq closureObjects /\ pc[h] = "idle"
      /\ DOMAIN verified[h] = closureObjects \ todo[h]
      /\ o \in closureObjects /\ candidate[h] \in Manifests /\ closureObjects \subseteq Entries
  BY <1>1, PinsKnown DEF PresentInv, Verifying, Publishing
<1>3. now \in UNION {[S -> Manifests] : S \in SUBSET Entries}
  <2>1. verified[h] \in [DOMAIN verified[h] -> Manifests]
    BY DEF ClosureTyped
  <2>2. now \in [DOMAIN now -> Manifests] /\ DOMAIN now \in SUBSET Entries
    BY <1>2, <2>1
  <2> QED BY <2>2
<1>4. phase'[h] = "hash" /\ todo'[h] = todo[h] \ {o} /\ verified'[h] = now
  BY <1>1 DEF ClosureTyped
<1>5. DOMAIN verified'[h] = closureObjects' \ todo'[h] /\ todo'[h] \subseteq closureObjects'
  BY <1>1, <1>2, <1>4 DEF closureObjects
<1> HIDE DEF now
<1>6. ClosureTyped'
  <2>1. verified' \in [Hydrators -> UNION {[S -> Manifests] : S \in SUBSET Entries}]
    BY <1>1, <1>3 DEF ClosureTyped
  <2>2. todo' \in [Hydrators -> SUBSET Entries]
        /\ phase' \in [Hydrators -> {"rest"} \cup Verifying \cup Publishing \cup Ended]
    BY <1>1 DEF ClosureTyped, Verifying
  <2> QED BY <1>1, <2>1, <2>2 DEF ClosureTyped, bundle
<1>7. PresentInv(h)'
  BY <1>1, <1>2, <1>4, <1>5 DEF PresentInv, Verifying, Publishing, vars
<1>8. KeepsStore /\ Held' /\ \A k \in Hydrators \ {h} : Same(k)
  BY <1>1, HeldStays DEF KeepsStore, Same, vars, ClosureTyped
<1> QED BY <1>6, <1>7, <1>8, RefetchAssemble

\* The exit of the process, and a kill.
LEMMA ForgetStays ==
  ASSUME RefetchInv, NEW h \in Hydrators, Exit(h) \/ Killed(h)
  PROVE  RefetchInv'
<1> USE DEF RefetchInv
<1>1. Forget(h) /\ UNCHANGED <<closure, bundle>>
  BY DEF Exit, Killed
<1>2. phase'[h] = "rest" /\ DOMAIN verified'[h] = {}
  BY <1>1 DEF Forget, NothingVerified, ClosureTyped
<1>3. pc'[h] = "idle" /\ dest' = dest /\ \A k \in Hydrators \ {h} : pc'[k] = pc[k] /\ job'[k] = job[k]
  BY DEF Exit, Killed, Crash, vars, PresentInv, Ended, Publishing, Held, TypeOK
<1>4. ClosureTyped'
  <2>1. verified' \in [Hydrators -> UNION {[S -> Manifests] : S \in SUBSET Entries}]
    BY <1>1, NothingTyped DEF Forget, ClosureTyped
  <2> QED BY <1>1, <2>1 DEF Forget, ClosureTyped, bundle
<1>5. PresentInv(h)'
  BY <1>2, <1>3 DEF PresentInv, Verifying, Publishing
<1>6. KeepsStore /\ \A k \in Hydrators \ {h} : Same(k)
  BY <1>1, <1>3 DEF KeepsStore, Same, Forget, ClosureTyped
<1>7. Held'
  BY HeldStays, StepHeld DEF Exit, Killed, Disturb
<1> QED BY <1>4, <1>5, <1>6, <1>7, RefetchAssemble

-----------------------------------------------------------------------------
(* The store calls.                                                         *)

\* Steps of publish_validated_store_object with the hydration waiting for it.
LEMMA StoreStepStays ==
  ASSUME RefetchInv, NEW h \in Hydrators, StoreStep(h) \/ StoreFails(h)
  PROVE  RefetchInv'
<1> USE DEF RefetchInv
<1>1. Next /\ UNCHANGED <<closure, bundle, own>>
  BY DEF StoreStep, StoreFails, Next, Disturb
<1>2. /\ pc[h] \notin {"idle", "load"} /\ pc'[h] # "idle" /\ job' = job
      /\ \A k \in Hydrators \ {h} : pc'[k] = pc[k]
  <2>1. CASE StoreStep(h)
    BY <2>1 DEF StoreStep, AcquireLock, PublishStep, ReuseExisting, RejectExisting, FindAbsent,
      ClearTemporary, ClearTemporaryFails, CreateTemporary, WriteEntries, SealChildren,
      SealRoot, Rename, RenameBlocked, Goto, Fail, Held, TypeOK
  <2>2. CASE StoreFails(h)
    BY <2>2 DEF StoreFails, MaterializeFails, RenameFails, Fail, Held, TypeOK
  <2> QED BY <2>1, <2>2
<1>3. KeepsStore
  BY <1>1, DestinationStays DEF KeepsStore, Held
<1>4. Held'
  BY StepHeld DEF StoreStep, StoreFails, Disturb
<1>5. ClosureTyped'
  BY <1>1 DEF ClosureTyped, bundle, own
<1>6. PresentInv(h)'
  <2>1. closureObjects' = closureObjects /\ closureObjects \subseteq Entries /\ Absent' = Absent
    BY <1>1, PinsKnown DEF closureObjects, Absent
  <2>2. \A e \in closureObjects : dest[e] # Absent => dest'[e] # Absent
    BY <1>3, <2>1 DEF KeepsStore
  <2> QED BY <1>1, <1>2, <2>1, <2>2 DEF PresentInv, own, Publishing
<1>7. \A k \in Hydrators \ {h} : Same(k)
  BY <1>1, <1>2 DEF Same, own
<1> QED BY <1>3, <1>4, <1>5, <1>6, <1>7, RefetchAssemble

\* A call begins with a manifest the first pass accepted.
LEMMA PublishObjectStays ==
  ASSUME RefetchInv, NEW h \in Hydrators, NEW e \in todo[h], PublishObject(h, e)
  PROVE  RefetchInv'
<1> USE DEF RefetchInv
<1>1. /\ phase[h] = "publish" /\ UNCHANGED <<dest, closure, bundle, own>>
      /\ Begin(h, verified[h][e])
  BY DEF PublishObject, Begin
<1>2. verified[h][e] \in Manifests
  BY <1>1 DEF PresentInv, Publishing, ClosureTyped
<1>3. Held'
  BY <1>1, <1>2, StepHeld
<1>4. pc'[h] = "lock" /\ \A k \in Hydrators \ {h} : pc'[k] = pc[k] /\ job'[k] = job[k]
  BY <1>1 DEF Begin, Goto, Held, TypeOK
<1>5. ClosureTyped' /\ KeepsStore
  BY <1>1 DEF ClosureTyped, KeepsStore, bundle, own
<1>6. PresentInv(h)'
  BY <1>1, <1>4 DEF PresentInv, own, Publishing, closureObjects, Absent
<1>7. \A k \in Hydrators \ {h} : Same(k)
  BY <1>1, <1>4 DEF Same, own
<1> QED BY <1>3, <1>5, <1>6, <1>7, RefetchAssemble

\* load_payload reads whatever is in the bundle now.
LEMMA LoadStays ==
  ASSUME RefetchInv, NEW h \in Hydrators,
         ReadManifestAgain(h) \/ LoadFromBundle(h) \/ LoadFails(h)
  PROVE  RefetchInv'
<1> USE DEF RefetchInv
<1>1. UNCHANGED <<dest, job, closure, bundle, todo, object, verified>>
  BY DEF ReadManifestAgain, LoadFromBundle, LoadFails, LoadPayload, vars
<1>2. pc[h] = "load" /\ phase[h] \in Publishing
  BY DEF ReadManifestAgain, LoadFromBundle, LoadFails, Enter, PresentInv, Publishing
<1>3. entry(h) \in Entries
  BY <1>2, WorksOnEntry DEF Held
<1>4. KeepsStore
  BY <1>1 DEF KeepsStore
<1>5. CASE ReadManifestAgain(h)
  <2>1. manifestOf[entry(h)] \in Manifests \cup {None}
    BY <1>3 DEF ClosureTyped
  <2>2. ClosureTyped' /\ phase'[h] = "payload"
    BY <1>1, <1>5, <2>1 DEF ReadManifestAgain, Enter, ClosureTyped, bundle, Publishing
  <2>3. PresentInv(h)'
    BY <1>1, <1>2, <1>5, <2>2
    DEF PresentInv, ReadManifestAgain, vars, Verifying, Publishing, closureObjects, Absent
  <2>4. Held' /\ \A k \in Hydrators \ {h} : Same(k)
    BY <1>5, HeldStays DEF ReadManifestAgain, Enter, Same, vars, ClosureTyped
  <2> QED BY <1>4, <2>2, <2>3, <2>4, RefetchAssemble
<1>6. CASE LoadFromBundle(h) \/ LoadFails(h)
  <2>1. phase' = [phase EXCEPT ![h] = "publish"] /\ candidate' = candidate
    BY <1>6 DEF LoadFromBundle, LoadFails, Enter
  <2>2. ClosureTyped' /\ phase'[h] = "publish"
    BY <1>1, <2>1 DEF ClosureTyped, bundle, Publishing
  <2>3. pc'[h] # "idle" /\ \A k \in Hydrators \ {h} : pc'[k] = pc[k]
    BY <1>6 DEF LoadFromBundle, LoadFails, LoadPayload, Goto, Fail, Held, TypeOK
  <2>4. PresentInv(h)'
    BY <1>1, <1>2, <2>2, <2>3 DEF PresentInv, Verifying, Publishing, closureObjects, Absent
  <2>5. Held'
    <3>1. CASE LoadFromBundle(h)
      <4>1. archiveOf[entry(h)] \in Trees
        BY <3>1, ManifestsAssumption DEF LoadFromBundle, Coherent, ClosureTyped
      <4> QED BY <3>1, <4>1, StepHeld DEF LoadFromBundle
    <3>2. CASE LoadFails(h)
      BY <1>2, <3>2, LoadErrorHeld DEF LoadFails
    <3> QED BY <1>6, <3>1, <3>2
  <2>6. \A k \in Hydrators \ {h} : Same(k)
    BY <1>1, <2>1, <2>3 DEF Same, ClosureTyped
  <2> QED BY <1>4, <2>2, <2>4, <2>5, <2>6, RefetchAssemble
<1> QED BY <1>5, <1>6

\* A call that succeeds has left something at the path; one that fails ends
\* the hydration.
LEMMA ReturnStays ==
  ASSUME RefetchInv, NEW h \in Hydrators, ObjectPublished(h) \/ ObjectFailed(h)
  PROVE  RefetchInv'
<1> USE DEF RefetchInv
<1>1. Return(h) /\ UNCHANGED <<dest, closure, bundle, object, candidate, verified>>
  BY DEF ObjectPublished, ObjectFailed, Return
<1>2. Held'
  BY <1>1, StepHeld
<1>3. KeepsStore
  BY <1>1 DEF KeepsStore
<1>4. pc'[h] = "idle" /\ \A k \in Hydrators \ {h} : pc'[k] = pc[k] /\ job'[k] = job[k]
  BY <1>1 DEF Return, Held, TypeOK
<1>5. CASE ObjectPublished(h)
  <2>1. /\ pc[h] = "done" /\ todo' = [todo EXCEPT ![h] = todo[h] \ {entry(h)}] /\ phase' = phase
    BY <1>5 DEF ObjectPublished
  <2>2. dest[entry(h)] # Absent /\ phase[h] = "publish"
    BY <2>1 DEF Held, DonePresent, PresentInv, Publishing
  <2>3. ClosureTyped' /\ todo'[h] = todo[h] \ {entry(h)}
    BY <1>1, <2>1 DEF ClosureTyped, bundle
  <2>4. PresentInv(h)'
    BY <1>1, <1>4, <2>1, <2>2, <2>3
    DEF PresentInv, Verifying, Publishing, closureObjects, Absent
  <2>5. \A k \in Hydrators \ {h} : Same(k)
    BY <1>1, <1>4, <2>1 DEF Same, ClosureTyped
  <2> QED BY <1>2, <1>3, <2>3, <2>4, <2>5, RefetchAssemble
<1>6. CASE ObjectFailed(h)
  <2>1. phase' = [phase EXCEPT ![h] = "failed"] /\ todo' = todo
    BY <1>6 DEF ObjectFailed, Enter
  <2>2. ClosureTyped' /\ phase'[h] = "failed"
    BY <1>1, <2>1 DEF ClosureTyped, bundle, Ended
  <2>3. PresentInv(h)'
    BY <1>4, <2>2 DEF PresentInv, Verifying, Publishing
  <2>4. \A k \in Hydrators \ {h} : Same(k)
    BY <1>1, <1>4, <2>1 DEF Same, ClosureTyped
  <2> QED BY <1>2, <1>3, <2>2, <2>3, <2>4, RefetchAssemble
<1> QED BY <1>5, <1>6

-----------------------------------------------------------------------------
\* Steps of the others: Buck2, a fetch that replaces a file, and nobody.
LEMMA EnvironmentStays ==
  ASSUME RefetchInv,
         \/ \E e \in Entries, m \in Manifests : RefetchManifest(e, m)
         \/ \E e \in Entries, t \in Trees : RefetchArchive(e, t)
         \/ \E e \in Entries, t \in NativeTrees : NativePublish(e, t)
         \/ UNCHANGED closureVars
  PROVE  RefetchInv'
<1> USE DEF RefetchInv
<1>1. UNCHANGED <<closure, own, pc, job>>
  BY DEF RefetchManifest, RefetchArchive, NativePublish, Materialize, closureVars, vars
<1>2. \A k \in Hydrators : Same(k)
  BY <1>1 DEF Same, own
<1>3. ClosureTyped'
  <2>1. CASE \E e \in Entries, m \in Manifests : RefetchManifest(e, m)
    <3>1. refetches' \in 0..MaxRefetches /\ manifestOf' \in [Entries -> Manifests \cup {None}]
          /\ archiveOf' = archiveOf
      BY <2>1, RefetchAssumption DEF RefetchManifest, ClosureTyped
    <3> QED BY <1>1, <3>1 DEF ClosureTyped, own
  <2>2. CASE \E e \in Entries, t \in Trees : RefetchArchive(e, t)
    <3>1. refetches' \in 0..MaxRefetches /\ archiveOf' \in [Entries -> Trees \cup {None}]
          /\ manifestOf' = manifestOf
      BY <2>2, RefetchAssumption DEF RefetchArchive, ClosureTyped
    <3> QED BY <1>1, <3>1 DEF ClosureTyped, own
  <2>3. CASE (\E e \in Entries, t \in NativeTrees : NativePublish(e, t)) \/ UNCHANGED closureVars
    <3>1. UNCHANGED bundle
      BY <2>3 DEF NativePublish, closureVars
    <3> QED BY <1>1, <3>1 DEF ClosureTyped, own, bundle
  <2> QED BY <2>1, <2>2, <2>3
<1>4. Held' /\ KeepsStore
  <2>1. CASE UNCHANGED vars
    BY <1>1, <2>1, HeldStays DEF KeepsStore, vars
  <2>2. CASE \E e \in Entries, t \in NativeTrees : NativePublish(e, t)
    <3>1. PICK e \in Entries, t \in NativeTrees : Materialize(e, t)
      BY <2>2 DEF NativePublish
    <3>2. Next
      BY <3>1 DEF Next
    <3> QED BY <1>1, <3>1, <3>2, MaterializeHeld, DestinationStays DEF KeepsStore, Held
  <2> QED BY <2>1, <2>2 DEF RefetchManifest, RefetchArchive, closureVars
<1> QED BY <1>2, <1>3, <1>4, OthersStay

\* The invariant holds whatever is replaced, and when.
THEOREM RefetchInvariance == ClosureSpec => []RefetchInv
<1>1. ClosureInit => RefetchInv
  <2> SUFFICES ASSUME ClosureInit PROVE RefetchInv
    OBVIOUS
  <2>1. Held /\ ClosureTyped
    BY InitClosureInv, IInvHeld DEF ClosureInv
  <2>2. \A h \in Hydrators : phase[h] = "rest" /\ pc[h] = "idle" /\ DOMAIN verified[h] = {}
    BY DEF ClosureInit, Init, NothingVerified
  <2> QED BY <2>1, <2>2 DEF RefetchInv, PresentInv, Verifying, Publishing
<1>2. RefetchInv /\ [ClosureNext]_closureVars => RefetchInv'
  BY FirstPassStays, VerifyObjectStays, ForgetStays, StoreStepStays, PublishObjectStays,
     LoadStays, ReturnStays, EnvironmentStays
  DEF ClosureNext, HydrateStep
<1> QED BY <1>1, <1>2, PTL DEF ClosureSpec

\* Every variable keeps its type.
THEOREM RefetchTypeCorrect == ClosureSpec => []ClosureTypeOK
<1>1. RefetchInv => ClosureTypeOK
  BY DEF RefetchInv, Held, ClosureTyped, ClosureTypeOK
<1> QED BY <1>1, RefetchInvariance, PTL

\* A hydration that reports success has a whole object under every path of
\* the closure, even when the bundle changed between its two passes.
THEOREM HydratedIsPresent == ClosureSpec => []HydratedMeansPresent
<1>1. RefetchInv => HydratedMeansPresent
  BY PinsKnown
  DEF RefetchInv, PresentInv, Held, PublishedComplete, HydratedMeansPresent, Publishing
<1> QED BY <1>1, RefetchInvariance, PTL
=============================================================================
