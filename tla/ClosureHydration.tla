-------------------------- MODULE ClosureHydration --------------------------
(****************************************************************************)
(* pkgs_hydrate_store_closure: hydration of a whole closure from a bundle   *)
(* directory. A first pass verifies every bundled object against the        *)
(* closure manifest, validate_closure checks that the closure is complete   *)
(* and minimal, and a second pass publishes the objects one at a time with  *)
(* publish_validated_store_object (StorePublish, whose actions run here).   *)
(*                                                                          *)
(* The second pass reads manifest and archive of each object again. The     *)
(* bundle is a directory of plain files, so a fetch that writes it may run  *)
(* at the same time (RefetchManifest, RefetchArchive). Objects are taken in *)
(* path order by the code; the order is left open here.                     *)
(****************************************************************************)
EXTENDS StorePublish, StoreClosure

CONSTANTS
  Closures,      \* closure manifests: [roots, target, pins : object -> manifest]
  MaxRefetches   \* bound: how many bundle files are replaced in a behaviour

\* A manifest also has the references and the target system of its object.
ASSUME ClosuresAssumption ==
  \A c \in Closures :
    /\ DOMAIN c.pins \subseteq Entries
    /\ \A e \in DOMAIN c.pins : c.pins[e] \in Manifests
ASSUME RefetchAssumption == MaxRefetches \in Nat

VARIABLES
  closure,       \* the closure manifest the hydrators are given
  manifestOf,    \* bundle: object -> its manifest file, or None (missing, malformed)
  archiveOf,     \* bundle: object -> the tree its archive encodes, or None
  phase,         \* hydrator -> where it is in hydrate_store_closure
  todo,          \* hydrator -> objects its present pass has not finished
  object,        \* hydrator -> the object under verification, or None
  candidate,     \* hydrator -> the manifest it last parsed, or None
  verified,      \* hydrator -> the manifests the first pass accepted
  refetches      \* bundle files replaced so far

bundle == <<manifestOf, archiveOf, refetches>>
own == <<phase, todo, object, candidate, verified>>
closureVars == <<vars, closure, bundle, own>>

Verifying == {"hash", "manifest", "archive"}
Publishing == {"publish", "payload"}
Ended == {"hydrated", "refused", "failed"}

ClosureTypeOK ==
  /\ TypeOK
  /\ closure \in Closures
  /\ manifestOf \in [Entries -> Manifests \cup {None}]
  /\ archiveOf \in [Entries -> Trees \cup {None}]
  /\ phase \in [Hydrators -> {"rest"} \cup Verifying \cup Publishing \cup Ended]
  /\ todo \in [Hydrators -> SUBSET Entries]
  /\ object \in [Hydrators -> Entries \cup {None}]
  /\ candidate \in [Hydrators -> Manifests \cup {None}]
  /\ verified \in [Hydrators -> UNION {[S -> Manifests] : S \in SUBSET Entries}]
  /\ refetches \in 0..MaxRefetches

NothingVerified == [e \in {} |-> None]

ClosureInit ==
  /\ Init
  /\ closure \in Closures
  /\ manifestOf \in [Entries -> Manifests \cup {None}]
  /\ archiveOf \in [Entries -> Trees \cup {None}]
  /\ phase = [h \in Hydrators |-> "rest"]
  /\ todo = [h \in Hydrators |-> {}]
  /\ object = [h \in Hydrators |-> None]
  /\ candidate = [h \in Hydrators |-> None]
  /\ verified = [h \in Hydrators |-> NothingVerified]
  /\ refetches = 0

closureObjects == DOMAIN closure.pins

Enter(h, from, to) == phase[h] = from /\ phase' = [phase EXCEPT ![h] = to]

-----------------------------------------------------------------------------
(* First pass: verify every object, then the closure.                       *)

HydrateClosure(h) ==
  /\ Enter(h, "rest", "hash")
  /\ todo' = [todo EXCEPT ![h] = closureObjects]
  /\ UNCHANGED <<vars, closure, bundle, object, candidate, verified>>

\* The bytes of the manifest file have the hash the closure pins.
CheckManifestHash(h, e) ==
  /\ Enter(h, "hash", "manifest")
  /\ manifestOf[e] = closure.pins[e]
  /\ object' = [object EXCEPT ![h] = e]
  /\ UNCHANGED <<vars, closure, bundle, todo, candidate, verified>>

RefuseManifestHash(h, e) ==
  /\ Enter(h, "hash", "refused")
  /\ manifestOf[e] # closure.pins[e]
  /\ UNCHANGED <<vars, closure, bundle, todo, object, candidate, verified>>

\* load_and_verify opens the manifest file a second time.
LoadManifest(h) ==
  /\ Enter(h, "manifest", IF manifestOf[object[h]] = None THEN "refused" ELSE "archive")
  /\ candidate' = [candidate EXCEPT ![h] = manifestOf[object[h]]]
  /\ UNCHANGED <<vars, closure, bundle, todo, object, verified>>

\* Mutant: the archive is left to the second pass.
AcceptableUnread(m, e) == m.entry = e /\ m.target = closure.target

\* The archive has the payload hash of the manifest just parsed, and the
\* manifest is of this object and of the target system of the closure.
Acceptable(m, e) == archiveOf[e] = m.tree /\ m.entry = e /\ m.target = closure.target

VerifyObject(h) ==
  /\ Enter(h, "archive", "hash")
  /\ Acceptable(candidate[h], object[h])
  /\ verified' = [verified EXCEPT ![h] =
       [e \in DOMAIN @ \cup {object[h]} |-> IF e = object[h] THEN candidate[h] ELSE @[e]]]
  /\ todo' = [todo EXCEPT ![h] = @ \ {object[h]}]
  /\ UNCHANGED <<vars, closure, bundle, object, candidate>>

RefuseObject(h) ==
  /\ Enter(h, "archive", "refused")
  /\ ~Acceptable(candidate[h], object[h])
  /\ UNCHANGED <<vars, closure, bundle, todo, object, candidate, verified>>

\* validate_closure (ClosureValidation shows that it computes this).
CompleteAndMinimal(h) ==
  ValidClosure(closure.roots, [e \in DOMAIN verified[h] |-> verified[h][e].refs])

\* Mutant: the first pass stops at the objects.
ValidateClosureNot(h) ==
  /\ Enter(h, "hash", "publish")
  /\ todo[h] = {}
  /\ todo' = [todo EXCEPT ![h] = closureObjects]
  /\ UNCHANGED <<vars, closure, bundle, object, candidate, verified>>

ValidateClosure(h) ==
  /\ Enter(h, "hash", "publish")
  /\ todo[h] = {}
  /\ CompleteAndMinimal(h)
  /\ todo' = [todo EXCEPT ![h] = closureObjects]
  /\ UNCHANGED <<vars, closure, bundle, object, candidate, verified>>

RefuseClosure(h) ==
  /\ Enter(h, "hash", "refused")
  /\ todo[h] = {}
  /\ ~CompleteAndMinimal(h)
  /\ UNCHANGED <<vars, closure, bundle, todo, object, candidate, verified>>

-----------------------------------------------------------------------------
(* Second pass: publish the objects, each from a fresh read of the bundle.  *)

PublishObject(h, e) ==
  /\ phase[h] = "publish"
  /\ Begin(h, verified[h][e])
  /\ UNCHANGED <<closure, bundle, own>>

\* A step of publish_validated_store_object other than load_payload.
StoreStep(h) ==
  /\ AcquireLock(h) \/ PublishStep(h)
  /\ UNCHANGED <<closure, bundle, own>>

\* load_payload: load_and_verify of the files as they are now.
ReadManifestAgain(h) ==
  /\ Enter(h, "publish", "payload")
  /\ pc[h] = "load"
  /\ candidate' = [candidate EXCEPT ![h] = manifestOf[entry(h)]]
  /\ UNCHANGED <<vars, closure, bundle, todo, object, verified>>

\* Only the archive is compared, and only with the manifest read with it.
Coherent(h) == candidate[h] # None /\ archiveOf[entry(h)] = candidate[h].tree

LoadFromBundle(h) ==
  /\ Enter(h, "payload", "publish")
  /\ Coherent(h)
  /\ LoadPayload(h, archiveOf[entry(h)])
  /\ UNCHANGED <<closure, bundle, todo, object, candidate, verified>>

LoadFails(h) ==
  /\ Enter(h, "payload", "publish")
  /\ ~Coherent(h)
  /\ Fail(h, "Load")
  /\ UNCHANGED <<dest, temp, job, payload, crashes, faults>>
  /\ UNCHANGED <<closure, bundle, todo, object, candidate, verified>>

ObjectPublished(h) ==
  /\ pc[h] = "done"
  /\ todo' = [todo EXCEPT ![h] = @ \ {entry(h)}]
  /\ Return(h)
  /\ UNCHANGED <<closure, bundle, phase, object, candidate, verified>>

\* Mutant: a loop that goes on after a failed object.
ObjectFailedIgnored(h) ==
  /\ pc[h] = "failed"
  /\ phase[h] = "publish"
  /\ todo' = [todo EXCEPT ![h] = @ \ {entry(h)}]
  /\ Return(h)
  /\ UNCHANGED <<closure, bundle, phase, object, candidate, verified>>

\* The `?` of the loop: the objects published before stay published.
ObjectFailed(h) ==
  /\ Enter(h, "publish", "failed")
  /\ pc[h] = "failed"
  /\ Return(h)
  /\ UNCHANGED <<closure, bundle, todo, object, candidate, verified>>

ClosureHydrated(h) ==
  /\ Enter(h, "publish", "hydrated")
  /\ pc[h] = "idle"
  /\ todo[h] = {}
  /\ UNCHANGED <<vars, closure, bundle, todo, object, candidate, verified>>

Forget(h) ==
  /\ phase' = [phase EXCEPT ![h] = "rest"]
  /\ todo' = [todo EXCEPT ![h] = {}]
  /\ object' = [object EXCEPT ![h] = None]
  /\ candidate' = [candidate EXCEPT ![h] = None]
  /\ verified' = [verified EXCEPT ![h] = NothingVerified]

\* The process exits; its caller may run it again.
Exit(h) ==
  /\ phase[h] \in Ended
  /\ Forget(h)
  /\ UNCHANGED <<vars, closure, bundle>>

-----------------------------------------------------------------------------
(* What may go wrong, and who else is there.                                *)

StoreFails(h) ==
  /\ MaterializeFails(h) \/ RenameFails(h)
  /\ UNCHANGED <<closure, bundle, own>>

\* Killed while it publishes. (Killed in the first pass it leaves no trace.)
Killed(h) ==
  /\ Crash(h)
  /\ Forget(h)
  /\ UNCHANGED <<closure, bundle>>

RefetchManifest(e, m) ==
  /\ refetches < MaxRefetches
  /\ m # manifestOf[e]
  /\ refetches' = refetches + 1
  /\ manifestOf' = [manifestOf EXCEPT ![e] = m]
  /\ UNCHANGED <<vars, closure, archiveOf, own>>

RefetchArchive(e, t) ==
  /\ refetches < MaxRefetches
  /\ t # archiveOf[e]
  /\ refetches' = refetches + 1
  /\ archiveOf' = [archiveOf EXCEPT ![e] = t]
  /\ UNCHANGED <<vars, closure, manifestOf, own>>

NativePublish(e, t) ==
  /\ Materialize(e, t)
  /\ UNCHANGED <<closure, bundle, own>>

\* The steps of hydrate_store_closure itself.
HydrateStep(h) ==
  \/ \E e \in todo[h] : CheckManifestHash(h, e) \/ RefuseManifestHash(h, e)
  \/ LoadManifest(h)
  \/ VerifyObject(h)
  \/ RefuseObject(h)
  \/ ValidateClosure(h)
  \/ RefuseClosure(h)
  \/ \E e \in todo[h] : PublishObject(h, e)
  \/ ReadManifestAgain(h)
  \/ LoadFromBundle(h)
  \/ LoadFails(h)
  \/ ObjectPublished(h)
  \/ ObjectFailed(h)
  \/ ClosureHydrated(h)

ClosureNext ==
  \/ \E h \in Hydrators :
       \/ HydrateClosure(h)
       \/ HydrateStep(h)
       \/ StoreStep(h)
       \/ Exit(h)
       \/ StoreFails(h)
       \/ Killed(h)
  \/ \E e \in Entries, m \in Manifests : RefetchManifest(e, m)
  \/ \E e \in Entries, t \in Trees : RefetchArchive(e, t)
  \/ \E e \in Entries, t \in NativeTrees : NativePublish(e, t)

ClosureSpec == ClosureInit /\ [][ClosureNext]_closureVars

\* As in StorePublish: a process runs, and flock serves its waiters.
ClosureFairness ==
  \A h \in Hydrators :
    /\ SF_closureVars(AcquireLock(h) /\ UNCHANGED <<closure, bundle, own>>)
    /\ WF_closureVars(HydrateStep(h) \/ (PublishStep(h) /\ UNCHANGED <<closure, bundle, own>>))

ClosureFairSpec == ClosureSpec /\ ClosureFairness

-----------------------------------------------------------------------------
(* Safety.                                                                  *)

\* A hydration that reports success has put the pinned tree of every object
\* of the closure into the store.
HydratedMeansPinned ==
  \A h \in Hydrators :
    phase[h] = "hydrated" =>
      \A e \in closureObjects :
        dest[e] = [tree |-> closure.pins[e].tree, stage |-> "sealed"]

\* Even when bundle files are replaced under it, a hydration that reports
\* success has a whole object under every path of the closure: where an object
\* goes is decided by the manifest of the first pass, not by the second read.
HydratedMeansPresent ==
  \A h \in Hydrators :
    phase[h] = "hydrated" => \A e \in closureObjects : dest[e].stage = "sealed"

\* The bundle and the closure as a reviewer would judge them.
Sound ==
  /\ \A e \in closureObjects :
       /\ manifestOf[e] = closure.pins[e]
       /\ closure.pins[e].entry = e
       /\ closure.pins[e].target = closure.target
       /\ archiveOf[e] = closure.pins[e].tree
  /\ ValidClosure(closure.roots, [e \in closureObjects |-> closure.pins[e].refs])

\* One bad object, or one object too many or too few, and no hydrator changes
\* the store: everything is verified before anything is published. (A native
\* publication moves no hydrator.)
BadBundlePublishesNothing ==
  [][pc' # pc /\ dest' # dest => Sound]_closureVars

\* While the bundle is stable, hydrating a closure is hydrating its objects:
\* the second read of each object is one StorePublish allows.
ImplementsStorePublish == Spec

-----------------------------------------------------------------------------
(* Liveness.                                                                *)

\* Every hydration of a closure comes to an end.
HydrationEnds ==
  \A h \in Hydrators : phase[h] = "hash" ~> phase[h] \in Ended \cup {"rest"}

\* A closure that is hydrated over and over from a bundle that is sound
\* throughout is hydrated in the end, whatever interrupted the earlier attempts.
RetriesHydrate ==
  (/\ []Sound
   /\ \A h \in Hydrators : []<>(phase[h] = "hash"))
    => <>(\A e \in closureObjects : dest[e] # Absent)
=============================================================================
