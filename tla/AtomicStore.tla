----------------------------- MODULE AtomicStore -----------------------------
(****************************************************************************)
(* What the hydrator promises its callers: a store in which an object is    *)
(* either absent or wholly there, never changes once it is there, and in    *)
(* which one hydration is one atomic step. A request carries an object      *)
(* manifest; it is answered "ok" in a step after which the store holds      *)
(* exactly the tree the manifest pins, or "failed" with the store           *)
(* untouched. Buck2's own materializer publishes into the same store.       *)
(****************************************************************************)
CONSTANTS
  Hydrators,     \* processes running pkgs_hydrate_store_object
  Entries,       \* store entries: <key>-<store name>
  Trees,         \* canonical trees, one per canonical tree hash
  Manifests,     \* object manifests: records with an entry and its pinned tree
  NativeTrees,   \* trees Buck2's materializer may publish under an entry
  None

VARIABLES
  store,         \* entry -> the tree visible at /pkgs/store/<entry>, or None
  request,       \* hydrator -> the manifest it was called with, or None
  outcome        \* hydrator -> "none", "ok" or "failed"

abstractVars == <<store, request, outcome>>

Init ==
  /\ store = [e \in Entries |-> None]
  /\ request = [h \in Hydrators |-> None]
  /\ outcome = [h \in Hydrators |-> "none"]

Call(h, m) ==
  /\ request[h] = None
  /\ request' = [request EXCEPT ![h] = m]
  /\ UNCHANGED <<store, outcome>>

Pending(h) == request[h] # None /\ outcome[h] = "none"

\* The object was absent: it appears whole, and the call succeeds, in one step.
Publish(h) ==
  /\ Pending(h)
  /\ store[request[h].entry] = None
  /\ store' = [store EXCEPT ![request[h].entry] = request[h].tree]
  /\ outcome' = [outcome EXCEPT ![h] = "ok"]
  /\ UNCHANGED request

\* The object was there with the pinned bytes.
Reuse(h) ==
  /\ Pending(h)
  /\ store[request[h].entry] = request[h].tree
  /\ outcome' = [outcome EXCEPT ![h] = "ok"]
  /\ UNCHANGED <<store, request>>

\* Any failure leaves the store as it was.
Reject(h) ==
  /\ Pending(h)
  /\ outcome' = [outcome EXCEPT ![h] = "failed"]
  /\ UNCHANGED <<store, request>>

\* The process exits, or is killed, and may be started again.
Exit(h) ==
  /\ request[h] # None
  /\ request' = [request EXCEPT ![h] = None]
  /\ outcome' = [outcome EXCEPT ![h] = "none"]
  /\ UNCHANGED store

Materialize(e, t) ==
  /\ store[e] = None
  /\ store' = [store EXCEPT ![e] = t]
  /\ UNCHANGED <<request, outcome>>

Next ==
  \/ \E h \in Hydrators :
       \/ \E m \in Manifests : Call(h, m)
       \/ Publish(h)
       \/ Reuse(h)
       \/ Reject(h)
       \/ Exit(h)
  \/ \E e \in Entries, t \in NativeTrees : Materialize(e, t)

Spec == Init /\ [][Next]_abstractVars
=============================================================================
