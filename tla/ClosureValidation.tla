-------------------------- MODULE ClosureValidation --------------------------
(****************************************************************************)
(* validate_closure: the worklist that decides whether the objects of a     *)
(* closure manifest are exactly the objects its roots reach. Run by         *)
(* pkgs_export_store_closure before it writes a bundle and by               *)
(* pkgs_hydrate_store_closure before it publishes one.                      *)
(*                                                                          *)
(* The closure under examination is any closure: references may be missing, *)
(* cyclic, or to the object itself, objects may be unreachable. The code    *)
(* keeps the worklist in a stack; the order in which it is served is left   *)
(* open here, so what is shown holds for every order.                       *)
(****************************************************************************)
EXTENDS StoreClosure

CONSTANTS
  Paths          \* store paths a closure manifest may name

VARIABLES
  roots,         \* closure.roots
  refs,          \* object path -> references of its manifest
  pending,       \* the worklist
  reachable,     \* objects taken from the worklist so far
  verdict        \* "start", "walking", or what validate_closure returns

vars == <<roots, refs, pending, reachable, verdict>>
input == <<roots, refs>>

Verdicts == {"Ok", "MissingClosureRoot", "MissingClosureReference",
             "UnreachableClosureObject"}

\* The worklist holds objects only: the lookup at the head of the loop of
\* validate_closure, whose failure it would report as a missing root, succeeds.
TypeOK ==
  /\ roots \subseteq Paths
  /\ DOMAIN refs \subseteq Paths
  /\ refs \in [DOMAIN refs -> SUBSET Paths]
  /\ pending \subseteq DOMAIN refs
  /\ reachable \subseteq DOMAIN refs
  /\ verdict \in {"start", "walking"} \cup Verdicts

objects == DOMAIN refs

Init ==
  /\ roots \in SUBSET Paths
  /\ \E objs \in SUBSET Paths : refs \in [objs -> SUBSET Paths]
  /\ pending = {}
  /\ reachable = {}
  /\ verdict = "start"

CheckRoots ==
  /\ verdict = "start"
  /\ roots \subseteq objects
  /\ verdict' = "walking"
  /\ pending' = roots
  /\ UNCHANGED <<input, reachable>>

MissingRoot ==
  /\ verdict = "start"
  /\ ~(roots \subseteq objects)
  /\ verdict' = "MissingClosureRoot"
  /\ UNCHANGED <<input, pending, reachable>>

\* `reachable.insert` returns false: the object was visited before.
Skip(p) ==
  /\ verdict = "walking"
  /\ p \in pending \cap reachable
  /\ pending' = pending \ {p}
  /\ UNCHANGED <<input, reachable, verdict>>

\* Mutant: references are pushed unchecked.
VisitUnchecked(p) ==
  /\ verdict = "walking"
  /\ p \in pending \ reachable
  /\ reachable' = reachable \cup {p}
  /\ pending' = (pending \ {p}) \cup refs[p]
  /\ UNCHANGED <<input, verdict>>

\* Mutant: a visited object is not marked.
VisitUnmarked(p) ==
  /\ verdict = "walking"
  /\ p \in pending \ reachable
  /\ refs[p] \subseteq objects
  /\ pending' = (pending \ {p}) \cup refs[p]
  /\ UNCHANGED <<input, reachable, verdict>>

Visit(p) ==
  /\ verdict = "walking"
  /\ p \in pending \ reachable
  /\ refs[p] \subseteq objects
  /\ reachable' = reachable \cup {p}
  /\ pending' = (pending \ {p}) \cup refs[p]
  /\ UNCHANGED <<input, verdict>>

MissingReference(p) ==
  /\ verdict = "walking"
  /\ p \in pending \ reachable
  /\ ~(refs[p] \subseteq objects)
  /\ reachable' = reachable \cup {p}
  /\ verdict' = "MissingClosureReference"
  /\ UNCHANGED <<input, pending>>

\* Mutant: objects nothing reaches are accepted.
FinishLenient ==
  /\ verdict = "walking"
  /\ pending = {}
  /\ verdict' = "Ok"
  /\ UNCHANGED <<input, pending, reachable>>

Finish ==
  /\ verdict = "walking"
  /\ pending = {}
  /\ verdict' = IF objects \subseteq reachable THEN "Ok" ELSE "UnreachableClosureObject"
  /\ UNCHANGED <<input, pending, reachable>>

Next ==
  \/ CheckRoots
  \/ MissingRoot
  \/ \E p \in pending : Skip(p) \/ Visit(p) \/ MissingReference(p)
  \/ Finish

Spec == Init /\ [][Next]_vars
FairSpec == Spec /\ WF_vars(Next)

-----------------------------------------------------------------------------
\* What the verdict must be, from the declarative definition alone.
Expected ==
  IF ~(roots \subseteq objects) THEN "MissingClosureRoot"
  ELSE IF ~(Reach(roots, refs) \subseteq objects) THEN "MissingClosureReference"
  ELSE IF ValidClosure(roots, refs) THEN "Ok"
  ELSE "UnreachableClosureObject"

\* validate_closure accepts exactly the closures that are complete and
\* minimal, and names the right defect of the others, in whatever order the
\* worklist is served and however the references loop.
VerdictCorrect == verdict \in Verdicts => verdict = Expected

\* The worklist never leaves what the roots reach, and reaches all of it:
\* whatever is reachable has been visited or can still be reached from the
\* worklist.
WalkInvariant ==
  verdict = "walking" =>
    /\ pending \cup reachable \subseteq objects \cap Reach(roots, refs)
    /\ roots \subseteq pending \cup reachable
    /\ \A p \in reachable : refs[p] \subseteq pending \cup reachable

\* The validation ends on every closure, cyclic ones included.
Terminates == <>(verdict \in Verdicts)
=============================================================================
