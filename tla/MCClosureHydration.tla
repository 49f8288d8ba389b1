------------------------- MODULE MCClosureHydration -------------------------
(* Instances of ClosureHydration for TLC: a tool e2 that references its     *)
(* library e1.                                                              *)
EXTENDS ClosureHydration, TLC

CONSTANTS h1, h2, e1, e2, t1, t2

MCHydrators == {h1, h2}
MCHydrator == {h1}
MCEntries == {e1, e2}
MCTrees == {t1, t2}
MCNone == {}

manifest(e, t, refs, target) == [entry |-> e, tree |-> t, refs |-> refs, target |-> target]

Library == manifest(e1, t1, {}, "native")
Tool == manifest(e2, t2, {e1}, "native")
RebuiltLibrary == manifest(e1, t2, {}, "native")
ForeignTool == manifest(e2, t2, {e1}, "foreign")

MCManifests == {Library, Tool, RebuiltLibrary, ForeignTool}

closureOf(roots, objects) ==
  [roots |-> roots, target |-> "native",
   pins |-> [e \in {m.entry : m \in objects} |-> CHOOSE m \in objects : m.entry = e]]

\* The tool and its library; the library too many; the library missing; a
\* tool of another system; an object under another object's path.
GoodClosure == closureOf({e2}, {Library, Tool})
MCClosures ==
  {GoodClosure, closureOf({e1}, {Library, Tool}), closureOf({e2}, {Tool}),
   closureOf({e2}, {Library, ForeignTool}),
   [GoodClosure EXCEPT !.pins[e1] = Tool]}
MCGoodClosure == {GoodClosure}
MCSoundManifests == {Library, Tool}

\* The liveness instance starts with a sound bundle, which a fetch may replace.
MCSoundInit == ClosureInit /\ Sound
MCFairSpec == MCSoundInit /\ [][ClosureNext]_closureVars /\ ClosureFairness

Symmetry == Permutations(MCHydrators)
=============================================================================
