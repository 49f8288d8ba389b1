--------------------------- MODULE MCStorePublish ---------------------------
(* Instances of StorePublish for TLC.                                       *)
EXTENDS StorePublish, TLC

CONSTANTS h1, h2, h3, e1, e2, t1, t2

MCHydrators == {h1, h2}
MCHydrators3 == {h1, h2, h3}

\* Two publications of the same entry that differ in their bytes, and a
\* second entry that shares one of the trees.
MCEntries == {e1, e2}
MCTrees == {t1, t2}
MCManifests == {[entry |-> e1, tree |-> t1], [entry |-> e1, tree |-> t2],
                [entry |-> e2, tree |-> t1]}

\* One entry, contended by every hydrator.
MCEntry == {e1}
MCEntryManifests == {[entry |-> e1, tree |-> t1], [entry |-> e1, tree |-> t2]}
MCOneManifest == {[entry |-> e1, tree |-> t1]}

MCNone == {}

Symmetry == Permutations(MCHydrators3)
=============================================================================
