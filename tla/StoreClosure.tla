---------------------------- MODULE StoreClosure ----------------------------
(****************************************************************************)
(* Closures of store objects. refs maps every object of a closure to the    *)
(* store paths its manifest references; a closure is valid when the objects *)
(* are exactly what the roots reach.                                        *)
(****************************************************************************)

\* Every store path a closure mentions.
Mentioned(roots, refs) == roots \cup DOMAIN refs \cup UNION {refs[p] : p \in DOMAIN refs}

Closed(S, roots, refs) ==
  /\ roots \subseteq S
  /\ \A p \in S \cap DOMAIN refs : refs[p] \subseteq S

\* The least set that holds the roots and follows the references of objects.
Reach(roots, refs) ==
  {p \in Mentioned(roots, refs) :
     \A S \in SUBSET Mentioned(roots, refs) : Closed(S, roots, refs) => p \in S}

\* Complete (nothing reached is missing) and minimal (nothing is unreached).
ValidClosure(roots, refs) == Reach(roots, refs) = DOMAIN refs
=============================================================================
