----------------------- MODULE ClosureValidationProofs -----------------------
(****************************************************************************)
(* validate_closure is correct for every closure over any set of paths.     *)
(****************************************************************************)
EXTENDS ClosureValidation, TLAPS

\* Reach is itself closed under the references.
LEMMA ReachIsClosed ==
  ASSUME NEW R, NEW f
  PROVE  Closed(Reach(R, f), R, f)
<1>1. R \subseteq Reach(R, f)
  BY DEF Reach, Mentioned, Closed
<1>2. ASSUME NEW p \in Reach(R, f) \cap DOMAIN f, NEW q \in f[p]
      PROVE  q \in Reach(R, f)
  <2>1. q \in Mentioned(R, f)
    BY <1>2 DEF Mentioned
  <2>2. ASSUME NEW S \in SUBSET Mentioned(R, f), Closed(S, R, f)
        PROVE  q \in S
    BY <1>2, <2>2 DEF Reach, Closed
  <2> QED BY <2>1, <2>2 DEF Reach
<1> QED BY <1>1, <1>2 DEF Closed

\* Reach is the least closed set.
LEMMA ReachIsLeast ==
  ASSUME NEW R, NEW f, NEW S, Closed(S, R, f)
  PROVE  Reach(R, f) \subseteq S
<1> DEFINE T == S \cap Mentioned(R, f)
<1>1. T \in SUBSET Mentioned(R, f)
  OBVIOUS
<1>2. Closed(T, R, f)
  BY DEF Closed, Mentioned
<1> QED BY <1>1, <1>2 DEF Reach

Inv == TypeOK /\ WalkInvariant /\ VerdictCorrect

\* Nothing is known at the start, and nothing need be.
LEMMA InitInv == Init => Inv
  BY DEF Init, Inv, TypeOK, WalkInvariant, VerdictCorrect, Verdicts

\* The walk starts at the roots, before any object has been visited.
Fresh == verdict = "start" => pending = {} /\ reachable = {}

\* Every step keeps the walk inside what the roots reach.
LEMMA NextInv == Fresh /\ Inv /\ [Next]_vars => Fresh' /\ Inv'
<1> SUFFICES ASSUME Fresh, Inv, [Next]_vars PROVE Fresh' /\ Inv'
  OBVIOUS
<1> USE DEF Inv
<1>R. Closed(Reach(roots, refs), roots, refs)
  BY ReachIsClosed
<1>1. CASE CheckRoots
  <2>1. Fresh' /\ TypeOK' /\ VerdictCorrect'
    BY <1>1 DEF CheckRoots, input, Fresh, TypeOK, VerdictCorrect, Verdicts, objects
  <2>2. WalkInvariant'
    BY <1>1, <1>R DEF CheckRoots, input, Fresh, WalkInvariant, Closed, objects
  <2> QED BY <2>1, <2>2
<1>2. CASE MissingRoot
  <2>1. Fresh' /\ TypeOK' /\ WalkInvariant'
    BY <1>2 DEF MissingRoot, input, Fresh, TypeOK, WalkInvariant, Verdicts
  <2>2. VerdictCorrect'
    BY <1>2 DEF MissingRoot, input, VerdictCorrect, Expected, objects
  <2> QED BY <2>1, <2>2
<1>3. ASSUME NEW p \in pending, Skip(p)
      PROVE  Fresh' /\ Inv'
  <2>1. Fresh' /\ TypeOK' /\ VerdictCorrect'
    BY <1>3 DEF Skip, input, Fresh, TypeOK, VerdictCorrect, Verdicts
  <2>2. WalkInvariant'
    BY <1>3 DEF Skip, input, WalkInvariant, objects
  <2> QED BY <2>1, <2>2
<1>4. ASSUME NEW p \in pending, Visit(p)
      PROVE  Fresh' /\ Inv'
  <2>1. p \in Reach(roots, refs) \cap objects
    BY <1>4 DEF Visit, WalkInvariant
  <2>2. refs[p] \subseteq Reach(roots, refs)
    BY <2>1, <1>R DEF Closed, objects
  <2>3. Fresh' /\ TypeOK' /\ VerdictCorrect'
    BY <1>4, <2>1 DEF Visit, input, Fresh, TypeOK, VerdictCorrect, Verdicts, objects
  <2>4. WalkInvariant'
    BY <1>4, <2>1, <2>2 DEF Visit, input, WalkInvariant, objects
  <2> QED BY <2>3, <2>4
<1>5. ASSUME NEW p \in pending, MissingReference(p)
      PROVE  Fresh' /\ Inv'
  <2>1. p \in Reach(roots, refs) \cap objects /\ roots \subseteq objects
    BY <1>5 DEF MissingReference, WalkInvariant
  <2>2. refs[p] \subseteq Reach(roots, refs)
    BY <2>1, <1>R DEF Closed, objects
  <2>3. Fresh' /\ TypeOK' /\ WalkInvariant'
    BY <1>5 DEF MissingReference, input, Fresh, TypeOK, WalkInvariant, Verdicts
  <2>4. VerdictCorrect'
    BY <1>5, <2>1, <2>2 DEF MissingReference, input, VerdictCorrect, Expected, objects
  <2> QED BY <2>3, <2>4
<1>6. CASE Finish
  <2>1. Closed(reachable, roots, refs)
    BY <1>6 DEF Finish, WalkInvariant, Closed, objects
  <2>2. Reach(roots, refs) = reachable /\ reachable \subseteq objects /\ roots \subseteq objects
    BY <1>6, <2>1, ReachIsLeast DEF Finish, WalkInvariant
  <2>3. Fresh' /\ TypeOK' /\ WalkInvariant'
    BY <1>6 DEF Finish, input, Fresh, TypeOK, WalkInvariant, Verdicts
  <2>4. VerdictCorrect'
    BY <1>6, <2>2 DEF Finish, input, VerdictCorrect, Expected, ValidClosure, objects
  <2> QED BY <2>3, <2>4
<1>7. CASE UNCHANGED vars
  BY <1>7 DEF vars, Fresh, TypeOK, WalkInvariant, VerdictCorrect, Expected, objects
<1> QED BY <1>1, <1>2, <1>3, <1>4, <1>5, <1>6, <1>7 DEF Next

\* validate_closure returns the verdict the declarative definition demands.
THEOREM ValidationCorrect == Spec => []VerdictCorrect
<1>1. Init => Fresh
  BY DEF Init, Fresh
<1> QED BY <1>1, InitInv, NextInv, PTL DEF Spec, Inv

\* The worklist names objects only, so the manifest lookup of the loop never
\* fails.
THEOREM WorklistTyped == Spec => []TypeOK
<1>1. Init => Fresh
  BY DEF Init, Fresh
<1> QED BY <1>1, InitInv, NextInv, PTL DEF Spec, Inv

\* At every turn of the loop the worklist and the visited set are sound, and
\* together with what they lead to they are complete.
THEOREM WalkSound == Spec => []WalkInvariant
<1>1. Init => Fresh
  BY DEF Init, Fresh
<1> QED BY <1>1, InitInv, NextInv, PTL DEF Spec, Inv
=============================================================================
