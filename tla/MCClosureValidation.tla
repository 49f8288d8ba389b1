------------------------- MODULE MCClosureValidation -------------------------
(* Every closure over three store paths.                                    *)
EXTENDS ClosureValidation

CONSTANTS p1, p2, p3

MCPaths == {p1, p2, p3}
=============================================================================
