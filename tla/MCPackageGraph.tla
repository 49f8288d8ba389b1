--------------------------- MODULE MCPackageGraph ---------------------------
(* An instance of PackageGraph for TLC, which chooses at the start between  *)
(* every graph of four targets over three realizations and longer chains,   *)
(* of five over four: a user of a cut package whose tools have trees of     *)
(* their own.                                                               *)
EXTENDS PackageGraph, TLC

CONSTANTS e1, e2, e3, e4

VARIABLE instance       \* wide or chain

MCEntries3 == {e1, e2, e3}
MCEntries4 == {e1, e2, e3, e4}

\* Sound for both: states of the wide graphs that differ in e4 are not reached.
Symmetry == Permutations(MCEntries4)

Wide == INSTANCE PackageGraph WITH Targets <- 1..4, Entries <- MCEntries3

Chain == INSTANCE PackageGraph WITH
  InputRoles <- {"tool", "build"}, MaxInputs <- 1,
  MaxForeign <- 1, MaxPublished <- 0

\* A chain begins with a foreign package; the others have nothing to track.
FromSeed == Analysed # {} => foreign # {}

MCInit == Init /\ instance \in {"wide", "chain"}

MCNext ==
  /\ \/ instance = "wide" /\ Wide!Next
     \/ instance = "chain" /\ FromSeed /\ Chain!Next
  /\ UNCHANGED instance

MCSpec == MCInit /\ [][MCNext]_<<vars, instance>>
=============================================================================
