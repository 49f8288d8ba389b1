--------------------------- MODULE MCPackageBuild ---------------------------
(* Instances of PackageBuild for TLC.                                       *)
EXTENDS PackageBuild

MCModes == {"scratch", "temp", "work_dir"}
MCWorkDir == {"work_dir"}
=============================================================================
