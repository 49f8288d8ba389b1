--------------------------- MODULE HeadersInstall ---------------------------
(* pkgs_linux_headers_install: unlike the other builders it writes its      *)
(* output in place, below the destination, without a staging directory and  *)
(* without a rename. A run may fail or be killed between any two files;     *)
(* Buck2 removes the output before it runs an action again (a person need   *)
(* not).                                                                    *)
EXTENDS Naturals, FiniteSets

CONSTANTS HeaderNames,  \* files of usr/include that end in .h
          OtherNames,   \* other files of usr/include
          MaxInstalls   \* bound: runs

Release == "kernel.release"
ASSUME HeadersAssumption ==
  /\ HeaderNames \cap OtherNames = {} /\ Release \notin HeaderNames \cup OtherNames
  /\ IsFiniteSet(HeaderNames \cup OtherNames) /\ MaxInstalls \in Nat

VARIABLES stage,        \* where the run is, done or failed
          installs,     \* number of the run
          usrInclude,   \* the files make headers left in usr/include
          include,      \* whether the output has its include directory
          written,      \* file of the output -> the run that wrote it
          readOnly      \* whether the output is sealed

headersVars == <<stage, installs, usrInclude, include, written, readOnly>>

HeadersInit ==
  /\ stage = "idle" /\ installs = 0 /\ usrInclude = {} /\ include = FALSE
  /\ written = [n \in {} |-> 0] /\ readOnly = FALSE

\* The work directory, the copy of the source, the output directory: made if
\* it is not there.
StartInstall(clear) ==
  /\ stage \in {"idle", "done", "failed"} /\ installs < MaxInstalls
  /\ installs' = installs + 1 /\ stage' = "make"
  /\ IF clear
     THEN include' = FALSE /\ written' = [n \in {} |-> 0] /\ readOnly' = FALSE
     ELSE UNCHANGED <<include, written, readOnly>>
  /\ UNCHANGED usrInclude

\* make mrproper, make headers.
MakeHeaders(files) ==
  /\ stage = "make"
  /\ usrInclude' = files /\ stage' = "directory"
  /\ UNCHANGED <<installs, include, written, readOnly>>

\* Mutant: an include directory that is there is copied into.
MakeIncludeOver ==
  /\ stage = "directory"
  /\ include' = TRUE /\ stage' = "copy"
  /\ UNCHANGED <<installs, usrInclude, written, readOnly>>

\* copy_tree makes the directory it copies to, which must not be there.
MakeInclude ==
  /\ stage = "directory" /\ ~include
  /\ include' = TRUE /\ stage' = "copy"
  /\ UNCHANGED <<installs, usrInclude, written, readOnly>>

Copied == {n \in DOMAIN written : written[n] = installs}

CopyHeader(n) ==
  /\ stage = "copy" /\ n \in usrInclude \ Copied
  /\ written' = [x \in DOMAIN written \cup {n} |-> IF x = n THEN installs ELSE written[x]]
  /\ UNCHANGED <<stage, installs, usrInclude, include, readOnly>>

CopyEnds ==
  /\ stage = "copy" /\ usrInclude \subseteq Copied
  /\ stage' = "filter"
  /\ UNCHANGED <<installs, usrInclude, include, written, readOnly>>

\* remove_non_headers.
RemoveNonHeader(n) ==
  /\ stage = "filter" /\ n \in DOMAIN written \ HeaderNames
  /\ written' = [x \in DOMAIN written \ {n} |-> written[x]]
  /\ UNCHANGED <<stage, installs, usrInclude, include, readOnly>>

FilterEnds ==
  /\ stage = "filter" /\ DOMAIN written \subseteq HeaderNames
  /\ stage' = "release"
  /\ UNCHANGED <<installs, usrInclude, include, written, readOnly>>

WriteRelease ==
  /\ stage = "release"
  /\ written' = [x \in DOMAIN written \cup {Release} |-> IF x = Release THEN installs ELSE written[x]]
  /\ stage' = "seal"
  /\ UNCHANGED <<installs, usrInclude, include, readOnly>>

SealHeaders ==
  /\ stage = "seal"
  /\ readOnly' = TRUE /\ stage' = "done"
  /\ UNCHANGED <<installs, usrInclude, include, written>>

\* Any step may fail, and any run be killed.
StopInstall ==
  /\ stage \notin {"idle", "done", "failed"}
  /\ stage' = "failed"
  /\ UNCHANGED <<installs, usrInclude, include, written, readOnly>>

HeadersNext ==
  \/ \E clear \in BOOLEAN : StartInstall(clear)
  \/ \E files \in SUBSET (HeaderNames \cup OtherNames) : MakeHeaders(files)
  \/ MakeInclude
  \/ \E n \in HeaderNames \cup OtherNames : CopyHeader(n)
  \/ CopyEnds
  \/ \E n \in OtherNames \cup {Release} : RemoveNonHeader(n)
  \/ FilterEnds \/ WriteRelease \/ SealHeaders \/ StopInstall

HeadersSpec == HeadersInit /\ [][HeadersNext]_headersVars

-----------------------------------------------------------------------------
\* A run that succeeds leaves a sealed output with the headers make made, its
\* own release and nothing else, though it writes in place and what earlier
\* runs left may still be there.
HeadersOfOneRun ==
  stage = "done" =>
    /\ readOnly
    /\ written = [n \in (usrInclude \cap HeaderNames) \cup {Release} |-> installs]
=============================================================================
