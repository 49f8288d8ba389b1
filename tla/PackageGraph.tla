---------------------------- MODULE PackageGraph ----------------------------
(****************************************************************************)
(* The analysis of package targets in rules/pkgs.bzl: what PkgsPackageInfo  *)
(* says of a target is computed once, from the providers of its inputs.     *)
(* The model grows a graph of targets, in any order in which inputs come    *)
(* first: packages and their split outputs, seed cuts, validated outputs,   *)
(* and imports pinned to a manifest an earlier publication produced.        *)
(*                                                                          *)
(* Closures are sets here. The code keeps ordered lists, each entry once,   *)
(* and lists of artifacts parallel to them.                                 *)
(* What the tree of an output mentions, in files or in symbolic links, is   *)
(* chosen freely; it decides whether the verification actions succeed.      *)
(****************************************************************************)
EXTENDS Naturals, FiniteSets

CONSTANTS
  Targets,       \* Buck targets that provide PkgsPackageInfo, numbered as analysed
  Entries,       \* store entries; distinct realizations have distinct entries
  None,
  InputRoles,    \* bound: roles that inputs have
  MaxInputs,     \* bound: inputs of one target
  MaxMentions,   \* bound: store paths one tree mentions
  MaxForeign,    \* bound: foreign packages
  MaxPublished   \* bound: manifests published

ASSUME TargetsAssumption == Targets \subseteq Nat

VARIABLES
  info,          \* target -> its PkgsPackageInfo, or None before its analysis
  bytes,         \* entry -> other store entries its tree mentions
  linked,        \* entry -> those it mentions in targets of symbolic links only
  foreign,       \* entries of foreign packages
  published      \* manifests of the objects published so far

vars == <<info, bytes, linked, foreign, published>>

Check == [kind : {"cut", "declared"}, tree : Entries, entries : SUBSET Entries]

Provider ==
  [entry : Entries, package : Targets \cup {None}, inputs : SUBSET Targets,
   runtime : SUBSET Entries, tool : SUBSET Entries, reference : SUBSET Entries,
   build : SUBSET Entries,
   foreignRuntime : SUBSET Entries, foreignBuild : SUBSET Entries,
   checks : SUBSET Check]

Manifest ==
  [entry : Entries, runtime : SUBSET Entries, tool : SUBSET Entries,
   reference : SUBSET Entries]

ASSUME NoneAssumption == None \notin Provider /\ None \notin Targets

TypeOK ==
  /\ info \in [Targets -> Provider \cup {None}]
  /\ bytes \in [Entries -> SUBSET Entries]
  /\ linked \in [Entries -> SUBSET Entries]
  /\ foreign \subseteq Entries
  /\ published \subseteq Manifest

Init ==
  /\ info = [t \in Targets |-> None]
  /\ bytes = [e \in Entries |-> {}]
  /\ linked = [e \in Entries |-> {}]
  /\ foreign = {}
  /\ published = {}

Analysed == {t \in Targets : info[t] # None}

Realized == {info[t].entry : t \in Analysed}

\* _collect_closure and _collect_entries over the providers of inputs.
Runtime(ds) == UNION {info[d].runtime : d \in ds}
Tool(ds) == UNION {info[d].tool : d \in ds}
\* Mutant: the references of inputs are left out.
ReferenceDirect(ds) == {info[d].entry : d \in ds}
Reference(ds) == UNION {info[d].reference : d \in ds}
Build(ds) == UNION {info[d].build : d \in ds}
ForeignRuntime(ds) == UNION {info[d].foreignRuntime : d \in ds}
ForeignBuild(ds) == UNION {info[d].foreignBuild : d \in ds}
Checks(ds) == UNION {info[d].checks : d \in ds}

\* Mutant: runtime inputs are not tool inputs.
MetadataToolsApart(e, package, inputs, runtime, tool, reference, isForeign) ==
  LET self == IF isForeign THEN {e} ELSE {}
      tools == tool
  IN [entry |-> e, package |-> package, inputs |-> inputs,
      runtime |-> {e} \cup Runtime(runtime),
      tool |-> {e} \cup Tool(tools),
      reference |-> {e} \cup Reference(tools \cup reference),
      build |-> {e} \cup Build(inputs),
      foreignRuntime |-> self \cup ForeignRuntime(runtime),
      foreignBuild |-> self \cup ForeignBuild(inputs),
      checks |-> Checks(inputs)]

\* _package_metadata: runtime inputs count as tool inputs, and both as
\* reference inputs; every input of any role counts for the build.
Metadata(e, package, inputs, runtime, tool, reference, isForeign) ==
  LET self == IF isForeign THEN {e} ELSE {}
      tools == runtime \cup tool
  IN [entry |-> e, package |-> package, inputs |-> inputs,
      runtime |-> {e} \cup Runtime(runtime),
      tool |-> {e} \cup Tool(tools),
      reference |-> {e} \cup Reference(tools \cup reference),
      build |-> {e} \cup Build(inputs),
      foreignRuntime |-> self \cup ForeignRuntime(runtime),
      foreignBuild |-> self \cup ForeignBuild(inputs),
      checks |-> Checks(inputs)]

\* What the build action is handed: its inputs and the trees of their tool
\* closures, and so every path these mention. (No rule hands more than that to
\* an action; most roles bring less.)
Visible(inputs) == Tool(inputs) \cup UNION {bytes[e] : e \in Tool(inputs)}

\* The target analysed next.
Upcoming == {t \in Targets : info[t] = None /\ \A u \in Targets : u < t => info[u] # None}

Define(t, provider) ==
  /\ t \in Upcoming
  /\ info' = [info EXCEPT ![t] = provider]

\* The build action of entry e, in time: it may leave any store path that it
\* sees in its inputs or that its arguments name (pkgs_store_path in a recipe,
\* the tools of a wrapper), in a file or in the target of a link.
Builds(e, mentioned, links) ==
  /\ mentioned \subseteq Realized
  /\ links \subseteq mentioned
  /\ bytes' = [bytes EXCEPT ![e] = mentioned]
  /\ linked' = [linked EXCEPT ![e] = links]

\* A package rule: analysis of the target and its build action.
Package(t, e, runtime, tool, reference, build, isForeign, mentioned, links) ==
  LET inputs == runtime \cup tool \cup reference \cup build
  IN /\ e \notin Realized
     /\ Define(t, Metadata(e, t, inputs, runtime, tool, reference, isForeign))
     /\ Builds(e, mentioned, links)
     /\ isForeign => Cardinality(foreign) < MaxForeign
     /\ foreign' = IF isForeign THEN foreign \cup {e} ELSE foreign
     /\ UNCHANGED published

\* The outputs of the package p that are resolved already, p's own first.
Siblings(p) == {q \in Analysed : info[q].package = p}

\* _split_output_metadata: an output that is split off package p. Its inputs
\* are those of p; its closures come from inputs and from sibling outputs.
\* Foreign packages are the prebuilt ones of bootstrap/foreign_seed, which
\* have no split outputs.
SplitOutput(t, p, e, runtime, tool, reference, mentioned, links) ==
  /\ p \in Analysed
  /\ info[p].package = p
  /\ info[p].entry \notin foreign
  /\ e \notin Realized
  /\ runtime \cup tool \cup reference \subseteq info[p].inputs \cup Siblings(p)
  /\ Define(t, Metadata(e, p, info[p].inputs, runtime, tool, reference, FALSE))
  /\ Builds(e, mentioned, links)
  /\ UNCHANGED <<foreign, published>>

\* Mutants: the stamp of the scan is not handed on; the wrong list is scanned;
\* a foreign runtime closure is discharged too.
SeedCutDropsStamp(t, p) ==
  /\ p \in Analysed
  /\ info[p].foreignRuntime = {}
  /\ Define(t, [info[p] EXCEPT !.foreignBuild = {}, !.package = None])
  /\ UNCHANGED <<bytes, linked, foreign, published>>

SeedCutScansRuntime(t, p) ==
  LET scan == [kind |-> "cut", tree |-> info[p].entry, entries |-> info[p].foreignRuntime]
  IN /\ p \in Analysed
     /\ info[p].foreignRuntime = {}
     /\ Define(t, [info[p] EXCEPT !.foreignBuild = {}, !.checks = @ \cup {scan},
                                  !.package = None])
     /\ UNCHANGED <<bytes, linked, foreign, published>>

SeedCutForgetsRuntime(t, p) ==
  LET scan == [kind |-> "cut", tree |-> info[p].entry, entries |-> info[p].foreignBuild]
  IN /\ p \in Analysed
     /\ Define(t, [info[p] EXCEPT !.foreignBuild = {}, !.foreignRuntime = {},
                                  !.checks = @ \cup {scan}, !.package = None])
     /\ UNCHANGED <<bytes, linked, foreign, published>>

\* pkgs_seed_cut: the foreign build inputs of p are discharged by a scan of
\* its tree for them. Analysis refuses a foreign runtime closure. (A rule may
\* name further forbidden packages; the cut does not depend on them.)
SeedCut(t, p) ==
  LET scan == [kind |-> "cut", tree |-> info[p].entry, entries |-> info[p].foreignBuild]
  IN /\ p \in Analysed
     /\ info[p].foreignRuntime = {}
     /\ Define(t, [info[p] EXCEPT !.foreignBuild = {}, !.checks = @ \cup {scan},
                                  !.package = None])
     /\ UNCHANGED <<bytes, linked, foreign, published>>

\* pkgs_validated_output: a scan for store paths that are not declared.
ValidatedOutput(t, p) ==
  LET scan == [kind |-> "declared", tree |-> info[p].entry, entries |-> info[p].reference]
  IN /\ p \in Analysed
     /\ Define(t, [info[p] EXCEPT !.checks = @ \cup {scan}, !.package = None])
     /\ UNCHANGED <<bytes, linked, foreign, published>>

\* The scan for forbidden paths steps over symbolic links, the scan for
\* undeclared ones reads their targets.
InFiles(e) == bytes[e] \ linked[e]

Passes(c) ==
  IF c.kind = "cut" THEN InFiles(c.tree) \cap c.entries = {} ELSE bytes[c.tree] \subseteq c.entries

\* validation_outputs are inputs of every action that exports or certifies.
Verified(t) == \A c \in info[t].checks : Passes(c)

\* pkgs_seed_free of one package with a list of forbidden ones: it certifies,
\* and no other rule uses its stamp.
SeedFree(t, forbidden) ==
  /\ info[t].foreignRuntime = {}
  /\ Verified(t)
  /\ InFiles(info[t].entry) \cap forbidden = {}

manifestOf(t) ==
  [entry |-> info[t].entry, runtime |-> info[t].runtime, tool |-> info[t].tool,
   reference |-> info[t].reference]

\* pkgs_export_store_substitute of any target whose checks pass, and the review
\* that pins its manifest or the rule that imports it.
Publish(t) ==
  /\ t \in Analysed
  /\ Verified(t)
  /\ Cardinality(published) < MaxPublished
  /\ published' = published \cup {manifestOf(t)}
  /\ UNCHANGED <<info, bytes, linked, foreign>>

\* pkgs_hydrated_store_output, pkgs_cas_store_output and
\* pkgs_imported_store_output: the closures of the inputs must be those the
\* pinned manifest declares. Nothing of the seed is tracked behind an import.
Imported(t, m, runtime, tool, reference) ==
  LET tools == runtime \cup tool
      closures == Metadata(m.entry, t, tools \cup reference, runtime, tool, reference, FALSE)
  IN [closures EXCEPT !.build = closures.tool, !.foreignRuntime = {}, !.foreignBuild = {},
                      !.checks = {}, !.package = None]

\* Mutant: the tool closure is not compared.
PinnedImportUnchecked(t, m, runtime, tool, reference) ==
  LET provider == Imported(t, m, runtime, tool, reference)
  IN /\ m \in published
     /\ provider.runtime = m.runtime
     /\ provider.reference = m.reference
     /\ Define(t, provider)
     /\ UNCHANGED <<bytes, linked, foreign, published>>

PinnedImport(t, m, runtime, tool, reference) ==
  LET provider == Imported(t, m, runtime, tool, reference)
  IN /\ m \in published
     /\ provider.runtime = m.runtime
     /\ provider.tool = m.tool
     /\ provider.reference = m.reference
     /\ Define(t, provider)
     /\ UNCHANGED <<bytes, linked, foreign, published>>

\* An input has one role. (A second role adds nothing that one more input
\* with the same closures would not.)
Roles(rs) ==
  {role \in [Analysed -> (rs \cap InputRoles) \cup {"none"}] :
     Cardinality({d \in Analysed : role[d] # "none"}) <= MaxInputs}
In(role, r) == {d \in Analysed : role[d] = r}

\* Scans tell links from files for foreign paths only.
Mentions == {mentioned \in SUBSET Realized : Cardinality(mentioned) <= MaxMentions}
Links(mentioned) == SUBSET (mentioned \cap foreign)

Next ==
  \/ \E t \in Upcoming, e \in Entries \ Realized, isForeign \in BOOLEAN :
       \E role \in Roles({"runtime", "tool", "reference", "build"}) :
       \E mentioned \in Mentions : \E links \in Links(mentioned) :
         Package(t, e, In(role, "runtime"), In(role, "tool"), In(role, "reference"),
                 In(role, "build"), isForeign, mentioned, links)
  \/ \E t \in Upcoming, p \in Analysed, e \in Entries \ Realized :
       \E role \in Roles({"runtime", "tool", "reference"}) :
       \E mentioned \in Mentions : \E links \in Links(mentioned) :
         SplitOutput(t, p, e, In(role, "runtime"), In(role, "tool"), In(role, "reference"),
                     mentioned, links)
  \/ \E t \in Upcoming, p \in Analysed : SeedCut(t, p) \/ ValidatedOutput(t, p)
  \/ \E t \in Analysed : Publish(t)
  \/ \E t \in Upcoming, m \in published, role \in Roles({"runtime", "tool", "reference"}) :
       PinnedImport(t, m, In(role, "runtime"), In(role, "tool"), In(role, "reference"))

Spec == Init /\ [][Next]_vars

-----------------------------------------------------------------------------
\* The closures of a provider nest, so that the manifest exported from it is
\* one validate_manifest accepts: what is needed to run is among what is
\* needed to use it as a tool, and both are among the references.
ClosuresNested ==
  \A t \in Analysed :
    /\ info[t].entry \in info[t].runtime
    /\ info[t].runtime \subseteq info[t].tool
    /\ info[t].tool \subseteq info[t].reference

\* An entry has one set of closures, whichever target provides it: wrappers,
\* and imports of what the live graph once published, agree with the producer.
EntryDeterminesClosures ==
  \A t, u \in Analysed : info[t].entry = info[u].entry => manifestOf(t) = manifestOf(u)

\* A reference closure is closed: each entry in it is provided by some target
\* whose own references are in it too. This is what makes the objects of an
\* exported closure pass validate_closure.
ReferencesClosed ==
  \A t \in Analysed : \A e \in info[t].reference :
    \E u \in Analysed : info[u].entry = e /\ info[u].reference \subseteq info[t].reference

\* No foreign entry hides in a runtime closure, which is all that pkgs_seed_cut
\* and pkgs_seed_free look at: foreign_runtime_entries has the foreign part of
\* it through splits, cuts and wrappers, but for what an import brought in: then
\* the object imported is in that closure too, and its manifest names the entry.
ForeignRuntimeTracked ==
  \A t \in Analysed :
    /\ info[t].foreignRuntime \subseteq info[t].runtime \cap foreign
    /\ \A f \in (info[t].runtime \cap foreign) \ info[t].foreignRuntime :
         \E m \in published : m.entry \in info[t].runtime /\ f \in m.runtime

\* BOOTSTRAP.md: "closure metadata must not include foreign-seed store paths".
\* It is said of final outputs: those pkgs_seed_free accepts.
SeedFreeMetadata ==
  \A t \in Analysed : SeedFree(t, foreign) =>
    (info[t].runtime \cup info[t].tool \cup info[t].reference) \cap foreign = {}

\* Every foreign entry of a build closure is still tracked, or was discharged
\* by a scan this target insists on, or was accepted at a publication.
ForeignBuildAccounted ==
  \A t \in Analysed : \A f \in info[t].build \cap foreign :
    \/ f \in info[t].foreignBuild
    \/ \E c \in info[t].checks : c.kind = "cut" /\ f \in c.entries
    \/ \E m \in published : f \in m.tool

\* The scan of a cut that t relies on could not meet f: f is itself a tool, or
\* mentioned by a link, or by another tree of the tool closure.
PastCut(t, f) ==
  \E c \in info[t].checks :
    /\ c.kind = "cut" /\ f \in c.entries
    /\ \/ f \in linked[c.tree]
       \/ \E u \in Analysed : \E e \in info[u].tool :
            info[u].entry = c.tree /\ (e = f \/ (e # c.tree /\ f \in bytes[e]))

\* f came in with the tool closure of a published object.
PastImport(f) == \E m \in published : \E e \in m.tool : e = f \/ f \in bytes[e]

\* A recipe named f in an argument, while no input brings it.
NamedOnly(f) ==
  \E u \in Analysed :
    info[u].package # None /\ f \in bytes[info[u].entry] \ Visible(info[u].inputs)

\* The discharge by scans is sound: when the checks of a target pass, a foreign
\* path that its tree mentions is one its foreign_build_entries still name, or
\* it came past a cut that could not see it, with an import, or by an argument.
BytesTracked ==
  \A t \in Analysed : Verified(t) => \A f \in bytes[info[t].entry] \cap foreign :
    f \in info[t].foreignBuild \/ PastCut(t, f) \/ PastImport(f) \/ NamedOnly(f)
=============================================================================
