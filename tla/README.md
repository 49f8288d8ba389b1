# A verification development for BuckPkgs

BuckPkgs builds packages hermetically with Buck2 and keeps every result as an
immutable, input-addressed object under `/pkgs/store/<key>-<name>`. Finished
objects are exported as *substitutes* (a JSON manifest and a tree archive),
pinned by hash in the repository, and hydrated into the store elsewhere instead
of being rebuilt. This directory holds TLA+ models of that machinery, the TLC
configurations that check them on small instances, and proofs that TLAPS checks
for every instance.

Source paths below are relative to the repository. `PROJECT.json` has the same
facts in machine-readable form: components, runs, the source lines behind every
definition, hazards, findings and theorems.

## 1. Inventory

### Rust tools, `crates/pkgs-tool/src`

**Store publication** (`store_substitute.rs`, `publish_validated_store_object`).
State: the store directory, one lock file and one temporary directory per
entry. Operations: take the lock; reuse the entry if it is there and its tree
has the pinned hash; otherwise clear the temporary directory, expand the
archive into it, seal it bottom-up, rename it to the entry. Interacts with
other hydrators through the lock, and with Buck2's own store materializer,
which publishes by the same kind of rename and takes no lock. Hard: processes
interleave at every system call, are killed anywhere, and the cleanup of a
failure is best effort on directories that are already read-only. Correct when
no reader sees an unfinished tree, an entry never changes, success means the
pinned tree is there, and a retry gets over what an earlier attempt left.

**Closure hydration** (`hydrate_store_closure`, `load_and_verify`,
`validate_closure`). State: a bundle directory of manifests and archives, the
pinned closure manifest, the map of verified objects. Operations: a first pass
hashes and checks every object of the closure; `validate_closure` decides by a
worklist whether the objects are exactly what the roots reach; a second pass
reads each object again and publishes it. Hard: files are read more than once,
publication is object by object, references may loop or dangle. Correct when a
defect anywhere keeps everything out of the store, success means all of it, and
an interrupted hydration can be repeated.

**Export, import, tree archive, CAS manifest** (`export_store_object`,
`export_store_closure`, `import_store_object`, `add_cas_manifest`,
`encode_tree`, `validate_payload`). No state but the files they write. Hard:
writer and reader are separate functions, run by different rules at different
times; the export of a bundle reads every source three times and may stop
between any two writes or in the middle of one. Correct when what one side writes the other accepts and
turns into the same tree, and nothing unfinished passes for a bundle.

**Projection and verification of hydrated objects** (`project_hydrated`,
`verify_hydrated`, `stage_tree.rs`). Read an entry, compare its hash, copy it to
an output. Hard: the entry may change between check and use, and an output left
by a killed run may be taken for a finished one. Correct when what is handed on
is the pinned tree.

**Package builders** (`configure_make_install.rs`, `make_install.rs`,
`meson_install.rs`, `build.rs`). State: the work
directory (source copy, build directory, install root, sealed outputs) and the
destinations Buck2 gives. Operations: obtain a work directory, copy and patch,
configure, make, install, stage the primary and the split outputs, run the
rewriting passes, seal, publish one rename per output. Hard: a work directory
may be what another run left; a run stops anywhere; several outputs belong
together. Correct when only whole trees of one run are published, sealed, but for
the root of the output at which a run stopped, and from the patched source.

**Kernel header builder** (`linux_headers_install.rs`). Writes its output in
place, file by file, without staging or rename. Correct when success leaves the
headers of this run and no others.

**Split staging and rewriting** (`build.rs`: `parse_split_outputs`,
`copy_split_staged_prefix`, the pkg-config, libtool and linker script passes).
State: the output trees while paths are moved between them. Hard: paths of
different outputs may be nested or repeated, and texts name files that have
moved. Correct when each installed file is in the output that declares it and
texts still lead to what they named.

**Tree utilities** (`common.rs`): copying, sealing, opening, time stamps,
scratch directories, command environments.

**Verifiers** (`verify_*.rs`): one pass over a tree each, for forbidden or
undeclared store paths, policy violations, ELF interpreters, archive metadata,
equality with a replayed build. Hard: shortcuts and cursors over bytes (a common
prefix that is searched first, a scan that resumes behind a match, padding of
archive members). Correct when a stamp is written exactly if the tree is clean.

**Source composition, compiler and binutils wrappers** (`compose_sources.rs`,
`cc_wrapper_tree.rs`, `bintools_wrapper_tree.rs`): write one tree from others.

### Buck2 rules, `rules/`

**Package graph** (`pkgs.bzl`, `PkgsPackageInfo`). State: per target, its store
entry; build, runtime, tool and reference closures; the foreign (bootstrap
seed) entries still in its runtime and build closures; stamps of verification
actions its users must wait for. Operations: every rule computes the provider of
its target from those of its inputs. Split outputs, seed cuts, validated
outputs, exports and pinned imports each copy, reset or recompute some of the
fields. Hard: the fields must agree over long chains of rules, and what is
claimed at analysis time is only justified by an action that runs later; actions
are handed more trees than the provider names, recipes may name store paths that
are no inputs, and imports start without foreign entries.
Correct when closures nest, are closed and agree between targets, and when a
foreign entry is lost from sight at known places only.

**Closure lists and split output resolution** (`_collect_closure`,
`_collect_store_outputs`, `_split_output_metadata`). The closures are ordered
lists, kept parallel to lists of artifacts and zipped with them; split outputs
that depend on each other are resolved in as many passes as there are outputs.
Correct when the lists stay parallel and exactly the graphs without a cycle
resolve.

**Store path identity** (`_package_instance_digest`), **toolchains**, **island
visibility**: strings and tables, without state.

### Data and environment

Recipes (`BUCK` files), bootstrap stages, pinned substitutes. Buck2 itself, its
store materializer and the CAS are outside the repository and appear as
external actions.

### Interaction in one picture

    recipes --> pkgs.bzl providers --> builder actions --> store output
                     |                                        |
                     | seed_cut / validated_output            | export
                     v                                        v
              verification stamps ----------------> manifest + archive
                                                              | review, pin
    pinned import <-- store entry <-- publish <-- hydrate <-- bundle

## 2. Plan

What the plan had is here. Modules in the order they were written, the most
important behaviour first, each with the modules it composes:

1. `AtomicStore`, `StorePublish`: the promise of the store, the protocol behind
   it, a refinement between them. Proofs: `StorePublishProofs`.
2. `StoreClosure`, `ClosureValidation`: the worklist against the declarative
   definition. Proofs: `ClosureValidationProofs`.
3. `ClosureHydration`: composes the two above, and implements `StorePublish`.
   Proofs: `ClosureHydrationProofs`, with a stable bundle first and then with a
   bundle that changes.
4. `PackageGraph`: the providers of any small graph. Proofs:
   `PackageGraphProofs`. `ClosureLists`: the ordered lists behind its sets, and
   the resolution of split outputs. Proofs: `ListProofs`, on the lemmas about
   lists, folds, sorting and paths in `ListLemmas`.
5. `PackageBuild`: builder runs and their leavings. Proofs:
   `PackageBuildProofs`. `HeadersInstall`: the builder that writes in place.
6. `TreeArchive`, `ObjectManifest`, `BundleExport`: writer and reader of each
   kind of file. Proofs: `ListProofs` (`TreeArchive`, `ObjectManifest`),
   `OutputProofs` (`BundleExport`).
7. `SplitOutputs` and, on top of it, `OutputRewrites`; `ComposeSources`,
   `HydratedUse`, `TreeVerifiers`, `TreeCompare`. `Trees` has the operators on
   directory trees they share, `Orders` the sorting. Proofs: `OutputProofs`, for
   all of these and for `HeadersInstall`.

Section 8 says what is left out and why.

## 3. Modules and code

| Module | Models | State | Actions |
| --- | --- | --- | --- |
| `AtomicStore` | what publication promises | entry -> tree, calls and answers | `Call`, `Publish`, `Reuse`, `Reject`, `Exit`, `Materialize` |
| `StorePublish` | `publish_validated_store_object` as `hydrate_store_object` calls it | `dest`, `temp`, `lock`, per hydrator `pc`, `job`, `payload`, `error` | one per system call that others can observe |
| `StoreClosure` | validity of a closure, declaratively | none | none |
| `ClosureValidation` | `validate_closure` | worklist, reached set, verdict | `CheckRoots`, `MissingRoot`, `Skip`, `Visit`, `MissingReference`, `Finish` |
| `ClosureHydration` | `hydrate_store_closure` | that of `StorePublish`, the bundle, per hydrator its pass and verified map | both passes, the store steps between them, the bundle being replaced |
| `PackageGraph` | provider computation of `pkgs.bzl` | `info` (target -> provider), `bytes` (entry -> entries its tree mentions), `linked` (those in links only), `foreign`, `published` | `Package`, `SplitOutput`, `SeedCut`, `ValidatedOutput`, `Publish`, `PinnedImport` |
| `ClosureLists` | `_collect_*`, `_store_outputs_for_entries`, exports, imports, `_split_output_metadata` | `info`, `manifests`, the last import, the split being resolved | `Package`, `Wrap`, `Export`, `PinnedImport`, `BeginSplit`, and one per branch of the pass |
| `PackageBuild` | the configure/make/install builders | work directory, staged outputs, destinations | one per phase of `run`, and one per output in the staging, sealing and publishing loops |
| `HeadersInstall` | `linux_headers_install.rs` | the output, file -> run that wrote it | one per phase, and one per file copied or removed |
| `Orders` | the sorting of names and store paths | none | none |
| `Trees` | listing, copying and removal of trees | none | none |
| `TreeArchive` | `encode_tree`, `validate_payload`, `materialize_validated_payload` | records read, open directories, verdict | one record accepted or rejected per step |
| `ObjectManifest` | `export_store_object`, `add_cas_manifest`, `validate_manifest`, `import_store_object` | the manifest, what an importer expects, the answer | one per tool, and a manifest pinned by hand |
| `BundleExport` | `export_store_closure` | source files, verified manifests, pinned hashes, the bundle, its index | one per file read or written, stops, changes of sources |
| `SplitOutputs` | `parse_split_outputs`, `copy_split_staged_prefix`, links, exclusion | declared paths, installed tree, outputs | one per path moved, per output linked |
| `OutputRewrites` | the passes over pkg-config files, libtool archives, linker scripts | that of `SplitOutputs`, one followed text | what the build wrote, one per pass |
| `ComposeSources` | `compose_sources.rs` | sources, paths to merge, the output | copy, descend, conflict |
| `HydratedUse` | `project_hydrated`, `verify_hydrated`, `stage_tree.rs` | entry, output, stamp, the run | reads and copies that take time, damage, failure |
| `TreeVerifiers` | the five verifiers that walk one tree | paths to visit, the stamp | one entry per step |
| `TreeCompare` | `verify_reproducible_tree.rs` | two trees, paths to compare | one entry per step |

`MC*` modules give constants their values; `*Proofs` modules hold theorems.
Definitions marked *Mutant* stand before the definition they vary; they are the
plausible mistakes each property was tried against and are used by no
specification.

**StorePublish.** A tree is a model value. The stages of a directory
(`partial`, `written`, `sealing`, `sealed`) are those `remove_dir_all`, the
hash check and a reader can tell apart. The expansion is three steps, so that a
crash can fall between any two of them. `Removable` is the rule of
the file system: without privilege nothing can be unlinked in a read-only
directory, so residue that was sealed cannot be removed. `Privileged` chooses
the caller. `Materialize` is Buck2's own publication (external).

**ClosureHydration** extends `StorePublish` and reuses its steps; only
`load_payload` differs, since `hydrate_store_closure` reads the bundle again
there. The bundle is `manifestOf` and `archiveOf`; `RefetchManifest` and
`RefetchArchive` replace a file of it. A manifest hash stands for the manifest.

**PackageGraph** works on sets where the code keeps ordered duplicate-free
lists; `ClosureLists` has the lists. Targets are analysed in numeric order,
which loses nothing: an input precedes its user. What an output mentions
(`bytes`) is any set of realized entries: a build action is handed the trees of
the whole tool closures of its inputs (`Visible`), and a recipe may name the
store path of any package in an argument (`pkgs_store_path`), input or not. Both
are wider than most rules need, so that the model has every leak the rules have
and some more. `linked` has those of the entries that only targets of symbolic
links mention, which the scan for forbidden paths steps over (`InFiles`) and the
scan for undeclared ones reads. `Publish` is an export of any target whose checks
pass, as the rule has it: neither `pkgs_seed_free` nor `pkgs_validated_output` is
asked for (`bootstrap/tests` exports and imports a plain package), and an import
resets the foreign lists. `SeedFree` is what `pkgs_seed_free` certifies; nothing
depends on its stamp. Each input has one role. Foreign packages have no split
outputs: the seed's packages are the prebuilt ones of
`bootstrap/foreign_seed/defs.bzl`.

**ClosureLists.** The runtime, tool and reference lists of a provider are made
by the same functions from ever more inputs, so one list stands for them. Store
entries are numbers, whose order is that of the names; an artifact is the pair
of the target that declares it and its entry, so that an import and a build of
one entry have different artifacts. Splits are resolved for the package analysed
last, pass by pass and output by output, with unknown and cyclic declarations.

**PackageBuild** is `configure_make_install.rs`; `make_install.rs` and
`meson_install.rs` are the same machine without `--work-dir`, that is, with the
scratch and temporary kinds of work directory only. Commands are one step each
with a possible failure; a tree records its run, the state of the source it was
built from, whether all passes ran over it and whether it is sealed. What is
already in a staging directory stops the copy, as `create_dir` and `symlink` do,
unless the output is one declared as a list of plain files (`flat`, chosen for a
whole behaviour): the directories above those are made with `create_dir_all`, and
the files are overwritten if they are not sealed or the builder is privileged
(`CanStage`). `make` is assumed to build what its source says. Whether the
builder has the privilege is chosen with the kind of work directory, for a whole
behaviour.

**The tools on trees.** A tree is a function from paths to nodes, a name is a
number (so that `<` is the order of `sorted_dir_entries`), and the data of a file
is what the tool at hand reads in it: nothing, a few bytes, the tables of an ELF
file, the members of an archive. The decoding of header fields is abstracted.
`TreeArchive` builds the payload from the reader's side, one arbitrary record
after the other, so that it need not come from the writer. `ObjectManifest` keeps
the lists as lists, since sorting and removing duplicates is what the two sides
must agree on. A manifest pinned by hand has any lists, repetitions
included, which `validate_manifest` has to refuse. `BundleExport` writes the index
in two steps, since `write_file` creates a file before it fills it. `HydratedUse` splits a read into its begin and its end, between
which the entry may change. `OutputRewrites` follows one name in one file:
the passes treat every file and name by itself.

## 4. Runs

Bounds are the smallest at which the interesting cases occur; each was raised
once to see that nothing new appears within the time a run should take.

| Run | Shows | Instance |
| --- | --- | --- |
| `publish_store` | the store is complete, immutable, and success means the pinned tree; `StorePublish` implements `AtomicStore` | 3 unprivileged hydrators, 2 entries, 3 manifests of which two conflict, Buck2 publishing, 1 crash, 1 fault |
| `publish_liveness` | retries publish, failures clean up | 2 privileged hydrators, 1 entry, 2 crashes, 1 fault |
| `publish_residue` | violation, see findings | 2 hydrators, 1 entry, 1 crash |
| `closure_validation` | the worklist terminates with the declarative verdict | every closure over 3 paths |
| `closure_hydration` | defects publish nothing; success is the whole pinned closure; refines `StorePublish` | 2 hydrators, 5 closures (1 good), every bundle over 4 manifests and 2 trees, 1 crash, 1 fault, Buck2 publishing |
| `closure_liveness` | every hydration ends, retries complete, and success means a whole object under every path | 2 privileged hydrators, a bundle that is sound at the start, 1 crash, 1 replaced file |
| `closure_stale` | violation, see findings | 1 hydrator, 2 replaced files |
| `package_graph` | closures nest, are closed, agree; foreign runtime entries are tracked or in the manifest of an imported object; foreign build entries are tracked, scanned for or accepted; foreign bytes are tracked or came past a known gap | every graph of 4 targets, 3 realizations, 2 of them foreign, 2 inputs per target, 1 publication; every chain of 5 targets that begins with a foreign package, 4 realizations, 1 tool or build input per target; 1 path mentioned per tree |
| `package_graph_foreign` | violation, see findings | the same |
| `package_build` | only whole outputs of one run are published, sealed but perhaps for the last root, from the patched source; retries succeed | 5 runs, 2 split outputs, 3 kinds of work directory, with and without privilege, 2 faults, 2 kills |
| `package_build_reuse` | violation, see findings | 2 runs |
| `sequential_parts` | one property per tool and three of the lists, see below | see below |

The parts of `sequential_parts` share no state. A behaviour first chooses a part
(the variable `part`) and then only that part takes steps, so the state spaces
are added; all of it is one run of some 900,000 states.

| Part | Property | Instance |
| --- | --- | --- |
| `TreeArchive` | `PayloadLanguage` | every payload of up to 5 records over 2 names and depth 3 |
| `ObjectManifest` | `ImportAgrees` | lists of up to 2 of 2 store paths at the exporter, the reviewer and the importer, in any order and with repetitions |
| `BundleExport` | `IndexedBundleHydrates` | 2 slots, 4 manifests over 2 entries, 2 trees, 1 source change at any moment, stops and repetitions |
| `SplitOutputs`, `OutputRewrites` | `EachFileInItsOutput`, `NamesFollowFiles` | 2 split outputs with 7 lists of disjoint, nested and repeated paths each, every installed tree of 2 levels, links, exclusions |
| `ComposeSources` | `CompositionIsUnion` | every pair of trees of 2 levels with directories, read-only directories and files |
| `HydratedUse` | `UsedIsPinned` | 3 runs of any of the three tools, 2 changes of the entry, outputs cleared or not |
| `TreeVerifiers` | `VerdictsExact` | every small tree, and every single file: texts of up to 4 chunks, ELF tables of up to 3 entries, archives of up to 6 cells |
| `TreeCompare` | `StampedMeansSame` | every pair of trees of 2 levels, and of one level with every kind, mode and time |
| `HeadersInstall` | `HeadersOfOneRun` | 3 runs, 2 headers, 1 other file, outputs cleared or not |
| `ClosureLists` | `ListsParallel`, `ImportVerdictExact`, `SplitResolutionExact` | 4 targets over 3 entries with up to 2 inputs in any order; every declaration graph of 3 split outputs, unknown names included |

Two hydrators are enough for publication because everything they share is per
entry and behind one lock; the third in `publish_store` is there to let one
wait while two others hand the lock on. Two trees suffice to tell the pinned
bytes from any others. Two entries suffice for a closure to be partly there.
Three paths give the worklist cycles, a dangling and an unreachable object at
the same time. A graph needs a seed, a package, its cut or validation, and a
user: four targets, and a chain of references needs three realizations. Whether a
cut can hide what lies deeper in a tool closure takes five targets over four
realizations (a foreign package, a tool built with it, a package with that tool,
its cut, a user of the cut). `MCPackageGraph` has both as instances of
`PackageGraph`, between which a behaviour chooses at the start. Builder runs need
one more than the failures before them. Three split outputs give the resolution
a chain declared in the wrong order, which needs all its passes, and cycles of
every length; they are split off a package with one input, the only thing a
second input would change being the order `ListsParallel` covers already. Depth
3 and 5 records let the archive reader leave a directory, enter another and
come back.

The type invariants of `PackageGraph`, `PackageBuild` and `ClosureHydration` are
proved (section 6) and no run repeats them. Deadlock checking is off where the
system stops by design: a returned `validate_closure`, a graph with no target
left, a builder out of runs, a tool that is done. Symmetry is used over
hydrators and entries in safety runs only.

## 5. Fairness

`StorePublish` and `ClosureHydration`: weak fairness of the steps of a running
process (it keeps running unless killed, and kills are bounded), strong fairness
of `AcquireLock`, because `flock` wakes its waiters and a hydrator that waits
while the lock is free again and again gets it. No fairness is given to calls,
crashes, faults, Buck2 or the replacement of bundle files: `RetriesPublish` and
`RetriesHydrate` assume in their statement that somebody keeps calling, and the
latter that the bundle is sound. `closure_liveness` starts from a sound bundle
and adds no fairness to that of `ClosureFairness`. `HydrationEnds` has no such
premise: no hydrator waits forever, for the lock or for anything else.
`ClosureValidation`: weak fairness of the loop, a sequential program.
`PackageBuild`: weak fairness of a running builder and of starting it again
while the package is not built, which is what Buck2 or a person does; only
`RetriesBuild` depends on the latter. The sequential parts state safety only:
each of their loops consumes a finite list, and what they write is right or
wrong when they end.

## 6. Proofs

TLAPS checks these for every value of the constants, assuming only the named
assumptions at the head of each module (types of the constants, and that `None`
is none of the values it is told from).

**StorePublishProofs.** `PublishedComplete` and `OkMeansPinned` are not
inductive: a rename publishes whatever the temporary name holds, so one must
know that it holds the hydrator's own sealed tree (`OwnTemporary`), which needs
the lock from the first look at the entry to the rename (`LockHeld`), a cleared
temporary name before the expansion (`ClearedTemporary`), and a payload that is
the pinned one (`PayloadPinned`); `JobKnown` ties control state and request.
Their conjunction `IInv` is inductive (`Invariance`); `TypeCorrect`,
`StoreIsComplete`, `SuccessIsPinned` and `TemporaryIsOwn` follow. The part of it
that does not say which payload was loaded is kept apart as `Held`, for the
bundles that change. `Immutability` is an action property from the same
invariant, and so is `FailureIsClean`, under the assumption `Privileged`.
`Refinement` maps what a reader sees under an entry to the abstract
store and shows that `Rename` and the reuse and reject steps are the abstract
operations and all other steps stutter.

**ClosureValidationProofs.** `Reach` is the least set closed under references.
`WalkInvariant` says that the worklist and the reached set lie within it and
that together they are closed as far as the worklist is served; when it is empty
the reached set is closed, hence equal to `Reach`, and the comparison in the
code is the comparison of the definition (`ValidationCorrect`). `WorklistTyped`
shows that the lookup at the head of the loop cannot fail.

**ClosureHydrationProofs** assume `[]Stable`: no file of the bundle is replaced.
(`closure_stale` shows what happens otherwise.) `ClosureInv` joins `IInv` with an
invariant per hydrator: in the first pass the verified objects are sound, pinned,
and exactly those no longer to do (`Verifies`); in the second the whole closure
is sound and what is not to do any more is in the store (`Publishes`); every call
of the store protocol is for an object of the closure (`Calls`). From it:
`ClosureRefinement` (every step is one of `StorePublish` or a stutter),
`HydratedIsPinned`, and `DefectsPublishNothing`.

Its second part drops the hypothesis. `RefetchInv` is `Held` and, per
hydrator, that what is no longer to do has some whole object in the store.
`HydratedIsPresent`: whatever files are replaced, and when, success leaves no
path of the closure without a whole sealed tree. `RefetchTypeCorrect`: type
correctness of all of `ClosureHydration`.

**PackageGraphProofs.** Every step that analyses a target either realizes a
fresh entry or repeats the closures of a provider that is there (a wrapper's
package, or the producer of a pinned manifest): `Grows` states this, one lemma
per action shows it, and one lemma shows that it keeps the invariant. Beyond the
properties the invariant needs that closures hold realized entries only (else a
fresh entry could already sit, untracked, in an old closure) and that every
published manifest has a producer that is still there (an import resets the
tracking, and what it forgets is in that manifest). Proved: `GraphTyped`,
`ClosuresAlwaysNested`, `ClosuresAgree`, `ReferencesAlwaysClosed`,
`ForeignRuntimeAlwaysTracked`.

The second part follows foreign entries. `ForeignInv` adds to that invariant, per
target, what its pending checks know (a scan for undeclared paths knows exactly the
references of its tree), what a target still names (its siblings name it too,
since it comes from their common inputs), and that a build closure and the bytes
of a tree hold past entries only. `BytesTracked` speaks of the tree of one target
and is not inductive, because a user of that target is handed the trees of its
whole tool closure: `ToolFollowed` says of all of them what `BytesTracked` says of
the first. Proved: `ForeignBuildAlwaysAccounted` and `BytesAlwaysTracked`. Both
are unconditional. What they allow is named in the properties: a cut whose scan
could not meet the path, since it is itself a tool, in a link, or in another tree
of the tool closure (`PastCut`); an imported object whose tool closure has it
(`PastImport`); an argument of a recipe (`NamedOnly`).

**PackageBuildProofs.** The invariant follows a run through its loops: which
outputs the staging loop has staged, the sealing loop sealed and the publishing
loop renamed, as a function of `pc` and `next`, whatever an earlier run left in
the outputs the loops have not come to. `RootsInOrder` is what `PublishedWhole` needs
beyond that: outputs appear in order, and a root is writable for the last one
only. Proved for any number of runs, outputs,
faults and kills: `TypeCorrect`, `DestinationsWhole`, `OneRunPublishes`,
`SuccessIsComplete`, `FreshIsPatched`.

**ListLemmas** has what the proofs about lists and trees keep needing. Numbers
are handled through the least element of a set (`LeastNat`, `Induction`, which
states the principle for a set and not for an operator). `FoldExists` shows that
the function which the folds of the library choose exists, for any finite set
and any operation, and `FoldSteps` that it folds one element at a time;
`FirstPositions`, `JoinElements` and `FlattenElements` conclude what removing
duplicates and concatenating do to the elements of a list. `InOrderProperties`
and `OnlyInOrder`: sorting a finite set gives one list without repetitions, and
no other list is strictly ascending over that set. The lemmas about paths say how
a tree is made of its root and the subtrees of its entries (`BelowChild`,
`EntriesAreChildren`, `AboveIsThere`, `CopyOfSubtree`, `ApartEntries`).

**ListProofs.** For `ObjectManifest`, `ManifestInv` says that the lists are
sequences and that, once an import has answered, it has accepted exactly a valid
manifest that is the expected one; `ImportsAgree` then needs that an expectation
put into canonical order is equal to the manifest's list exactly if it has the
same elements, for lists of any length, order and repetitions. For `ClosureLists`, `ListsInv` joins: every provider's entries and
artifacts are parallel and the artifacts belong to analysed targets; every
manifest is canonical; and for the split in progress (`SplitSound`) what is
resolved has only resolved declarations and a closure in their order, and each
pass but the last resolves something unless nothing is left to resolve (the
number of passes done bounds the number resolved from below). A graph with a
cycle keeps its cycle unresolved, and a graph without one has an unresolved
output all of whose declarations are resolved, so that a pass without progress
means a cycle. Proved for any number of targets, entries and outputs:
`ListsStayParallel`, `ImportVerdictsExact`, `SplitResolutionsExact`.

For `TreeArchive` the order of an archive is defined without recursion: `Precedes`
puts a directory before what is in it and a lesser sibling, with all below it,
before a greater one. It is a strict order, so records with given paths have one
arrangement in it (`OnePreorder`). `EncodeInPreorder`: for every finite tree the
recursion of `encode_tree` ends (`ListsExist`, by the length of the longest path),
has one solution, and writes one record for each path, in that order. So a list of
records is an encoding exactly if it lists the tree it unpacks to (`ListsTree`,
`EncodingLists`). The reader knows the order only through its stack: `ReaderInv`
says that the open directories are those on the way to the last entry, each with
the child listed last (`StackOf`), and `InPlaceExact` that a record then passes
the test of `validate_payload` exactly if its parent is a directory that has been
listed and it comes after every record read. With the checks of one record
(`WellFormed`) these are the records that keep the list an encoding
(`NextRecord`), hence `ReaderSpeaksForWriter`, for any names, depth and number of
records.

**OutputProofs**, one part per tool:

- `HydratedUse`. `UseInv` says where in its run each tool has established what
  (the copy is sealed before it is compared, a stamp is one step behind its
  check); `UseIsPinned` follows for any number of damages and runs.
- `HeadersInstall`. `HeadersInv`: without an include directory a cleared output
  is empty; from the directory on everything in it is of this run, at first some
  files of the kernel's `usr/include`, then all of them and others still to be
  removed, at last exactly the headers. `HeadersAreOfOneRun`.
- `BundleExport`. `ExportInv`: what was verified is what the files had then, and
  have still, while the export runs, if none was replaced during it; the pinned
  hashes and the bundle agree with it slot by slot, and a readable index is only
  behind all of it. `IndexStandsForBundle`: what a readable index names is in the
  bundle, always; that the bundle hydrates is said of exports during which no
  source changed. (A change between the hash and the copy makes a bundle that a
  hydration refuses.)
- `TreeCompare`. `CompareInv`: whatever may differ between the two trees lies
  at or below a path that is still to be compared, and everything above such a
  path agrees. When no path is left the trees are equal; `StampMeansSame`.
- `ComposeSources`. `ComposeInv`: the output is the union of the sources before
  this one and of what of this one is not at or below a path still to be
  merged; the paths to be merged are apart from each other, so that serving one
  does not disturb another. `ComposedIsUnion`.
- `SplitOutputs`. `SplitInv`, while paths are being taken: the primary output is
  exactly what was copied without what is at or below a path that was taken
  (`PrimaryHas`), and each split output has exactly the kept files at or below
  the paths it took (`SplitsHave`). Declared paths are disjoint, so that at most
  one covers a file (`OneCover`) and `Owner` does not depend on a choice; when
  the last path is taken the two parts are `EachFileInItsOutput`
  (`AllInPlace`), and links and exclusions keep it. `FilesAreInTheirOutputs`.
- `OutputRewrites`. `RewriteInv` adds that every declared path is in its output,
  as a directory exactly if it was installed as one (`PathsThere`: the passes
  look at the output to decide what a token may name), and that a text not yet
  rewritten names its target under the primary prefix. An algebra of names
  (`Leads`) does the rest: a projected name leads to the owner of its target
  (`OntoOwner`), and making a name relative, to its own directory or to another
  output, does not change where it leads (`SiblingLeads`, `UpAcross`,
  `ScriptLeads`). `TextsFollowTheSplit`.
- `TreeVerifiers`. First, that each scan finds what a search anywhere would
  (`AcceptedIsClean`): the common prefix of the forbidden words begins each of
  them, so that looking only where it stands misses none (`ForbiddenRefs`); no
  store path begins inside the prefix of a declared one, so that going on behind
  it misses none (`DeclaredRefs`); a prefix without a slash at its end covers
  exactly the paths whose names begin with its names (`PrefixesAreBelow`); the
  members met one after the other tile the archive (`ArchivesTiled`). The scans
  are folds and recursive functions of a position, and the proofs go by
  induction on it. Then `VerifyInv`: an entry is accepted
  already or lies at or below a path still to visit, and a refusal has an entry
  that was not accepted. `VerdictsAreExact`.

All but the first three rest on the lemmas about paths and trees. They assume of
the constants that each tree is finite and has a directory above every path
(`TreePairsAssumption`, `SourcesAssumption`, `InstalledAssumption`,
`PoliciesAssumption`), as a disk has, that the links made here are told from
installed ones, and that of the paths given for links none is above another
(`PathsAssumption`). The verifiers are given the arguments `pkgs.bzl` gives
them: declared references are whole store entries (`rules/pkgs.bzl:1976`),
allowed prefixes are store paths (`rules/pkgs.bzl:1856`), which end in no slash.
A caller with other arguments could declare a root that holds another store path
in its name, or allow a prefix with a slash at its end, below which
`is_under_runtime_prefix` finds nothing.

Only model-checked: liveness (`RetriesPublish`, `Terminates`, `HydrationEnds`,
`RetriesHydrate`, `RetriesBuild`), since fairness is out of the prover's reach,
and the violations. Every safety property of the passing runs is a theorem.

## 7. Findings

- `publish_residue`: a hydrator without privilege that is killed between
  sealing and renaming leaves a temporary tree that no later hydrator can
  remove, so the entry is blocked (`store_substitute.rs:685`).
- `closure_stale`: bytes the closure does not pin reach the store when bundle
  files are replaced between the passes (`store_substitute.rs:820`).
- `package_graph_foreign`: `pkgs_seed_free` looks at foreign runtime entries
  only, so what it certifies may name foreign entries among its tools or
  references (`rules/pkgs.bzl:1687`).
- `package_build_reuse`: `--reuse-work-dir` trusts the work directory of a run
  that failed while copying or patching (`configure_make_install.rs:192`).

Three neighbours of these have no run of their own. The scan for forbidden paths
steps over symbolic links (`verify_no_refs.rs:56`), so `pkgs_seed_free` certifies a
tree with a link into the foreign seed; `BytesTracked` has it among its exceptions. `FailureRemovesTemporary` is
checked with privilege and fails without it: a hydrator that loses the rename
leaves its sealed temporary tree, and the failed cleanup is dropped
(`store_substitute.rs:696`). And a failure in the second pass of a closure
hydration leaves the objects before it in the store (`store_substitute.rs:813`);
`RetriesHydrate` shows that a retry completes them.

Behaviours no document speaks of, so that they are no findings; the properties
are stated around them:

- The scratch directory of a builder has the weakness of `publish_residue` too.
  `RetriesBuild` asks for a privileged builder there; without privilege a sealed
  output left in the scratch directory makes `remove_dir_all`, and so every later
  run, fail until something else clears it.
- `validate_payload` accepts an archive without records, which then fails to
  materialize, and paths spelled with a `.` component; `PayloadLanguage` is up to
  both.
- A declared split path strictly above a selected path takes the selected part
  only (`Kept` in `SplitOutputs`).
- A pkg-config variable whose directory moved to a split output loses a
  subdirectory below it; a linker script at the root of an output keeps absolute
  names of its neighbours; `NamesFollowFiles` covers the other cases.
- Search paths of ELF files are compared as text: `..` and `$ORIGIN` are not
  resolved, and relative paths pass. Allowed prefixes are assumed to have no
  trailing slash. A malformed ELF file is no ELF file to the verifier.
- The scan for undeclared paths resumes behind a match, so that it relies on a
  store prefix that does not overlap itself.
- `verify_elf_interpreters` and `verify_archive_metadata` do not look at symbolic
  links, no more than `verify_no_refs`; `VerdictsExact` is stated so, and is no
  check of it.
- A seed cut scans the tree of its package only, while the users of the package
  are handed the trees of its whole tool closure; an import starts with empty
  foreign lists; a recipe may name a package that is no input. `BytesTracked` and
  `ForeignRuntimeTracked` have these as their exceptions.
- A builder stopped between the rename of an output and the last change of its
  mode leaves the root of that output writable; `PublishedWhole` says for which
  outputs.

## 8. Not modelled

- *Store path identity* and the encoding of its parts: a hash of joined strings,
  without state. `PackageGraph` assumes that different realizations have
  different entries.
- *Command lines and environments* of configure, make, meson and the kernel's
  make: what they do is external, and the order of their steps is `PackageBuild`.
- *Stripping, bytecode compilation and the removal of work directory paths from
  texts*: commands and replacements of bytes, one file at a time; together they
  are the one step `finish` of `PackageBuild`.
- *Compiler and binutils wrappers*: they write scripts from arguments.
- *Toolchains, island visibility, recipes*: static data.
- *`pkgs_export_store_tree_substitute`*, which exports a tree with closures the
  recipe declares by hand: nothing in the graph vouches for them.
- *Argument parsing*, and the entry points that only call a `run`.
- *Durability of unflushed writes*: a crash is that of a process. What a file
  system keeps after a power loss is not a matter of this code, beyond the
  missing flush the hazards note.
- *Buck2*, its store materializer and the CAS: outside the repository; what the
  code relies on appears as external actions.
