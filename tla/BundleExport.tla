---------------------------- MODULE BundleExport ----------------------------
(* export_store_closure: verified objects are copied into a bundle, and the *)
(* index (closure.json) is written last. Every source file is read three    *)
(* times: verified, hashed (the manifest) and copied; a file may change     *)
(* between the reads, and the process may stop between any two writes and   *)
(* in the middle of the last.                                               *)
EXTENDS Naturals, StoreClosure

CONSTANTS ObjectPaths,      \* the store paths
          ArchiveTrees,     \* what archives unpack to
          ObjectManifests,  \* [entry, tree, refs, target]; a hash stands for it
          Slots,            \* the pairs of files on the command line
          MaxChanges        \* bound: changes of source files

ASSUME ManifestsAssumption ==
  ObjectManifests \subseteq [entry : ObjectPaths, tree : ArchiveTrees,
                              refs : SUBSET ObjectPaths, target : {"native", "foreign"}]

VARIABLES manifestFile,  \* slot -> manifest, the sources
          archiveFile,   \* slot -> tree
          roots,         \* the roots of the closure
          step,          \* none, idle, verify, copy, exported
          todo,          \* slots the current loop has not come to
          verified,      \* slot -> manifest as load_and_verify read it
          pinned,        \* entry -> manifest as its hash was taken
          made,          \* whether the output directory is there
          bundle,        \* entry -> the files in it
          index,         \* closure.json: none, torn or written
          changed,       \* slots whose files changed while an export ran
          changes

exportVars == <<manifestFile, archiveFile, roots, step, todo, verified, pinned, made, bundle, index, changed, changes>>
bundleSources == <<manifestFile, archiveFile, changed, changes>>
bundleOutput == <<made, bundle, index>>

NoFile == [file |-> "none"]
TornFile == [file |-> "torn"]
NoFiles == [e \in {} |-> NoFile]

\* The map f with v at k.
Put(f, k, v) == [x \in DOMAIN f \cup {k} |-> IF x = k THEN v ELSE f[x]]

ExportInit ==
  /\ manifestFile = NoFiles /\ archiveFile = NoFiles /\ roots = {}
  /\ step = "none" /\ todo = {} /\ verified = NoFiles /\ pinned = NoFiles
  /\ made = FALSE /\ bundle = NoFiles /\ index = NoFile
  /\ changed = {} /\ changes = 0

\* The arguments of the command, which every repetition of it shares.
GiveSources(manifests, archives, rs) ==
  /\ step = "none"
  /\ manifestFile' = manifests /\ archiveFile' = archives /\ roots' = rs
  /\ step' = "idle"
  /\ UNCHANGED <<todo, verified, pinned, bundleOutput, changed, changes>>

\* The files of a slot change, between two reads of them or between two runs.
Changed(s) == changed' = changed \cup (IF step \in {"verify", "copy"} THEN {s} ELSE {})

ChangeManifest(s, m) ==
  /\ step # "none"
  /\ changes < MaxChanges /\ changes' = changes + 1
  /\ manifestFile' = [manifestFile EXCEPT ![s] = m] /\ Changed(s)
  /\ UNCHANGED <<archiveFile, roots, step, todo, verified, pinned, bundleOutput>>

ChangeArchive(s, t) ==
  /\ step # "none"
  /\ changes < MaxChanges /\ changes' = changes + 1
  /\ archiveFile' = [archiveFile EXCEPT ![s] = t] /\ Changed(s)
  /\ UNCHANGED <<manifestFile, roots, step, todo, verified, pinned, bundleOutput>>

ExportStoreClosure ==
  /\ step = "idle"
  /\ step' = "verify" /\ todo' = Slots /\ verified' = NoFiles /\ pinned' = NoFiles
  /\ changed' = {}
  /\ UNCHANGED <<manifestFile, archiveFile, changes, roots, bundleOutput>>

\* load_and_verify of one pair, and the target system.
VerifyPair(s) ==
  /\ step = "verify" /\ s \in todo /\ s \notin DOMAIN verified
  /\ archiveFile[s] = manifestFile[s].tree
  /\ manifestFile[s].target = "native"
  /\ verified' = Put(verified, s, manifestFile[s])
  /\ UNCHANGED <<bundleSources, roots, step, todo, pinned, bundleOutput>>

\* The manifest is read again for its hash, under the path of the first read.
HashManifest(s) ==
  /\ step = "verify" /\ s \in todo /\ s \in DOMAIN verified
  /\ verified[s].entry \notin DOMAIN pinned
  /\ pinned' = Put(pinned, verified[s].entry, manifestFile[s])
  /\ todo' = todo \ {s}
  /\ UNCHANGED <<bundleSources, roots, step, verified, bundleOutput>>

VerifiedRefs ==
  [e \in {verified[s].entry : s \in DOMAIN verified} |->
     UNION {verified[s].refs : s \in {x \in DOMAIN verified : verified[x].entry = e}}]

CheckClosure ==
  /\ step = "verify" /\ todo = {}
  /\ ValidClosure(roots, VerifiedRefs)
  /\ ~made
  /\ made' = TRUE /\ step' = "copy" /\ todo' = Slots
  /\ UNCHANGED <<bundleSources, roots, verified, pinned, bundle, index>>

\* Manifest and archive are read a last time and written under the names the
\* first read gave them. (A file that is torn stays behind without an index.)
CopyFiles(s) ==
  /\ step = "copy" /\ s \in todo
  /\ bundle' = Put(bundle, verified[s].entry, [manifest |-> manifestFile[s], tree |-> archiveFile[s]])
  /\ todo' = todo \ {s}
  /\ UNCHANGED <<bundleSources, roots, step, verified, pinned, made, index>>

\* Mutant: the index is written when the directory is made.
WriteIndexEarly ==
  /\ step = "copy"
  /\ index' = [file |-> "index", roots |-> roots, objects |-> pinned]
  /\ step' = "exported"
  /\ UNCHANGED <<bundleSources, roots, todo, verified, pinned, made, bundle>>

\* write_file creates the file before it writes it.
CreateIndex ==
  /\ step = "copy" /\ todo = {} /\ index = NoFile
  /\ index' = TornFile
  /\ UNCHANGED <<bundleSources, roots, step, todo, verified, pinned, made, bundle>>

WriteIndex ==
  /\ step = "copy" /\ todo = {} /\ index = TornFile
  /\ index' = [file |-> "index", roots |-> roots, objects |-> pinned]
  /\ step' = "exported"
  /\ UNCHANGED <<bundleSources, roots, todo, verified, pinned, made, bundle>>

\* Any check that fails, any read or write that fails, or a kill.
StopExport ==
  /\ step \in {"verify", "copy"}
  /\ step' = "idle" /\ todo' = {} /\ verified' = NoFiles /\ pinned' = NoFiles
  /\ UNCHANGED <<bundleSources, roots, bundleOutput>>

\* Whoever runs the export again after a failure has to clear the output.
ClearOutput ==
  /\ step = "idle" /\ made
  /\ made' = FALSE /\ bundle' = NoFiles /\ index' = NoFile
  /\ UNCHANGED <<bundleSources, roots, step, todo, verified, pinned>>

ExportNext ==
  \/ /\ step = "none"
     /\ \E ms \in [Slots -> ObjectManifests], ts \in [Slots -> ArchiveTrees], rs \in SUBSET ObjectPaths :
          GiveSources(ms, ts, rs)
  \/ ExportStoreClosure
  \/ \E s \in Slots : VerifyPair(s) \/ HashManifest(s) \/ CopyFiles(s)
  \/ CheckClosure \/ CreateIndex \/ WriteIndex \/ StopExport \/ ClearOutput
  \/ \E s \in Slots, m \in ObjectManifests : ChangeManifest(s, m)
  \/ \E s \in Slots, t \in ArchiveTrees : ChangeArchive(s, t)

ExportSpec == ExportInit /\ [][ExportNext]_exportVars

-----------------------------------------------------------------------------
\* What hydrate_store_closure asks of a bundle and its index.
Hydratable ==
  /\ \A e \in DOMAIN index.objects :
       /\ e \in DOMAIN bundle
       /\ bundle[e].manifest = index.objects[e]
       /\ bundle[e].manifest.entry = e /\ bundle[e].manifest.target = "native"
       /\ bundle[e].tree = bundle[e].manifest.tree
  /\ ValidClosure(index.roots, [e \in DOMAIN index.objects |-> index.objects[e].refs])

\* An index that can be read stands for a whole bundle: however often the
\* export was stopped, repeated or overtaken by changes of its sources, what
\* the index names is in the bundle; and unless a source file changed during
\* the very run that wrote it, the bundle passes the checks of a hydration.
\* A torn index is none: a hydration cannot parse it.
IndexedBundleHydrates ==
  index.file = "index" =>
    /\ DOMAIN index.objects \subseteq DOMAIN bundle
    /\ changed = {} => Hydratable
=============================================================================
