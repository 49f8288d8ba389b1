--------------------------- MODULE OutputProofs -----------------------------
(* Proofs about what the tools write for others to read, for trees, lists   *)
(* and runs of any size: hydrated outputs are pinned (HydratedUse), kernel  *)
(* headers are of one run (HeadersInstall), a bundle with an index hydrates *)
(* (BundleExport), a stamp means equal trees (TreeCompare), a composition   *)
(* is a union (ComposeSources), each installed file is in its output        *)
(* (SplitOutputs), rewritten texts name it there (OutputRewrites), and a    *)
(* verifier refuses exactly what its rule forbids (TreeVerifiers).        *)
EXTENDS HydratedUse, HeadersInstall, BundleExport, TreeCompare, ComposeSources, OutputRewrites,
        TreeVerifiers, ListLemmas

UseTyped ==
  /\ task \in {"none", "project", "verify", "stage"}
  /\ at \in {"done", "failed", "output", "entry", "stamp", "copy", "seal", "compare"}
  /\ damages \in Nat

\* Nothing but a pinned tree is hydrated, so only damage changes the entry.
EntryKnown == damages = 0 => entry \in {"none", Pinned}

\* A projection has sealed its copy before it compares it.
ProjectionSealed ==
  /\ at = "compare" => task = "project" /\ sealed
  /\ task = "project" /\ at = "done" => output = Pinned /\ sealed

\* A staging into a cleared output follows one tree through its copy.
Staged ==
  task = "stage" /\ cleared /\ damages = 0 =>
    /\ at = "output" => output = "none"
    /\ at = "copy" => source = Pinned
    /\ at = "seal" => output = Pinned
    /\ at = "done" => output = Pinned /\ sealed

\* A staging does not look at the entry first; the stamp is one step behind
\* the check that justifies it.
Stamped ==
  /\ at = "entry" => task # "stage"
  /\ at = "stamp" => task = "verify"
  /\ (stamp \/ at = "stamp") /\ damages = 0 => entry = Pinned

UseInv == UseTyped /\ EntryKnown /\ ProjectionSealed /\ Staged /\ Stamped

-----------------------------------------------------------------------------
\* The invariant holds at the start.
LEMMA UseInitHolds == UseInit => UseInv
BY DEF UseInit, UseInv, UseTyped, EntryKnown, ProjectionSealed, Staged, Stamped

\* Steps outside a run: the entry is published or changed.
LEMMA UseEnvironmentHolds ==
  ASSUME UseInv, Hydrated \/ \E t \in {Pinned, Damaged} : Damage(t)
  PROVE  UseInv'
<1>1. CASE Hydrated
  BY <1>1 DEF Hydrated, UseInv, UseTyped, EntryKnown, ProjectionSealed, Staged, Stamped
<1>2. CASE \E t \in {Pinned, Damaged} : Damage(t)
  <2>1. PICK t \in {Pinned, Damaged} : Damage(t)
    BY <1>2
  <2>2. damages' \in Nat /\ damages' # 0
    BY <2>1 DEF Damage, UseInv, UseTyped
  <2>3. UNCHANGED <<output, sealed, stamp, task, at, cleared>>
    BY <2>1 DEF Damage
  <2> QED BY <2>2, <2>3 DEF UseInv, UseTyped, EntryKnown, ProjectionSealed, Staged, Stamped
<1> QED BY <1>1, <1>2

\* Steps that begin a run, end it early or check the entry.
LEMMA UseRunHolds ==
  ASSUME UseInv,
         \/ \E t \in {"project", "verify", "stage"}, clear \in BOOLEAN : Run(t, clear)
         \/ Fail \/ CheckEntry \/ WriteStamp \/ OutputThere
  PROVE  UseInv'
<1>1. CASE \E t \in {"project", "verify", "stage"}, clear \in BOOLEAN : Run(t, clear)
  <2>1. PICK t \in {"project", "verify", "stage"}, clear \in BOOLEAN : Run(t, clear)
    BY <1>1
  <2>2. /\ task' = t /\ stamp' = FALSE /\ cleared' = clear
        /\ at' = IF t = "stage" THEN "output" ELSE "entry"
        /\ output' = IF clear THEN "none" ELSE output
        /\ UNCHANGED <<entry, damages>>
    BY <2>1 DEF Run
  <2> QED BY <2>2 DEF UseInv, UseTyped, EntryKnown, ProjectionSealed, Staged, Stamped
<1>2. CASE Fail
  BY <1>2 DEF Fail, environment, UseInv, UseTyped, EntryKnown, ProjectionSealed, Staged, Stamped
<1>3. CASE CheckEntry
  <2>1. at = "entry" /\ entry = Pinned /\ UNCHANGED <<entry, damages, output, sealed, stamp, task, cleared, source>>
    BY <1>3 DEF CheckEntry, environment
  <2>2. CASE task = "verify"
    BY <1>3, <2>1, <2>2 DEF CheckEntry, UseInv, UseTyped, EntryKnown, ProjectionSealed, Staged, Stamped
  <2>3. CASE task # "verify"
    <3>1. at' = "output"
      BY <1>3, <2>3 DEF CheckEntry
    <3>2. task # "stage"
      BY <2>1 DEF UseInv, Stamped
    <3> QED BY <2>1, <3>1, <3>2 DEF UseInv, UseTyped, EntryKnown, ProjectionSealed, Staged, Stamped
  <2> QED BY <2>2, <2>3
<1>4. CASE WriteStamp
  BY <1>4 DEF WriteStamp, environment, UseInv, UseTyped, EntryKnown, ProjectionSealed, Staged, Stamped
<1>5. CASE OutputThere
  BY <1>5 DEF OutputThere, environment, UseInv, UseTyped, EntryKnown, ProjectionSealed, Staged, Stamped
<1> QED BY <1>1, <1>2, <1>3, <1>4, <1>5

\* Steps that make the copy.
LEMMA UseCopyHolds ==
  ASSUME UseInv, BeginCopy \/ EndCopy \/ Seal \/ CompareCopy
  PROVE  UseInv'
<1>1. CASE BeginCopy
  BY <1>1 DEF BeginCopy, environment, UseInv, UseTyped, EntryKnown, ProjectionSealed, Staged, Stamped
<1>2. CASE EndCopy
  <2>1. /\ at = "copy" /\ at' = "seal"
        /\ UNCHANGED <<entry, damages, sealed, stamp, task, cleared, source>>
    BY <1>2 DEF EndCopy, environment
  <2>2. source = Pinned => output' = Pinned
    BY <1>2, PinnedAssumption DEF EndCopy
  <2> QED BY <2>1, <2>2 DEF UseInv, UseTyped, EntryKnown, ProjectionSealed, Staged, Stamped
<1>3. CASE Seal
  BY <1>3 DEF Seal, environment, UseInv, UseTyped, EntryKnown, ProjectionSealed, Staged, Stamped
<1>4. CASE CompareCopy
  BY <1>4 DEF CompareCopy, environment, UseInv, UseTyped, EntryKnown, ProjectionSealed, Staged, Stamped
<1> QED BY <1>1, <1>2, <1>3, <1>4

\* The strengthening holds in every state of every behaviour.
THEOREM UseInvariance == UseSpec => []UseInv
<1>1. UseInit => UseInv
  BY UseInitHolds
<1>2. UseInv /\ [UseNext]_useVars => UseInv'
  <2> SUFFICES ASSUME UseInv, [UseNext]_useVars PROVE UseInv'
    OBVIOUS
  <2>1. CASE UseNext
    BY <2>1, UseEnvironmentHolds, UseRunHolds, UseCopyHolds DEF UseNext
  <2>2. CASE UNCHANGED useVars
    BY <2>2 DEF useVars, UseInv, UseTyped, EntryKnown, ProjectionSealed, Staged, Stamped
  <2> QED BY <2>1, <2>2
<1> QED BY <1>1, <1>2, PTL DEF UseSpec

\* What project_hydrated_store_object and stage_tree leave in their outputs is
\* the pinned tree, read-only, and a stamp of verify_hydrated_store_object
\* stands for an entry that was it.
THEOREM UseIsPinned == UseSpec => []UsedIsPinned
<1>1. UseInv => UsedIsPinned
  BY DEF UseInv, ProjectionSealed, Staged, Stamped, UsedIsPinned
<1> QED BY <1>1, UseInvariance, PTL

-----------------------------------------------------------------------------
\* The files a run that got past make works on.
Wanted == usrInclude \cap HeaderNames

HeadersTyped ==
  /\ stage \in {"idle", "make", "directory", "copy", "filter", "release", "seal", "done", "failed"}
  /\ installs \in Nat
  /\ usrInclude \subseteq HeaderNames \cup OtherNames
  /\ written = [n \in DOMAIN written |-> written[n]]

\* Without an include directory the output is empty: nothing is written
\* before the directory is made, and only the whole output is removed. That
\* is why a run which makes the directory starts from nothing.
NothingWithout == ~include => DOMAIN written = {}

\* From then on all that is there is of this run: at first some files of
\* usr/include, then all of them and others to be removed, then the headers.
OfThisRun ==
  /\ stage \in {"copy", "filter", "release", "seal", "done"} =>
       include /\ \A n \in DOMAIN written : written[n] = installs
  /\ stage = "copy" => DOMAIN written \subseteq usrInclude
  /\ stage = "filter" => Wanted \subseteq DOMAIN written /\ DOMAIN written \subseteq usrInclude
  /\ stage = "release" => DOMAIN written = Wanted
  /\ stage \in {"seal", "done"} => DOMAIN written = Wanted \cup {Release}
  /\ stage = "done" => readOnly

HeadersInv == HeadersTyped /\ NothingWithout /\ OfThisRun

\* The invariant holds at the start.
LEMMA HeadersStart == HeadersInit => HeadersInv
BY DEF HeadersInit, HeadersInv, HeadersTyped, NothingWithout, OfThisRun

\* Steps before a file is written, and the end of a run.
LEMMA BeforeCopyHolds ==
  ASSUME HeadersInv,
         \/ \E clear \in BOOLEAN : StartInstall(clear)
         \/ \E files \in SUBSET (HeaderNames \cup OtherNames) : MakeHeaders(files)
         \/ MakeInclude \/ SealHeaders \/ StopInstall
  PROVE  HeadersInv'
<1> USE DEF HeadersInv, HeadersTyped, NothingWithout, OfThisRun, Wanted
<1>1. CASE \E clear \in BOOLEAN : StartInstall(clear)
  <2>1. PICK clear \in BOOLEAN : StartInstall(clear)
    BY <1>1
  <2>2. stage' = "make" /\ installs' \in Nat /\ usrInclude' = usrInclude
    BY <2>1 DEF StartInstall
  <2>3. CASE clear
    BY <2>1, <2>2, <2>3 DEF StartInstall
  <2>4. CASE ~clear
    BY <2>1, <2>2, <2>4 DEF StartInstall
  <2> QED BY <2>3, <2>4
<1>2. CASE \E files \in SUBSET (HeaderNames \cup OtherNames) : MakeHeaders(files)
  BY <1>2 DEF MakeHeaders
<1>3. CASE MakeInclude
  BY <1>3 DEF MakeInclude
<1>4. CASE SealHeaders
  BY <1>4 DEF SealHeaders
<1>5. CASE StopInstall
  BY <1>5 DEF StopInstall
<1> QED BY <1>1, <1>2, <1>3, <1>4, <1>5

\* Steps that change what the output holds, or end a loop over it.
LEMMA FilesHold ==
  ASSUME HeadersInv,
         \/ \E n \in HeaderNames \cup OtherNames : CopyHeader(n)
         \/ CopyEnds
         \/ \E n \in OtherNames \cup {Release} : RemoveNonHeader(n)
         \/ FilterEnds \/ WriteRelease
  PROVE  HeadersInv'
<1> USE DEF HeadersInv, HeadersTyped, NothingWithout, OfThisRun, Wanted
<1>1. CASE \E n \in HeaderNames \cup OtherNames : CopyHeader(n)
  <2>1. PICK n \in HeaderNames \cup OtherNames : CopyHeader(n)
    BY <1>1
  <2>2. /\ DOMAIN written' = DOMAIN written \cup {n} /\ n \in usrInclude
        /\ \A x \in DOMAIN written' : written'[x] = IF x = n THEN installs ELSE written[x]
        /\ stage = "copy" /\ UNCHANGED <<stage, installs, usrInclude, include, readOnly>>
    BY <2>1 DEF CopyHeader
  <2>3. written' = [x \in DOMAIN written' |-> written'[x]]
    BY <2>1 DEF CopyHeader
  <2> QED BY <2>2, <2>3
<1>2. CASE CopyEnds
  BY <1>2 DEF CopyEnds, Copied
<1>3. CASE \E n \in OtherNames \cup {Release} : RemoveNonHeader(n)
  <2>1. PICK n \in OtherNames \cup {Release} : RemoveNonHeader(n)
    BY <1>3
  <2>2. /\ DOMAIN written' = DOMAIN written \ {n} /\ n \notin HeaderNames
        /\ \A x \in DOMAIN written' : written'[x] = written[x]
        /\ stage = "filter" /\ UNCHANGED <<stage, installs, usrInclude, include, readOnly>>
    BY <2>1 DEF RemoveNonHeader
  <2>3. written' = [x \in DOMAIN written' |-> written'[x]]
    BY <2>1 DEF RemoveNonHeader
  <2> QED BY <2>2, <2>3
<1>4. CASE FilterEnds
  BY <1>4 DEF FilterEnds
<1>5. CASE WriteRelease
  <2>1. /\ DOMAIN written' = DOMAIN written \cup {Release}
        /\ \A x \in DOMAIN written' : written'[x] = IF x = Release THEN installs ELSE written[x]
        /\ stage = "release" /\ stage' = "seal"
        /\ UNCHANGED <<installs, usrInclude, include, readOnly>>
    BY <1>5 DEF WriteRelease
  <2>2. written' = [x \in DOMAIN written' |-> written'[x]]
    BY <1>5 DEF WriteRelease
  <2> QED BY <2>1, <2>2
<1> QED BY <1>1, <1>2, <1>3, <1>4, <1>5

\* The invariant of the header builder holds throughout.
THEOREM HeadersInvariance == HeadersSpec => []HeadersInv
<1>1. HeadersInit => HeadersInv
  BY HeadersStart
<1>2. HeadersInv /\ [HeadersNext]_headersVars => HeadersInv'
  <2> SUFFICES ASSUME HeadersInv, [HeadersNext]_headersVars PROVE HeadersInv'
    OBVIOUS
  <2>1. CASE HeadersNext
    BY <2>1, BeforeCopyHolds, FilesHold DEF HeadersNext
  <2>2. CASE UNCHANGED headersVars
    BY <2>2 DEF headersVars, HeadersInv, HeadersTyped, NothingWithout, OfThisRun, Wanted
  <2> QED BY <2>1, <2>2
<1> QED BY <1>1, <1>2, PTL DEF HeadersSpec

\* However many runs wrote in place before, the output of one that succeeds
\* holds the headers and the release of that run, sealed, and nothing else.
THEOREM HeadersAreOfOneRun == HeadersSpec => []HeadersOfOneRun
<1>1. HeadersInv => HeadersOfOneRun
  <2> SUFFICES ASSUME HeadersInv, stage = "done"
               PROVE  readOnly /\ written = [n \in Wanted \cup {Release} |-> installs]
    BY DEF HeadersOfOneRun, Wanted
  <2>1. /\ readOnly /\ DOMAIN written = Wanted \cup {Release}
        /\ \A n \in DOMAIN written : written[n] = installs
        /\ written = [n \in DOMAIN written |-> written[n]]
    BY DEF HeadersInv, HeadersTyped, OfThisRun
  <2> QED BY <2>1
<1> QED BY <1>1, HeadersInvariance, PTL

-----------------------------------------------------------------------------
\* The pairs the current loop is done with.
Done == Slots \ todo

ExportTyped ==
  /\ step \in {"none", "idle", "verify", "copy", "exported"}
  /\ todo \subseteq Slots
  /\ step # "none" =>
       manifestFile \in [Slots -> ObjectManifests] /\ archiveFile \in [Slots -> ArchiveTrees]
  /\ DOMAIN verified \subseteq Slots
  /\ step \in {"none", "idle"} => DOMAIN verified = {}
  /\ verified \in [DOMAIN verified -> ObjectManifests]
  /\ pinned = [e \in DOMAIN pinned |-> pinned[e]]
  /\ bundle = [e \in DOMAIN bundle |-> bundle[e]]

\* What is verified was in the files, and still is while the export runs if
\* none changed.
VerifiedSound ==
  changed = {} => \A s \in DOMAIN verified :
    /\ verified[s].target = "native"
    /\ step \in {"verify", "copy"} =>
         verified[s] = manifestFile[s] /\ archiveFile[s] = verified[s].tree

\* The hashes were taken of the pairs in S: of every one, under its own entry,
\* which no other has.
PinnedOf(S) ==
  /\ S \subseteq DOMAIN verified
  /\ DOMAIN pinned = {verified[s].entry : s \in S}
  /\ \A s, r \in S : s # r => verified[s].entry # verified[r].entry
  /\ changed = {} => \A s \in S : pinned[verified[s].entry] = verified[s]

\* The files of the pairs in S are in the bundle.
CopiedOf(S) ==
  \A s \in S :
    /\ verified[s].entry \in DOMAIN bundle
    /\ changed = {} =>
         bundle[verified[s].entry] = [manifest |-> verified[s], tree |-> verified[s].tree]

\* The index is the last thing a successful export writes.
Indexed ==
  index.file = "index" =>
    step = "exported" /\ index = [file |-> "index", roots |-> roots, objects |-> pinned]

ExportInv ==
  /\ ExportTyped /\ VerifiedSound /\ Indexed
  /\ step = "verify" => PinnedOf(Done)
  /\ step \in {"copy", "exported"} => PinnedOf(Slots) /\ ValidClosure(roots, VerifiedRefs) /\ CopiedOf(Done)
  /\ step = "exported" => todo = {}

\* The invariant holds at the start.
LEMMA ExportStart == ExportInit => ExportInv
BY DEF ExportInit, ExportInv, ExportTyped, VerifiedSound, Indexed, NoFiles, NoFile

\* A new export begins with nothing verified.
LEMMA CommandHolds ==
  ASSUME ExportInv,
         \/ /\ step = "none"
            /\ \E ms \in [Slots -> ObjectManifests], ts \in [Slots -> ArchiveTrees], rs \in SUBSET ObjectPaths :
                 GiveSources(ms, ts, rs)
         \/ ExportStoreClosure \/ StopExport \/ ClearOutput
  PROVE  ExportInv'
<1> USE DEF ExportInv, ExportTyped, VerifiedSound, Indexed, bundleSources, bundleOutput
<1>1. CASE /\ step = "none"
           /\ \E ms \in [Slots -> ObjectManifests], ts \in [Slots -> ArchiveTrees], rs \in SUBSET ObjectPaths :
                GiveSources(ms, ts, rs)
  <2>1. PICK ms \in [Slots -> ObjectManifests], ts \in [Slots -> ArchiveTrees], rs \in SUBSET ObjectPaths :
          GiveSources(ms, ts, rs)
    BY <1>1
  <2> QED BY <1>1, <2>1 DEF GiveSources
<1>2. CASE ExportStoreClosure
  BY <1>2 DEF ExportStoreClosure, NoFiles, PinnedOf, Done
<1>3. CASE StopExport
  BY <1>3 DEF StopExport, NoFiles
<1>4. CASE ClearOutput
  BY <1>4 DEF ClearOutput, NoFiles, NoFile
<1> QED BY <1>1, <1>2, <1>3, <1>4

\* A source that is read is verified as it is at that moment.
LEMMA VerifyHolds ==
  ASSUME ExportInv, NEW s \in Slots, VerifyPair(s) \/ HashManifest(s)
  PROVE  ExportInv'
<1> USE DEF ExportInv, bundleSources, bundleOutput
<1>1. CASE VerifyPair(s)
  <2>1. /\ step = "verify" /\ s \in todo /\ s \notin DOMAIN verified
        /\ archiveFile[s] = manifestFile[s].tree /\ manifestFile[s].target = "native"
        /\ UNCHANGED <<manifestFile, archiveFile, changed, roots, step, todo, pinned, made, bundle, index>>
        /\ verified' = Put(verified, s, manifestFile[s])
    BY <1>1 DEF VerifyPair
  <2>2. /\ DOMAIN verified' = DOMAIN verified \cup {s} /\ verified'[s] = manifestFile[s]
        /\ \A x \in DOMAIN verified : verified'[x] = verified[x]
        /\ verified' = [x \in DOMAIN verified' |-> verified'[x]]
    BY <2>1 DEF Put
  <2>3. ExportTyped'
    <3>1. manifestFile[s] \in ObjectManifests
      BY <2>1 DEF ExportTyped
    <3> QED BY <2>1, <2>2, <3>1 DEF ExportTyped
  <2>4. VerifiedSound'
    BY <2>1, <2>2 DEF VerifiedSound
  <2>5. PinnedOf(Done)'
    BY <2>1, <2>2 DEF PinnedOf, Done
  <2> QED BY <2>1, <2>3, <2>4, <2>5 DEF Indexed
<1>2. CASE HashManifest(s)
  <2> DEFINE e == verified[s].entry
  <2>1. /\ step = "verify" /\ s \in todo /\ s \in DOMAIN verified /\ e \notin DOMAIN pinned
        /\ UNCHANGED <<manifestFile, archiveFile, changed, roots, step, verified, made, bundle, index>>
        /\ todo' = todo \ {s}
        /\ pinned' = Put(pinned, e, manifestFile[s])
    BY <1>2 DEF HashManifest
  <2>2. /\ DOMAIN pinned' = DOMAIN pinned \cup {e} /\ pinned'[e] = manifestFile[s]
        /\ \A x \in DOMAIN pinned : pinned'[x] = pinned[x]
        /\ pinned' = [x \in DOMAIN pinned' |-> pinned'[x]]
    BY <2>1 DEF Put
  <2>3. ExportTyped' /\ VerifiedSound'
    BY <2>1, <2>2 DEF ExportTyped, VerifiedSound
  <2>4. Done' = Done \cup {s} /\ s \notin Done
    BY <2>1 DEF Done, ExportTyped
  <2>5. PinnedOf(Done)'
    <3>1. PinnedOf(Done)
      BY <2>1
    <3>2. Done' \subseteq DOMAIN verified' /\ DOMAIN pinned' = {verified'[r].entry : r \in Done'}
      BY <2>1, <2>2, <2>4, <3>1 DEF PinnedOf
    <3>3. \A q, r \in Done' : q # r => verified'[q].entry # verified'[r].entry
      BY <2>1, <2>4, <3>1 DEF PinnedOf
    <3>4. changed' = {} => \A r \in Done' : pinned'[verified'[r].entry] = verified'[r]
      BY <2>1, <2>2, <2>4, <3>1 DEF PinnedOf, VerifiedSound
    <3> QED BY <3>2, <3>3, <3>4 DEF PinnedOf
  <2> QED BY <2>1, <2>3, <2>5 DEF Indexed
<1> QED BY <1>1, <1>2

\* A valid closure stays one: it is judged by what was verified.
LEMMA CopyPhaseHolds ==
  ASSUME ExportInv, CheckClosure \/ CreateIndex \/ WriteIndex \/ \E s \in Slots : CopyFiles(s)
  PROVE  ExportInv'
<1> USE DEF ExportInv, bundleSources
<1>1. CASE CheckClosure
  <2>1. /\ step = "verify" /\ todo = {} /\ ValidClosure(roots, VerifiedRefs)
        /\ step' = "copy" /\ todo' = Slots
        /\ UNCHANGED <<manifestFile, archiveFile, changed, roots, verified, pinned, bundle, index>>
    BY <1>1 DEF CheckClosure
  <2>2. ExportTyped' /\ VerifiedSound' /\ Indexed'
    BY <2>1 DEF ExportTyped, VerifiedSound, Indexed
  <2>3. VerifiedRefs' = VerifiedRefs
    BY <2>1 DEF VerifiedRefs
  <2>4. PinnedOf(Slots)'
    <3>1. Done = Slots
      BY <2>1 DEF Done
    <3> QED BY <2>1, <3>1 DEF PinnedOf
  <2>5. CopiedOf(Done)'
    BY <2>1 DEF CopiedOf, Done
  <2> QED BY <2>1, <2>2, <2>3, <2>4, <2>5
<1>2. CASE WriteIndex
  <2>1. /\ step = "copy" /\ todo = {} /\ step' = "exported"
        /\ index' = [file |-> "index", roots |-> roots, objects |-> pinned]
        /\ UNCHANGED <<manifestFile, archiveFile, changed, roots, todo, verified, pinned, made, bundle>>
    BY <1>2 DEF WriteIndex
  <2>2. VerifiedRefs' = VerifiedRefs
    BY <2>1 DEF VerifiedRefs
  <2> QED BY <2>1, <2>2 DEF ExportTyped, VerifiedSound, Indexed, PinnedOf, CopiedOf, Done
<1>4. CASE CreateIndex
  <2>1. /\ step = "copy" /\ index' = TornFile
        /\ UNCHANGED <<manifestFile, archiveFile, changed, roots, step, todo, verified, pinned, made, bundle>>
    BY <1>4 DEF CreateIndex
  <2>2. VerifiedRefs' = VerifiedRefs /\ index'.file # "index"
    BY <2>1 DEF VerifiedRefs, TornFile
  <2> QED BY <2>1, <2>2 DEF ExportTyped, VerifiedSound, Indexed, PinnedOf, CopiedOf, Done
<1>3. CASE \E s \in Slots : CopyFiles(s)
  <2>1. PICK s \in Slots : CopyFiles(s)
    BY <1>3
  <2> DEFINE e == verified[s].entry
             files == [manifest |-> manifestFile[s], tree |-> archiveFile[s]]
  <2>2. /\ step = "copy" /\ s \in todo /\ todo' = todo \ {s}
        /\ bundle' = Put(bundle, e, files)
        /\ UNCHANGED <<manifestFile, archiveFile, changed, roots, step, verified, pinned, made, index>>
    BY <2>1 DEF CopyFiles
  <2>3. /\ DOMAIN bundle' = DOMAIN bundle \cup {e} /\ bundle'[e] = files
        /\ \A x \in DOMAIN bundle : x # e => bundle'[x] = bundle[x]
        /\ bundle' = [x \in DOMAIN bundle' |-> bundle'[x]]
    BY <2>2 DEF Put
  <2>4. ExportTyped' /\ VerifiedSound' /\ Indexed'
    BY <2>2, <2>3 DEF ExportTyped, VerifiedSound, Indexed
  <2>5. VerifiedRefs' = VerifiedRefs /\ PinnedOf(Slots)'
    BY <2>2 DEF VerifiedRefs, PinnedOf
  <2>6. CopiedOf(Done)'
    <3>1. PinnedOf(Slots) /\ CopiedOf(Done) /\ Done' = Done \cup {s}
      BY <2>2 DEF Done, ExportTyped
    <3>2. changed = {} => files = [manifest |-> verified[s], tree |-> verified[s].tree]
      BY <2>2, <3>1 DEF VerifiedSound, PinnedOf
    <3>3. \A r \in Done : r # s => verified[r].entry # e
      BY <3>1 DEF PinnedOf, Done
    <3> HIDE DEF files
    <3>4. ASSUME NEW r \in Done'
          PROVE  /\ verified'[r].entry \in DOMAIN bundle'
                 /\ changed' = {} =>
                      bundle'[verified'[r].entry] = [manifest |-> verified'[r], tree |-> verified'[r].tree]
      <4>1. CASE r = s
        BY <2>2, <2>3, <3>2, <4>1
      <4>2. CASE r # s
        BY <2>2, <2>3, <3>1, <3>3, <4>2 DEF CopiedOf
      <4> QED BY <4>1, <4>2
    <3> QED BY <3>4 DEF CopiedOf
  <2> QED BY <2>2, <2>4, <2>5, <2>6
<1> QED BY <1>1, <1>2, <1>3, <1>4

\* A changed source ends what is promised of an unchanged one, and nothing else.
LEMMA ChangeHolds ==
  ASSUME ExportInv,
         \/ \E s \in Slots, m \in ObjectManifests : ChangeManifest(s, m)
         \/ \E s \in Slots, t \in ArchiveTrees : ChangeArchive(s, t)
  PROVE  ExportInv'
<1>1. UNCHANGED <<roots, step, todo, verified, pinned, made, bundle, index>>
  BY DEF ChangeManifest, ChangeArchive, bundleOutput
<1>2. /\ step # "none"
      /\ manifestFile' \in [Slots -> ObjectManifests] /\ archiveFile' \in [Slots -> ArchiveTrees]
  BY DEF ChangeManifest, ChangeArchive, ExportInv, ExportTyped
<1>3. /\ step \in {"verify", "copy"} => changed' # {}
      /\ changed' = {} => changed = {}
  BY DEF ChangeManifest, ChangeArchive, Changed
<1>4. VerifiedRefs' = VerifiedRefs /\ ValidClosure(roots, VerifiedRefs)' = ValidClosure(roots, VerifiedRefs)
  BY <1>1 DEF VerifiedRefs
<1>5. ExportTyped' /\ VerifiedSound' /\ Indexed'
  BY <1>1, <1>2, <1>3 DEF ExportInv, ExportTyped, VerifiedSound, Indexed
<1>6. Done' = Done /\ (PinnedOf(Done) => PinnedOf(Done)') /\ (PinnedOf(Slots) => PinnedOf(Slots)')
      /\ (CopiedOf(Done) => CopiedOf(Done)')
  BY <1>1, <1>3 DEF PinnedOf, CopiedOf, Done
<1> QED BY <1>1, <1>4, <1>5, <1>6 DEF ExportInv

\* The invariant of the export holds throughout.
THEOREM ExportInvariance == ExportSpec => []ExportInv
<1>1. ExportInit => ExportInv
  BY ExportStart
<1>2. ExportInv /\ [ExportNext]_exportVars => ExportInv'
  <2> SUFFICES ASSUME ExportInv, [ExportNext]_exportVars PROVE ExportInv'
    OBVIOUS
  <2>1. CASE ExportNext
    BY <2>1, CommandHolds, VerifyHolds, CopyPhaseHolds, ChangeHolds DEF ExportNext
  <2>2. CASE UNCHANGED exportVars
    <3>1. UNCHANGED exportVars /\ VerifiedRefs' = VerifiedRefs
      BY <2>2 DEF exportVars, VerifiedRefs
    <3> QED BY <3>1 DEF exportVars, ExportInv, ExportTyped, VerifiedSound, Indexed, PinnedOf, CopiedOf, Done
  <2> QED BY <2>1, <2>2
<1> QED BY <1>1, <1>2, PTL DEF ExportSpec

\* An index that can be read stands for a whole bundle, and for one that passes
\* the checks of a hydration unless a source file changed during the run that
\* wrote it; what happened in the runs before it, and to the sources after it,
\* makes no difference.
THEOREM IndexStandsForBundle == ExportSpec => []IndexedBundleHydrates
<1>1. ExportInv => IndexedBundleHydrates
  <2> SUFFICES ASSUME ExportInv, index.file = "index"
               PROVE  /\ DOMAIN index.objects \subseteq DOMAIN bundle
                      /\ changed = {} => Hydratable
    BY DEF IndexedBundleHydrates
  <2>1. /\ index.roots = roots /\ index.objects = pinned
        /\ PinnedOf(Slots) /\ CopiedOf(Slots) /\ ValidClosure(roots, VerifiedRefs)
    <3>1. step = "exported" /\ index = [file |-> "index", roots |-> roots, objects |-> pinned]
      BY DEF ExportInv, Indexed
    <3>2. Done = Slots
      BY <3>1 DEF ExportInv, Done
    <3> QED BY <3>1, <3>2 DEF ExportInv
  <2>2. DOMAIN pinned \subseteq DOMAIN bundle
    BY <2>1 DEF PinnedOf, CopiedOf
  <2>3. ASSUME changed = {}, NEW e \in DOMAIN pinned
        PROVE  /\ bundle[e].manifest = pinned[e] /\ bundle[e].tree = bundle[e].manifest.tree
               /\ pinned[e].entry = e /\ pinned[e].target = "native"
    <3>1. PICK s \in Slots : e = verified[s].entry
      BY <2>1 DEF PinnedOf
    <3>2. pinned[e] = verified[s] /\ bundle[e] = [manifest |-> verified[s], tree |-> verified[s].tree]
      BY <2>1, <2>3, <3>1 DEF PinnedOf, CopiedOf
    <3>3. verified[s].target = "native"
      BY <2>1, <2>3 DEF ExportInv, VerifiedSound, PinnedOf
    <3> QED BY <3>1, <3>2, <3>3
  <2>4. ASSUME changed = {}
        PROVE  VerifiedRefs = [e \in DOMAIN pinned |-> pinned[e].refs]
    <3>1. DOMAIN verified = Slots /\ DOMAIN pinned = {verified[s].entry : s \in DOMAIN verified}
      BY <2>1 DEF PinnedOf, ExportInv, ExportTyped
    <3>2. ASSUME NEW e \in DOMAIN pinned
          PROVE  UNION {verified[s].refs : s \in {x \in DOMAIN verified : verified[x].entry = e}} = pinned[e].refs
      <4>1. PICK s \in Slots : e = verified[s].entry
        BY <2>1 DEF PinnedOf
      <4>2. {x \in DOMAIN verified : verified[x].entry = e} = {s}
        BY <2>1, <3>1, <4>1 DEF PinnedOf
      <4>3. pinned[e] = verified[s]
        BY <2>1, <2>4, <4>1 DEF PinnedOf
      <4> QED BY <4>2, <4>3
    <3> QED BY <3>1, <3>2 DEF VerifiedRefs
  <2> QED BY <2>1, <2>2, <2>3, <2>4 DEF Hydratable
<1> QED BY <1>1, ExportInvariance, PTL

-----------------------------------------------------------------------------
\* A tree of the pair as its publication shows it, and where both show the same.
Shown(i) == Listed(PublishedForm(pair[i]))
Alike(p) == p \in DOMAIN pair[1] /\ p \in DOMAIN pair[2] /\ Shown(1)[p] = Shown(2)[p]

\* The trees are trees with all fields, and one is there.
Known(t) ==
  t # Nothing =>
    FiniteTree(t) /\ \A p \in DOMAIN t : t[p] = Stat(t[p].kind, t[p].data, t[p].mode, t[p].mtime)
PairKnown == Known(pair[1]) /\ Known(pair[2]) /\ (pair[1] # Nothing \/ pair[2] # Nothing)

\* What is still to compare is there on both sides, below what agrees, and
\* all that may differ is at or below it.
WalkInv ==
  /\ compares \in Seq(Path)
  /\ \A c \in ToSet(compares) :
       /\ c # Root => c \in DOMAIN pair[1] /\ c \in DOMAIN pair[2]
       /\ \A d \in Ancestors(c) : Alike(d)
  /\ \A p \in DOMAIN pair[1] \cup DOMAIN pair[2] :
       Alike(p) \/ \E c \in ToSet(compares) : Under(c, p)

CompareInv ==
  /\ compared # "idle" => PairKnown
  /\ compared = "comparing" => WalkInv
  /\ StampedMeansSame

\* A path as it is shown.
LEMMA ShownStat ==
  ASSUME NEW t, Known(t)
  PROVE  /\ DOMAIN Listed(PublishedForm(t)) = DOMAIN t
         /\ \A p \in DOMAIN t :
              Listed(PublishedForm(t))[p] =
                Stat(t[p].kind, IF t[p].kind = "dir" THEN "" ELSE t[p].data,
                     t[p].mode \ WriteBits, t[p].mtime)
<1> DEFINE u == PublishedForm(t)
<1>1. DOMAIN u = DOMAIN t
  BY DEF PublishedForm
<1>2. \A p \in DOMAIN t : u[p] = Stat(t[p].kind, t[p].data, t[p].mode \ WriteBits, t[p].mtime)
  <2> SUFFICES ASSUME NEW p \in DOMAIN t
               PROVE  u[p] = Stat(t[p].kind, t[p].data, t[p].mode \ WriteBits, t[p].mtime)
    OBVIOUS
  <2>1. t # Nothing
    BY DEF Nothing
  <2>2. t[p] = Stat(t[p].kind, t[p].data, t[p].mode, t[p].mtime)
    BY <2>1 DEF Known
  <2>3. u[p] = [t[p] EXCEPT !.mode = @ \ WriteBits]
    BY DEF PublishedForm
  <2> QED BY <2>2, <2>3 DEF Stat
<1> HIDE DEF u
<1>3. DOMAIN Listed(u) = DOMAIN t
  BY <1>1 DEF Listed
<1>4. \A p \in DOMAIN t :
        Listed(u)[p] =
          IF u[p].kind = "dir" THEN Stat("dir", "", u[p].mode, u[p].mtime) ELSE u[p]
  BY <1>1 DEF Listed
<1>5. \A p \in DOMAIN t :
        Listed(u)[p] = Stat(t[p].kind, IF t[p].kind = "dir" THEN "" ELSE t[p].data,
                            t[p].mode \ WriteBits, t[p].mtime)
  <2> SUFFICES ASSUME NEW p \in DOMAIN t
               PROVE  Listed(u)[p] = Stat(t[p].kind, IF t[p].kind = "dir" THEN "" ELSE t[p].data,
                                          t[p].mode \ WriteBits, t[p].mtime)
    OBVIOUS
  <2> DEFINE v == Stat(t[p].kind, t[p].data, t[p].mode \ WriteBits, t[p].mtime)
  <2>1. /\ u[p] = v
        /\ Listed(u)[p] = IF u[p].kind = "dir" THEN Stat("dir", "", u[p].mode, u[p].mtime) ELSE u[p]
    BY <1>2, <1>4
  <2>2. v.kind = t[p].kind /\ v.mode = t[p].mode \ WriteBits /\ v.mtime = t[p].mtime
    BY DEF Stat
  <2> HIDE DEF v
  <2>4. CASE t[p].kind = "dir"
    BY <2>1, <2>2, <2>4
  <2>5. CASE t[p].kind # "dir"
    BY <2>1, <2>2, <2>5 DEF v
  <2> QED BY <2>4, <2>5
<1> QED BY <1>3, <1>5 DEF u

\* What compare_modes, compare_modified_times and the contents tell of a path.
LEMMA AgreeIsSame ==
  ASSUME PairKnown, NEW p, p \in DOMAIN pair[1], p \in DOMAIN pair[2]
  PROVE  Alike(p) <=> /\ pair[1][p].kind = pair[2][p].kind
                      /\ pair[1][p].mode \ WriteBits = pair[2][p].mode \ WriteBits
                      /\ pair[1][p].mtime = pair[2][p].mtime
                      /\ pair[1][p].kind = "dir" \/ pair[1][p].data = pair[2][p].data
<1>1. \A i \in {1, 2} : Shown(i)[p] =
         Stat(pair[i][p].kind, IF pair[i][p].kind = "dir" THEN "" ELSE pair[i][p].data,
              pair[i][p].mode \ WriteBits, pair[i][p].mtime)
  BY ShownStat DEF Shown, PairKnown
<1>2. \A k1, k2, d1, d2, m1, m2, t1, t2 :
        Stat(k1, d1, m1, t1) = Stat(k2, d2, m2, t2) <=> k1 = k2 /\ d1 = d2 /\ m1 = m2 /\ t1 = t2
  BY DEF Stat
<1>3. Alike(p) <=> Shown(1)[p] = Shown(2)[p]
  BY DEF Alike
<1> DEFINE d(i) == IF pair[i][p].kind = "dir" THEN "" ELSE pair[i][p].data
<1>4. Alike(p) <=> /\ pair[1][p].kind = pair[2][p].kind /\ d(1) = d(2)
                   /\ pair[1][p].mode \ WriteBits = pair[2][p].mode \ WriteBits
                   /\ pair[1][p].mtime = pair[2][p].mtime
  <2>1. Shown(1)[p] = Stat(pair[1][p].kind, d(1), pair[1][p].mode \ WriteBits, pair[1][p].mtime)
    BY <1>1
  <2>2. Shown(2)[p] = Stat(pair[2][p].kind, d(2), pair[2][p].mode \ WriteBits, pair[2][p].mtime)
    BY <1>1
  <2> DEFINE d1 == d(1)
             d2 == d(2)
             m1 == pair[1][p].mode \ WriteBits
             m2 == pair[2][p].mode \ WriteBits
  <2>3. /\ Shown(1)[p] = Stat(pair[1][p].kind, d1, m1, pair[1][p].mtime)
        /\ Shown(2)[p] = Stat(pair[2][p].kind, d2, m2, pair[2][p].mtime)
    BY <2>1, <2>2
  <2> HIDE DEF d1, d2, m1, m2
  <2>4. Alike(p) <=> /\ pair[1][p].kind = pair[2][p].kind /\ d1 = d2
                     /\ m1 = m2 /\ pair[1][p].mtime = pair[2][p].mtime
    BY <1>2, <1>3, <2>3
  <2> QED BY <2>4 DEF d1, d2, m1, m2
<1> QED BY <1>4

\* Trees that differ at one path, or in their paths, differ.
LEMMA DifferenceShows ==
  ASSUME PairKnown
  PROVE  /\ DOMAIN pair[1] # DOMAIN pair[2] => Shown(1) # Shown(2)
         /\ \A p \in DOMAIN pair[1] \cap DOMAIN pair[2] : ~ Alike(p) => Shown(1) # Shown(2)
         /\ (\A p \in DOMAIN pair[1] \cup DOMAIN pair[2] : Alike(p)) => Shown(1) = Shown(2)
<1>1. DOMAIN Shown(1) = DOMAIN pair[1] /\ DOMAIN Shown(2) = DOMAIN pair[2]
  BY ShownStat DEF Shown, PairKnown
<1>2. \A i \in {1, 2} : Shown(i) = [p \in DOMAIN Shown(i) |-> Shown(i)[p]]
  BY DEF Shown, Listed
<1>3. ASSUME \A p \in DOMAIN pair[1] \cup DOMAIN pair[2] : Alike(p)
      PROVE  Shown(1) = Shown(2)
  <2>1. DOMAIN pair[1] = DOMAIN pair[2]
    BY <1>3 DEF Alike
  <2>2. \A p \in DOMAIN pair[1] : Shown(1)[p] = Shown(2)[p]
    BY <1>3 DEF Alike
  <2> QED BY <1>1, <1>2, <2>1, <2>2
<1> QED BY <1>1, <1>3 DEF Alike

\* The comparison begins at the root.
LEMMA CompareTreesHolds ==
  ASSUME CompareInv, NEW trees \in TreePairs, CompareTrees(trees[1], trees[2])
  PROVE  CompareInv'
<1>1. /\ pair' = <<trees[1], trees[2]>> /\ compares' = <<Root>> /\ compared' = "comparing"
  BY DEF CompareTrees
<1>2. pair'[1] = trees[1] /\ pair'[2] = trees[2]
  BY <1>1
<1>3. PairKnown'
  BY <1>2, TreePairsAssumption DEF PairKnown, Known
<1>4. Root \in Path /\ ToSet(compares') = {Root}
  BY <1>1 DEF Root, Path, ToSet
<1>5. Ancestors(Root) = {}
  BY DEF Ancestors, Root
<1>6. \A p \in DOMAIN pair'[1] \cup DOMAIN pair'[2] : Under(Root, p)
  <2>1. \A i \in {1, 2} : DOMAIN pair'[i] \subseteq Path
    BY <1>3 DEF PairKnown, Known, FiniteTree, Nothing
  <2> QED BY <2>1, UnderOrder
<1>7. WalkInv'
  BY <1>1, <1>4, <1>5, <1>6 DEF WalkInv
<1> QED BY <1>1, <1>3, <1>7 DEF CompareInv, StampedMeansSame

\* A path at which nothing differs gives way to its entries.
LEMMA ComparePathHolds ==
  ASSUME CompareInv, ComparePath
  PROVE  CompareInv'
<1> DEFINE c == Head(compares)
           rest == Tail(compares)
           below == IF Expected1.kind = "dir" THEN Entries(pair[1], c) ELSE << >>
<1>1. PairKnown /\ WalkInv /\ compares # << >> /\ compared = "comparing"
  BY DEF CompareInv, ComparePath, Comparing
<1>2. /\ c \in DOMAIN pair[1] /\ c \in DOMAIN pair[2] /\ SameStat /\ SameContents
      /\ Expected1 = pair[1][c] /\ Actual1 = pair[2][c]
      /\ UNCHANGED <<pair, unequal, compared>> /\ compares' = below \o rest
  BY DEF ComparePath, SameStat, Expected1, Actual1
<1>3. FiniteTree(pair[1]) /\ FiniteTree(pair[2])
  BY <1>1, <1>2 DEF PairKnown, Known, Nothing
<1>4. c \in Path /\ rest \in Seq(Path) /\ ToSet(compares) = {c} \cup ToSet(rest)
  <2>1. compares \in Seq(Path)
    BY <1>1 DEF WalkInv
  <2> QED BY <1>1, <2>1, HeadAndTail
<1>5. Alike(c)
  BY <1>1, <1>2, AgreeIsSame DEF SameStat, SameContents
<1>6. below \in Seq(Path)
  BY <1>3, <1>4, EntriesAreChildren
<1>7. \A x \in ToSet(below) :
        /\ pair[1][c].kind = "dir" /\ x \in Children(pair[1], c) /\ x \in Children(pair[2], c)
        /\ x \in Path /\ x \in DOMAIN pair[1] /\ x \in DOMAIN pair[2]
        /\ Under(c, x) /\ Len(x) = Len(c) + 1
  <2>1. CASE pair[1][c].kind = "dir"
    <3>1. below = Entries(pair[1], c) /\ below = Entries(pair[2], c)
      BY <1>2, <2>1 DEF SameContents
    <3>2. ToSet(below) = Children(pair[1], c) /\ ToSet(below) = Children(pair[2], c)
      BY <1>3, <1>4, <3>1, EntriesAreChildren
    <3> HIDE DEF below
    <3> QED BY <1>3, <1>4, <2>1, <3>2, EntriesAreChildren DEF Children
  <2>2. CASE pair[1][c].kind # "dir"
    <3>1. ToSet(below) = {}
      BY <1>2, <2>2 DEF ToSet
    <3> QED BY <3>1
  <2> QED BY <2>1, <2>2
<1>8. \A k \in {1, 2} : \A p \in DOMAIN pair[k] :
        Under(c, p) => p = c \/ \E x \in ToSet(below) : Under(x, p)
  <2> SUFFICES ASSUME NEW k \in {1, 2}, NEW p \in DOMAIN pair[k], Under(c, p), p # c
               PROVE  \E x \in ToSet(below) : Under(x, p)
    OBVIOUS
  <2>1. IsDir(pair[k], c) /\ \E x \in Children(pair[k], c) : Under(x, p)
    BY <1>3, <1>4, BelowChild
  <2>2. pair[1][c].kind = "dir"
    BY <1>2, <2>1 DEF SameStat, IsDir
  <2>3. ToSet(below) = Children(pair[k], c)
    BY <1>2, <1>3, <1>4, <2>2, EntriesAreChildren DEF SameContents
  <2> QED BY <2>1, <2>3
<1> HIDE DEF c, rest, below
<1>9. compares' \in Seq(Path) /\ ToSet(compares') = ToSet(below) \cup ToSet(rest)
  BY <1>2, <1>4, <1>6, JoinElements
<1>10. \A x \in ToSet(compares') :
         /\ x # Root => x \in DOMAIN pair[1] /\ x \in DOMAIN pair[2]
         /\ \A d \in Ancestors(x) : Alike(d)
  <2> SUFFICES ASSUME NEW x \in ToSet(compares')
               PROVE  /\ x # Root => x \in DOMAIN pair[1] /\ x \in DOMAIN pair[2]
                      /\ \A d \in Ancestors(x) : Alike(d)
    OBVIOUS
  <2>1. CASE x \in ToSet(rest)
    BY <1>1, <1>4, <2>1 DEF WalkInv
  <2>2. CASE x \in ToSet(below)
    <3>1. Ancestors(x) = Ancestors(c) \cup {c}
      BY <1>4, <1>7, <2>2, AncestorsOfChild
    <3>2. \A d \in Ancestors(c) : Alike(d)
      BY <1>1, <1>4 DEF WalkInv
    <3> QED BY <1>5, <1>7, <2>2, <3>1, <3>2
  <2> QED BY <1>9, <2>1, <2>2
<1>11. \A p \in DOMAIN pair[1] \cup DOMAIN pair[2] :
         Alike(p) \/ \E x \in ToSet(compares') : Under(x, p)
  <2> SUFFICES ASSUME NEW p \in DOMAIN pair[1] \cup DOMAIN pair[2], ~ Alike(p)
               PROVE  \E x \in ToSet(compares') : Under(x, p)
    OBVIOUS
  <2>1. PICK x \in ToSet(compares) : Under(x, p)
    BY <1>1 DEF WalkInv
  <2> QED BY <1>4, <1>5, <1>8, <1>9, <2>1
<1>12. UNCHANGED <<pair, unequal, compared>>
  BY <1>2
<1>13. WalkInv'
  BY <1>9, <1>10, <1>11, <1>12 DEF WalkInv, Alike, Shown
<1> QED BY <1>1, <1>12, <1>13 DEF CompareInv, StampedMeansSame, PairKnown

\* A reported difference is one, and the first.
LEMMA PathDiffersHolds ==
  ASSUME CompareInv, PathDiffers
  PROVE  CompareInv'
<1> DEFINE c == Head(compares)
<1>1. PairKnown /\ WalkInv /\ compares # << >>
  BY DEF CompareInv, PathDiffers, Comparing
<1>2. /\ compared' = "differs" /\ unequal' = c /\ UNCHANGED <<pair, compares>>
      /\ ~(SameStat /\ (Expected1.kind \in {"dir", "file", "link"} => SameContents))
  BY DEF PathDiffers
<1>3. c \in ToSet(compares) /\ c \in Path
  BY <1>1, HeadTailProperties DEF WalkInv, ToSet
<1>4. Shown(1) # Shown(2)
  <2>1. CASE c \notin DOMAIN pair[1] \/ c \notin DOMAIN pair[2]
    <3>1. c = Root
      BY <1>1, <1>3, <2>1 DEF WalkInv
    <3>2. \A i \in {1, 2} : pair[i] # Nothing => Root \in DOMAIN pair[i]
      BY <1>1 DEF PairKnown, Known, FiniteTree, IsTree
    <3>3. \A i \in {1, 2} : pair[i] = Nothing => DOMAIN pair[i] = {}
      BY DEF Nothing
    <3>4. DOMAIN pair[1] # DOMAIN pair[2]
      BY <1>1, <2>1, <3>1, <3>2, <3>3 DEF PairKnown
    <3> QED BY <1>1, <3>4, DifferenceShows
  <2>2. CASE c \in DOMAIN pair[1] /\ c \in DOMAIN pair[2] /\ ~ Alike(c)
    BY <1>1, <2>2, DifferenceShows
  <2>3. CASE c \in DOMAIN pair[1] /\ c \in DOMAIN pair[2] /\ Alike(c)
    <3>1. Entries(pair[1], c) # Entries(pair[2], c)
      BY <1>1, <1>2, <2>3, AgreeIsSame DEF SameStat, SameContents, Expected1, Actual1
    <3>2. DOMAIN pair[1] # DOMAIN pair[2]
      BY <3>1 DEF Entries
    <3> QED BY <1>1, <3>2, DifferenceShows
  <2> QED BY <2>1, <2>2, <2>3
<1>5. \A d \in Ancestors(c) : Shown(1)[d] = Shown(2)[d]
  BY <1>1, <1>3 DEF WalkInv, Alike
<1> HIDE DEF c
<1>6. StampedMeansSame'
  BY <1>2, <1>4, <1>5 DEF StampedMeansSame, Shown
<1> QED BY <1>1, <1>2, <1>6 DEF CompareInv, PairKnown

\* With nothing left to compare both trees show the same.
LEMMA StampComparedHolds ==
  ASSUME CompareInv, StampCompared
  PROVE  CompareInv'
<1>1. PairKnown /\ WalkInv /\ compares = << >>
  BY DEF CompareInv, StampCompared
<1>2. \A p \in DOMAIN pair[1] \cup DOMAIN pair[2] : Alike(p)
  BY <1>1 DEF WalkInv, ToSet
<1>3. Shown(1) = Shown(2)
  BY <1>1, <1>2, DifferenceShows
<1>4. compared' = "same" /\ UNCHANGED <<pair, unequal, compares>>
  BY DEF StampCompared
<1>5. StampedMeansSame'
  BY <1>3, <1>4 DEF StampedMeansSame, Shown
<1> QED BY <1>1, <1>4, <1>5 DEF CompareInv, PairKnown

\* The invariant of the comparison holds throughout.
THEOREM CompareInvariance == CompareSpec => []CompareInv
<1>1. CompareInit => CompareInv
  BY DEF CompareInit, CompareInv, StampedMeansSame
<1>2. CompareInv /\ [CompareNext]_compareVars => CompareInv'
  <2> SUFFICES ASSUME CompareInv, [CompareNext]_compareVars PROVE CompareInv'
    OBVIOUS
  <2>1. CASE \E p \in TreePairs : CompareTrees(p[1], p[2])
    BY <2>1, CompareTreesHolds
  <2>2. CASE ComparePath
    BY <2>2, ComparePathHolds
  <2>3. CASE PathDiffers
    BY <2>3, PathDiffersHolds
  <2>4. CASE Unsupported
    BY <2>4 DEF Unsupported, Comparing, CompareInv, PairKnown, StampedMeansSame
  <2>5. CASE StampCompared
    BY <2>5, StampComparedHolds
  <2>6. CASE UNCHANGED compareVars
    BY <2>6 DEF compareVars, CompareInv, PairKnown, WalkInv, Alike, Shown, StampedMeansSame
  <2> QED BY <2>1, <2>2, <2>3, <2>4, <2>5, <2>6 DEF CompareNext
<1> QED BY <1>1, <1>2, PTL DEF CompareSpec

\* A stamp means that both trees are published alike, and a reported
\* difference is the first real one in the order of the walk.
THEOREM StampMeansSame == CompareSpec => []StampedMeansSame
<1>1. CompareInv => StampedMeansSame
  BY DEF CompareInv
<1> QED BY <1>1, CompareInvariance, PTL

-----------------------------------------------------------------------------
\* The first source that has p, and whether an earlier one than the one served
\* has it.
IsFirst(i, p) == i \in DOMAIN given /\ p \in DOMAIN given[i] /\ \A j \in 1 .. i - 1 : p \notin DOMAIN given[j]
Before(p) == \E i \in 1 .. serving - 1 : p \in DOMAIN given[i]
ToMerge(p) == \E c \in ToSet(agenda) : Under(c, p)

\* The output is the union of the sources before the one that is served and of
\* what of this one is not still to merge. The paths to merge are apart, and
\* nothing of this source is below them yet.
Merging ==
  /\ serving \in 1 .. Len(given)
  /\ agenda \in Seq(Path) /\ Apart(agenda) /\ ToSet(agenda) \subseteq DOMAIN given[serving]
  /\ \A p \in DOMAIN composed : \E i \in 1 .. serving : IsFirst(i, p) /\ composed[p] = given[i][p]
  /\ \A i \in 1 .. serving - 1 : DOMAIN given[i] \subseteq DOMAIN composed
  /\ \A p \in DOMAIN given[serving] : p \in DOMAIN composed \/ ToMerge(p)
  /\ \A p \in DOMAIN composed : ToMerge(p) => Before(p)

\* The sources before agree, and this one with them where it is merged.
Agreeing ==
  /\ \A i, j \in 1 .. serving - 1 : i # j => Compatible(given[i], given[j])
  /\ \A p \in DOMAIN given[serving] : ~ToMerge(p) =>
       \A i \in 1 .. serving - 1 : p \in DOMAIN given[i] => IsDir(given[i], p) /\ IsDir(given[serving], p)

ComposeInv ==
  /\ result = "idle" => agenda = << >>
  /\ result # "idle" => given \in SourceLists
  /\ result = "merging" => Merging /\ Agreeing
  /\ CompositionIsUnion

\* What is known of the sources.
LEMMA Given ==
  ASSUME given \in SourceLists
  PROVE  /\ Len(given) \in Nat /\ Len(given) >= 1 /\ DOMAIN given = 1 .. Len(given)
         /\ \A i \in 1 .. Len(given) : FiniteTree(given[i]) /\ DOMAIN given[i] \subseteq Path
<1>1. /\ given \in Seq({given[i] : i \in DOMAIN given}) /\ given # << >>
      /\ \A i \in DOMAIN given : FiniteTree(given[i])
  BY SourcesAssumption
<1> QED BY <1>1, EmptySeq, LenProperties DEF FiniteTree

\* The first source is copied.
LEMMA ComposeHolds ==
  ASSUME ComposeInv, NEW list \in SourceLists, Compose(list)
  PROVE  ComposeInv'
<1>1. /\ agenda = << >> /\ agenda' = << >> /\ given' = list
      /\ \/ result' = "merging" /\ serving' = 1 /\ composed' = list[1]
         \/ result' = "refused"
  BY DEF ComposeInv, Compose
<1>2. /\ Len(list) \in Nat /\ Len(list) >= 1 /\ DOMAIN list = 1 .. Len(list)
  <2>1. list \in Seq({list[i] : i \in DOMAIN list}) /\ list # << >>
    BY SourcesAssumption
  <2> QED BY <2>1, EmptySeq, LenProperties
<1>3. ASSUME result' = "merging"
      PROVE  (Merging /\ Agreeing)'
  <2>1. serving' = 1 /\ composed' = given'[1] /\ ToSet(agenda') = {} /\ 1 \in DOMAIN given'
    BY <1>1, <1>2, <1>3 DEF ToSet
  <2>2. 1 .. serving' - 1 = {} /\ 1 .. 1 - 1 = {} /\ 1 \in 1 .. serving' /\ agenda' \in Seq(Path) /\ DOMAIN agenda' = {}
    BY <1>1, <2>1
  <2>3. Merging'
    BY <1>1, <1>2, <2>1, <2>2 DEF Merging, IsFirst, ToMerge, Apart
  <2>4. Agreeing'
    BY <2>2 DEF Agreeing
  <2> QED BY <2>3, <2>4
<1> QED BY <1>1, <1>3 DEF ComposeInv, CompositionIsUnion

\* A source that is begun is still to merge as a whole.
LEMMA NextSourceHolds ==
  ASSUME ComposeInv, NextSource
  PROVE  ComposeInv'
<1>1. /\ result = "merging" /\ agenda = << >> /\ serving < Len(given) /\ UNCHANGED <<given, composed>>
      /\ \/ agenda' = <<Root>> /\ serving' = serving + 1 /\ result' = result
         \/ result' = "refused"
  BY DEF NextSource
<1>2. given \in SourceLists /\ Merging /\ Agreeing
  BY <1>1 DEF ComposeInv
<1>3. /\ Len(given) \in Nat /\ DOMAIN given = 1 .. Len(given) /\ serving \in 1 .. Len(given)
      /\ \A i \in 1 .. Len(given) : FiniteTree(given[i]) /\ DOMAIN given[i] \subseteq Path
  BY <1>2, Given DEF Merging
<1>4. \A p : ~ToMerge(p)
  BY <1>1 DEF ToMerge, ToSet
<1>5. ASSUME result' = "merging"
      PROVE  (Merging /\ Agreeing)'
  <2>1. /\ agenda' = <<Root>> /\ serving' = serving + 1 /\ serving' \in 1 .. Len(given)
        /\ \A i \in 1 .. serving' - 1 : i \in 1 .. serving - 1 \/ i = serving
    BY <1>1, <1>3, <1>5
  <2>2. agenda' \in Seq(Path) /\ ToSet(agenda') = {Root} /\ DOMAIN agenda' = {1}
    BY <2>1 DEF Root, Path, ToSet
  <2>3. \A i \in 1 .. Len(given) : Root \in DOMAIN given[i] /\ \A p \in DOMAIN given[i] : Under(Root, p)
    BY <1>3, UnderOrder DEF FiniteTree, IsTree
  <2>4. \A p \in DOMAIN composed : \E i \in 1 .. serving : IsFirst(i, p) /\ composed[p] = given[i][p]
    BY <1>2 DEF Merging
  <2>5. \A i \in 1 .. serving' - 1 : DOMAIN given[i] \subseteq DOMAIN composed
    BY <1>2, <1>4, <2>1 DEF Merging
  <2>6. \A p \in DOMAIN composed : \E i \in 1 .. serving' - 1 : p \in DOMAIN given[i]
    BY <1>3, <2>1, <2>4 DEF IsFirst
  <2>7. \A p \in DOMAIN composed : \E i \in 1 .. serving' : IsFirst(i, p)' /\ composed'[p] = given'[i][p]
    BY <1>1, <1>3, <2>1, <2>4 DEF IsFirst
  <2>8. \A p \in DOMAIN given[serving'] : ToMerge(p)'
    BY <2>1, <2>2, <2>3 DEF ToMerge
  <2>9. Merging'
    BY <1>1, <2>1, <2>2, <2>3, <2>5, <2>6, <2>7, <2>8 DEF Merging, Before, Apart
  <2>10. \A i, j \in 1 .. serving' - 1 : i # j => Compatible(given[i], given[j])
    <3>1. \A i \in 1 .. serving - 1 :
            Compatible(given[i], given[serving]) /\ Compatible(given[serving], given[i])
      BY <1>2, <1>4 DEF Agreeing, Compatible
    <3> QED BY <1>2, <2>1, <3>1 DEF Agreeing
  <2>11. Agreeing'
    BY <1>1, <2>1, <2>8, <2>10 DEF Agreeing
  <2> QED BY <2>9, <2>11
<1> QED BY <1>1, <1>2, <1>5 DEF ComposeInv, CompositionIsUnion

\* What the output does not have is copied.
LEMMA CopyHereHolds ==
  ASSUME ComposeInv, CopyHere
  PROVE  ComposeInv'
<1> DEFINE c == Head(agenda)
           rest == Tail(agenda)
           t == given[serving]
           U == At(c, Subtree(t, c))
<1>1. /\ result = "merging" /\ agenda # << >> /\ UNCHANGED <<given, serving>> /\ c \notin DOMAIN composed
      /\ \/ result' = result /\ agenda' = rest /\ composed' = Over(U, composed)
         \/ result' = "sealed"
  BY DEF CopyHere
<1>2. given \in SourceLists /\ Merging /\ Agreeing
  BY <1>1 DEF ComposeInv
<1>3. /\ Len(given) \in Nat /\ DOMAIN given = 1 .. Len(given) /\ serving \in 1 .. Len(given)
      /\ \A i \in 1 .. Len(given) : FiniteTree(given[i]) /\ DOMAIN given[i] \subseteq Path
  BY <1>2, Given DEF Merging
<1>4. /\ c \in Path /\ rest \in Seq(Path) /\ ToSet(agenda) = {c} \cup ToSet(rest) /\ c \in DOMAIN t
  <2>1. agenda \in Seq(Path) /\ ToSet(agenda) \subseteq DOMAIN t
    BY <1>2 DEF Merging
  <2> HIDE DEF t
  <2> QED BY <1>1, <2>1, HeadAndTail
<1>5. /\ Apart(rest) /\ \A x \in ToSet(rest) : x \in Path /\ ~Under(c, x) /\ ~Under(x, c)
  <2>1. \A x \in ToSet(rest) : x \in Path
    BY <1>4 DEF ToSet
  <2> QED BY <1>1, <1>2, <2>1, ApartTail DEF Merging
<1>6. /\ DOMAIN U = {q \in DOMAIN t : Under(c, q)}
      /\ \A q \in DOMAIN t : Under(c, q) => U[q] = t[q]
  <2>1. FiniteTree(t)
    BY <1>3
  <2> HIDE DEF t
  <2> QED BY <1>4, <2>1, CopyOfSubtree
<1> HIDE DEF c, rest, U
<1>7. \A i \in 1 .. serving - 1 : \A p \in DOMAIN given[i] : ~Under(c, p)
  <2> SUFFICES ASSUME NEW i \in 1 .. serving - 1, NEW p \in DOMAIN given[i], Under(c, p)
               PROVE  FALSE
    OBVIOUS
  <2>1. i \in 1 .. Len(given)
    BY <1>3
  <2>2. c \in DOMAIN given[i]
    BY <1>3, <1>4, <2>1, AboveIsThere
  <2> QED BY <1>1, <1>2, <2>2 DEF Merging
<1>8. \A p \in DOMAIN composed : ~Under(c, p)
  BY <1>2, <1>4, <1>7 DEF Merging, ToMerge, Before
<1>9. ASSUME result' = "merging"
      PROVE  (Merging /\ Agreeing)'
  <2>1. /\ agenda' = rest /\ DOMAIN composed' = DOMAIN U \cup DOMAIN composed
        /\ \A p \in DOMAIN composed' : composed'[p] = IF p \in DOMAIN U THEN U[p] ELSE composed[p]
    BY <1>1, <1>9 DEF Over
  <2>2. \A p \in DOMAIN U : IsFirst(serving, p) /\ composed'[p] = given[serving][p]
    BY <1>3, <1>6, <1>7, <2>1 DEF IsFirst
  <2>3. \A p \in DOMAIN composed' : \E i \in 1 .. serving : IsFirst(i, p) /\ composed'[p] = given[i][p]
    <3>1. serving \in 1 .. serving
      BY <1>3
    <3>2. \A p \in DOMAIN composed : composed'[p] = composed[p]
      BY <1>6, <1>8, <2>1
    <3> QED BY <1>2, <2>1, <2>2, <3>1, <3>2 DEF Merging
  <2>4. \A p : ToMerge(p) <=> Under(c, p) \/ ToMerge(p)'
    BY <1>4, <2>1 DEF ToMerge
  <2>5. \A p \in DOMAIN given[serving] : p \in DOMAIN composed' \/ ToMerge(p)'
    BY <1>2, <1>6, <2>1, <2>4 DEF Merging
  <2>6. \A p \in DOMAIN composed' : ToMerge(p)' => Before(p)
    <3>1. \A p \in DOMAIN U : ~ToMerge(p)'
      <4> SUFFICES ASSUME NEW p \in DOMAIN U, NEW x \in ToSet(rest), Under(x, p)
                   PROVE  FALSE
        BY <2>1 DEF ToMerge
      <4>1. x \in Path /\ p \in Path /\ Under(c, p) /\ ~Under(c, x) /\ ~Under(x, c)
        BY <1>3, <1>5, <1>6
      <4>2. Len(x) <= Len(c) \/ Len(c) <= Len(x)
        BY <1>4, <4>1 DEF Path
      <4> QED BY <1>4, <4>1, <4>2, UnderOrder
    <3> QED BY <1>2, <2>1, <2>4, <3>1 DEF Merging
  <2>7. Merging'
    BY <1>1, <1>2, <1>4, <1>5, <2>1, <2>3, <2>5, <2>6 DEF Merging, IsFirst, Before
  <2>8. Agreeing'
    BY <1>1, <1>2, <1>7, <2>4 DEF Agreeing
  <2> QED BY <2>7, <2>8
<1> QED BY <1>1, <1>2, <1>9 DEF ComposeInv, CompositionIsUnion

\* A path to merge that the output has is of an earlier source, and as it is
\* in the first of them.
LEMMA MetBefore ==
  ASSUME given \in SourceLists, Merging, agenda # << >>, Head(agenda) \in DOMAIN composed
  PROVE  \E f \in 1 .. serving - 1 : /\ IsFirst(f, Head(agenda))
                                     /\ composed[Head(agenda)] = given[f][Head(agenda)]
<1> DEFINE c == Head(agenda)
<1>1. c \in ToSet(agenda) /\ c \in Path
  <2>1. agenda \in Seq(Path)
    BY DEF Merging
  <2> QED BY <2>1, HeadAndTail
<1>2. Before(c)
  BY <1>1, UnderOrder DEF Merging, ToMerge
<1>3. PICK i \in 1 .. serving - 1 : c \in DOMAIN given[i]
  BY <1>2 DEF Before
<1>4. PICK f \in 1 .. serving : IsFirst(f, c) /\ composed[c] = given[f][c]
  BY DEF Merging
<1>5. f \in 1 .. serving - 1
  BY <1>3, <1>4, Given DEF IsFirst, Merging
<1> QED BY <1>4, <1>5

\* A directory that both have is left to its entries.
LEMMA DescendHolds ==
  ASSUME ComposeInv, Descend
  PROVE  ComposeInv'
<1> DEFINE c == Head(agenda)
           rest == Tail(agenda)
           t == given[serving]
           es == Entries(t, c)
<1>1. /\ result = "merging" /\ agenda # << >> /\ UNCHANGED <<given, serving, composed, result>>
      /\ IsDir(composed, c) /\ IsDir(t, c) /\ agenda' = es \o rest
  BY DEF Descend
<1>2. given \in SourceLists /\ Merging /\ Agreeing
  BY <1>1 DEF ComposeInv
<1>3. /\ Len(given) \in Nat /\ DOMAIN given = 1 .. Len(given) /\ serving \in 1 .. Len(given)
      /\ \A i \in 1 .. Len(given) : FiniteTree(given[i]) /\ DOMAIN given[i] \subseteq Path
  BY <1>2, Given DEF Merging
<1>4. /\ c \in Path /\ rest \in Seq(Path) /\ ToSet(agenda) = {c} \cup ToSet(rest) /\ ToSet(rest) \subseteq DOMAIN t
  <2>1. agenda \in Seq(Path) /\ ToSet(agenda) \subseteq DOMAIN t
    BY <1>2 DEF Merging
  <2> HIDE DEF t
  <2> QED BY <1>1, <2>1, HeadAndTail
<1>5. /\ Apart(rest) /\ \A x \in ToSet(rest) : ~Under(c, x) /\ ~Under(x, c)
  BY <1>1, <1>2, ApartTail DEF Merging
<1>6. FiniteTree(t) /\ DOMAIN t \subseteq Path
  BY <1>3
<1> HIDE DEF t, c, rest
<1>7. /\ es \in Seq(Path) /\ ToSet(es) = Children(t, c) /\ Apart(es \o rest)
      /\ \A x \in ToSet(es) : x \in Path /\ Under(c, x) /\ x \in DOMAIN t
  BY <1>4, <1>5, <1>6, EntriesAreChildren, ApartEntries DEF Children
<1>8. ToSet(es \o rest) = ToSet(es) \cup ToSet(rest) /\ es \o rest \in Seq(Path)
  <2> HIDE DEF es
  <2> QED BY <1>4, <1>7, JoinElements
<1> HIDE DEF es
<1>9. /\ agenda' \in Seq(Path) /\ Apart(agenda') /\ ToSet(agenda') = ToSet(es) \cup ToSet(rest)
  BY <1>1, <1>7, <1>8
<1>10. \A p \in DOMAIN t : ToMerge(p) => p = c \/ ToMerge(p)'
  <2> SUFFICES ASSUME NEW p \in DOMAIN t, NEW x \in ToSet(agenda), Under(x, p), p # c
               PROVE  \E y \in ToSet(es) \cup ToSet(rest) : Under(y, p)
    BY <1>9 DEF ToMerge
  <2>1. CASE x = c
    BY <1>4, <1>6, <1>7, <2>1, BelowChild
  <2> QED BY <1>4, <2>1
<1>11. \A p \in Path : ToMerge(p)' => ToMerge(p)
  <2> SUFFICES ASSUME NEW p \in Path, NEW x \in ToSet(es) \cup ToSet(rest), Under(x, p)
               PROVE  \E y \in ToSet(agenda) : Under(y, p)
    BY <1>9 DEF ToMerge
  <2>1. CASE x \in ToSet(es)
    BY <1>4, <1>7, <2>1, UnderOrder
  <2> QED BY <1>4, <2>1
<1>12. PICK f \in 1 .. serving - 1 : IsFirst(f, c) /\ composed[c] = given[f][c]
  BY <1>1, <1>2, MetBefore DEF IsDir, c
<1>13. \A p \in DOMAIN composed : p \in Path
  BY <1>2, <1>3 DEF Merging, IsFirst
<1>14. Merging'
  <2>1. ToSet(agenda') \subseteq DOMAIN given[serving]
    BY <1>4, <1>7, <1>9 DEF t
  <2>2. \A p \in DOMAIN given[serving] : p \in DOMAIN composed \/ ToMerge(p)'
    BY <1>1, <1>2, <1>10 DEF Merging, IsDir, t
  <2>3. \A p \in DOMAIN composed : ToMerge(p)' => Before(p)
    BY <1>2, <1>11, <1>13 DEF Merging
  <2> QED BY <1>1, <1>2, <1>9, <2>1, <2>2, <2>3 DEF Merging, IsFirst, Before
<1>15. \A i \in 1 .. serving - 1 : c \in DOMAIN given[i] => IsDir(given[i], c)
  <2>1. IsDir(given[f], c)
    BY <1>1, <1>12 DEF IsDir, IsFirst
  <2>2. \A i \in 1 .. serving - 1 : i # f => Compatible(given[i], given[f])
    BY <1>2 DEF Agreeing
  <2> QED BY <1>12, <2>1, <2>2 DEF Compatible, IsFirst
<1>16. Agreeing'
  <2>1. \A p \in DOMAIN given[serving] : ~ToMerge(p)' => p = c \/ ~ToMerge(p)
    BY <1>10 DEF t
  <2>2. IsDir(given[serving], c)
    BY <1>1 DEF t
  <2> QED BY <1>1, <1>2, <1>15, <2>1, <2>2 DEF Agreeing
<1> QED BY <1>1, <1>2, <1>14, <1>16 DEF ComposeInv, CompositionIsUnion

\* A conflict is one of two sources.
LEMMA ConflictHolds ==
  ASSUME ComposeInv, Conflict
  PROVE  ComposeInv'
<1> DEFINE c == Head(agenda)
<1>1. /\ result = "merging" /\ agenda # << >> /\ c \in DOMAIN composed
      /\ ~(IsDir(composed, c) /\ IsDir(given[serving], c))
      /\ result' = "conflict" /\ UNCHANGED <<given, serving, agenda, composed>>
  BY DEF Conflict
<1>2. given \in SourceLists /\ Merging
  BY <1>1 DEF ComposeInv
<1>3. PICK f \in 1 .. serving - 1 : IsFirst(f, c) /\ composed[c] = given[f][c]
  BY <1>1, <1>2, MetBefore
<1>4. c \in DOMAIN given[serving]
  <2>1. agenda \in Seq(Path) /\ ToSet(agenda) \subseteq DOMAIN given[serving]
    BY <1>2 DEF Merging
  <2> QED BY <1>1, <2>1, HeadAndTail
<1>5. f \in DOMAIN given /\ serving \in DOMAIN given /\ f # serving
  BY <1>2, <1>3, Given DEF Merging
<1> HIDE DEF c
<1>6. ~Compatible(given[f], given[serving])
  BY <1>1, <1>3, <1>4 DEF Compatible, IsDir, IsFirst
<1>7. CompositionIsUnion'
  BY <1>1, <1>5, <1>6 DEF CompositionIsUnion
<1> QED BY <1>1, <1>2, <1>7 DEF ComposeInv

\* With nothing left to merge the output is the union.
LEMMA ComposedHolds ==
  ASSUME ComposeInv, Composed
  PROVE  ComposeInv'
<1>1. /\ result = "merging" /\ agenda = << >> /\ serving = Len(given)
      /\ result' = "composed" /\ UNCHANGED <<given, serving, agenda, composed>>
  BY DEF Composed
<1>2. given \in SourceLists /\ Merging /\ Agreeing
  BY <1>1 DEF ComposeInv
<1>3. /\ Len(given) \in Nat /\ DOMAIN given = 1 .. serving /\ serving \in Nat /\ serving >= 1
  BY <1>1, <1>2, Given DEF Merging
<1>4. \A p : ~ToMerge(p)
  BY <1>1 DEF ToMerge, ToSet
<1>5. \A i \in DOMAIN given : i = serving \/ i \in 1 .. serving - 1
  BY <1>3
<1>6. DOMAIN composed = UNION {DOMAIN given[i] : i \in DOMAIN given}
  <2>1. \A p \in DOMAIN composed : \E i \in DOMAIN given : p \in DOMAIN given[i]
    BY <1>2 DEF Merging, IsFirst
  <2>2. \A i \in DOMAIN given : \A p \in DOMAIN given[i] : p \in DOMAIN composed
    BY <1>2, <1>4, <1>5 DEF Merging
  <2> QED BY <2>1, <2>2
<1>7. \A p \in DOMAIN composed :
        composed[p] = given[CHOOSE i \in DOMAIN given :
                              p \in DOMAIN given[i] /\ \A j \in 1 .. i - 1 : p \notin DOMAIN given[j]][p]
  <2> SUFFICES ASSUME NEW p \in DOMAIN composed
               PROVE  composed[p] = given[CHOOSE i \in DOMAIN given :
                              p \in DOMAIN given[i] /\ \A j \in 1 .. i - 1 : p \notin DOMAIN given[j]][p]
    OBVIOUS
  <2> DEFINE Q(i) == p \in DOMAIN given[i] /\ \A j \in 1 .. i - 1 : p \notin DOMAIN given[j]
             k == CHOOSE i \in DOMAIN given : Q(i)
  <2>1. PICK f \in DOMAIN given : Q(f) /\ composed[p] = given[f][p]
    BY <1>2 DEF Merging, IsFirst
  <2>2. k \in DOMAIN given /\ Q(k)
    <3> HIDE DEF Q
    <3> QED BY <2>1
  <2> HIDE DEF k
  <2>3. k = f
    <3>1. k \in Int /\ f \in Int /\ k >= 1 /\ f >= 1
      BY <1>3, <2>2
    <3>2. ~(k < f) /\ ~(f < k)
      BY <2>1, <2>2, <3>1
    <3> QED BY <3>1, <3>2
  <2> QED BY <2>1, <2>3 DEF k
<1>8. \A i, j \in DOMAIN given : i # j => Compatible(given[i], given[j])
  <2>1. \A i \in 1 .. serving - 1 :
          Compatible(given[i], given[serving]) /\ Compatible(given[serving], given[i])
    BY <1>2, <1>4 DEF Agreeing, Compatible
  <2> QED BY <1>2, <1>5, <2>1 DEF Agreeing
<1>9. CompositionIsUnion'
  BY <1>1, <1>6, <1>7, <1>8 DEF CompositionIsUnion
<1> QED BY <1>1, <1>2, <1>9 DEF ComposeInv

\* The invariant of the composition holds throughout.
THEOREM ComposeInvariance == ComposeSpec => []ComposeInv
<1>1. ComposeInit => ComposeInv
  BY DEF ComposeInit, ComposeInv, CompositionIsUnion
<1>2. ComposeInv /\ [ComposeNext]_composeVars => ComposeInv'
  <2> SUFFICES ASSUME ComposeInv, [ComposeNext]_composeVars PROVE ComposeInv'
    OBVIOUS
  <2>1. CASE \E list \in SourceLists : Compose(list)
    BY <2>1, ComposeHolds
  <2>2. CASE NextSource
    BY <2>2, NextSourceHolds
  <2>3. CASE CopyHere
    BY <2>3, CopyHereHolds
  <2>4. CASE Descend
    BY <2>4, DescendHolds
  <2>5. CASE Conflict
    BY <2>5, ConflictHolds
  <2>6. CASE Composed
    BY <2>6, ComposedHolds
  <2>7. CASE UNCHANGED composeVars
    BY <2>7 DEF composeVars, ComposeInv, CompositionIsUnion, Merging, Agreeing, ToMerge, Before, IsFirst
  <2> QED BY <2>1, <2>2, <2>3, <2>4, <2>5, <2>6, <2>7 DEF ComposeNext
<1> QED BY <1>1, <1>2, PTL DEF ComposeSpec

\* A composition is the union of its sources, each entry as in the first source
\* that has it, and fails exactly if two sources disagree.
THEOREM ComposedIsUnion == ComposeSpec => []CompositionIsUnion
<1>1. ComposeInv => CompositionIsUnion
  BY DEF ComposeInv
<1> QED BY <1>1, ComposeInvariance, PTL

-----------------------------------------------------------------------------
\* A path of S is above p, or p is one.
Covered(p, S) == \E d \in S : Under(d, p)
Taken(s) == {splitPaths[s][i] : i \in 1 .. moved[s]}
AllTaken == UNION {Taken(s) : s \in Splits}

\* Output o has what was installed at x.
Holds(o, x) == x \in DOMAIN out[o] /\ out[o][x] = staged[x]
InstalledFiles == {x \in DOMAIN staged : ~IsDir(staged, x)}

\* What the copy takes: selected paths, what is below them and what is above.
CopiedPaths ==
  {x \in DOMAIN staged : IsSelected(x) \/ \E q \in ToSet(selected) : Under(x, q)}

SplitTyped ==
  /\ splitPaths \in [Splits -> Seq(Path)]
  /\ selected \in Seq(Path)
  /\ moved \in [Splits -> Nat] /\ \A s \in Splits : moved[s] <= Len(splitPaths[s])
  /\ linked \subseteq Splits
  /\ out = [o \in Outputs |-> out[o]]

\* The state before a phase.
SplitPhases ==
  /\ phase \in {"idle", "install", "copy"} =>
       selected = << >> /\ linked = {} /\ \A s \in Splits : moved[s] = 0 /\ DOMAIN out[s] = {}
  /\ phase \notin {"idle", "refused"} => SplitDisjoint(splitPaths)
  /\ phase \in {"copy", "split", "placed", "trimmed", "linked"} => staged \in Installed
  /\ phase = "split" => \A s \in linked : moved[s] = Len(splitPaths[s])
  /\ phase \in {"idle", "install", "copy", "split", "placed"} => excluded = {}

\* The primary output is what was copied without what was taken.
PrimaryHas ==
  /\ DOMAIN out[Primary] = {x \in CopiedPaths : ~Covered(x, AllTaken)}
  /\ \A x \in DOMAIN out[Primary] :
       out[Primary][x] = IF IsSelected(x) THEN staged[x] ELSE Dir
  /\ ToSet(selected) \subseteq DOMAIN staged

\* A split output has the files at and below what it took, in so far as they
\* are kept.
SplitsHave ==
  \A s \in Splits : \A x \in InstalledFiles :
    Holds(s, x) <=> Covered(x, Taken(s)) /\ Kept(x)

SplitInv ==
  /\ SplitTyped /\ SplitPhases
  /\ phase = "split" => PrimaryHas /\ SplitsHave
  /\ EachFileInItsOutput


\* Two declared paths that are both above a path, or it, are one.
LEMMA OneCover ==
  ASSUME NEW paths \in [Splits -> Seq(Path)], SplitDisjoint(paths), NEW x \in Path,
         NEW s \in Splits, NEW r \in Splits, NEW i \in DOMAIN paths[s], NEW j \in DOMAIN paths[r],
         Under(paths[s][i], x), Under(paths[r][j], x)
  PROVE  s = r /\ i = j
<1> DEFINE p == paths[s][i]
           q == paths[r][j]
<1>1. p \in Path /\ q \in Path
  OBVIOUS
<1>2. Len(p) \in Nat /\ Len(q) \in Nat
  BY <1>1 DEF Path
<1>3. Under(p, q) \/ Under(q, p)
  <2> HIDE DEF p, q
  <2>1. Under(p, x) /\ Under(q, x)
    BY DEF p, q
  <2>2. Len(p) <= Len(q) \/ Len(q) <= Len(p)
    BY <1>2
  <2> QED BY <1>1, <2>1, <2>2, UnderOrder
<1>4. <<s, i>> # <<r, j>> => ~Under(p, q) /\ ~Under(q, p)
  BY DEF SplitDisjoint
<1>5. <<s, i>> = <<r, j>>
  BY <1>3, <1>4
<1> QED BY <1>5

\* The paths of a tree into which others were copied.
LEMMA WithPathsDomain ==
  ASSUME NEW d, NEW t, NEW S
  PROVE  DOMAIN WithPaths(d, t, S) =
           {x \in DOMAIN t : Covered(x, S)} \cup DOMAIN d \cup UNION {Ancestors(p) : p \in S}
BY DEF WithPaths, Over, Covered

\* What is there: the copy, else what was there, else a directory.
LEMMA WithPathsValue ==
  ASSUME NEW d, NEW t, NEW S, NEW x \in DOMAIN WithPaths(d, t, S)
  PROVE  WithPaths(d, t, S)[x] =
           IF x \in DOMAIN t /\ Covered(x, S) THEN t[x]
           ELSE IF x \in DOMAIN d THEN d[x] ELSE Dir
BY DEF WithPaths, Over, Covered

\* What a tree with links has: at other paths what it had, or a directory.
LEMMA WithLinksHas ==
  ASSUME NEW d, NEW links, NEW target
  PROVE  /\ DOMAIN d \subseteq DOMAIN WithLinks(d, links, target)
         /\ \A x \in DOMAIN WithLinks(d, links, target) :
              \/ x \in links /\ WithLinks(d, links, target)[x] = Node("link", target, FALSE)
              \/ x \in DOMAIN d /\ WithLinks(d, links, target)[x] = d[x]
              \/ x \notin DOMAIN d /\ WithLinks(d, links, target)[x] = Dir
<1> DEFINE A == {Root} \cup UNION {Ancestors(p) : p \in links}
           l == [p \in links |-> Node("link", target, FALSE)]
           a == [q \in A |-> Dir]
<1>1. WithLinks(d, links, target) = Over(l, Over(d, a))
  BY DEF WithLinks
<1>2. /\ DOMAIN l = links /\ DOMAIN a = A
      /\ (\A x \in links : l[x] = Node("link", target, FALSE)) /\ (\A x \in A : a[x] = Dir)
  OBVIOUS
<1> HIDE DEF A, l, a
<1>3. /\ DOMAIN Over(d, a) = DOMAIN d \cup A
      /\ \A x \in DOMAIN d \cup A : Over(d, a)[x] = IF x \in DOMAIN d THEN d[x] ELSE Dir
  BY <1>2 DEF Over
<1>4. /\ DOMAIN Over(l, Over(d, a)) = links \cup DOMAIN d \cup A
      /\ \A x \in links \cup DOMAIN d \cup A :
           Over(l, Over(d, a))[x] = IF x \in links THEN Node("link", target, FALSE)
                                    ELSE IF x \in DOMAIN d THEN d[x] ELSE Dir
  BY <1>2, <1>3 DEF Over
<1> QED BY <1>1, <1>4

\* An installed file is neither a directory nor a link made here.
LEMMA FilesToldApart ==
  ASSUME staged \in Installed, NEW x \in InstalledFiles
  PROVE  /\ x \in DOMAIN staged /\ x \in Path
         /\ staged[x] # Dir
         /\ staged[x] # Node("link", "store", FALSE) /\ staged[x] # Node("link", "relative", FALSE)
<1>1. FiniteTree(staged) /\ \A p \in DOMAIN staged : staged[p].data \notin Made
  BY InstalledAssumption
<1>2. x \in DOMAIN staged /\ staged[x].kind # "dir"
  BY DEF InstalledFiles, IsDir
<1>3. Dir.kind = "dir"
  BY DEF Dir, Node
<1>4. Node("link", "store", FALSE).data = "store" /\ Node("link", "relative", FALSE).data = "relative"
  BY DEF Node
<1> QED BY <1>1, <1>2, <1>3, <1>4 DEF FiniteTree, Made

\* A tree keeps the installed files it has when links are made in it where
\* nothing was, and gets none.
LEMMA LinksKeepFiles ==
  ASSUME staged \in Installed, NEW x \in InstalledFiles, NEW d, NEW links, NEW target \in Made,
         \A p \in links : p \notin DOMAIN d
  PROVE  (x \in DOMAIN WithLinks(d, links, target) /\ WithLinks(d, links, target)[x] = staged[x])
           <=> (x \in DOMAIN d /\ d[x] = staged[x])
<1>1. staged[x] # Dir /\ staged[x] # Node("link", target, FALSE)
  BY FilesToldApart DEF Made
<1>2. x \in DOMAIN d => x \notin links
  OBVIOUS
<1> QED BY <1>1, <1>2, WithLinksHas

-----------------------------------------------------------------------------
\* At the start nothing is placed.
LEMMA SplitStart == SplitInit => SplitInv
<1> SUFFICES ASSUME SplitInit PROVE SplitInv
  OBVIOUS
<1> USE DEF SplitInit
<1>1. << >> \in Seq(Path)
  BY EmptySeq
<1>2. SplitTyped
  BY <1>1, EmptySeq DEF SplitTyped
<1>3. SplitPhases
  BY DEF SplitPhases, Outputs, Nothing
<1>4. EachFileInItsOutput
  BY DEF EachFileInItsOutput
<1> QED BY <1>2, <1>3, <1>4 DEF SplitInv

\* Declarations are taken as they are, if they are apart.
LEMMA ParseHolds ==
  ASSUME SplitInv, NEW paths \in [Splits \cup {Undeclared} -> PathLists],
         NEW prefixed, ParseSplitOutputs(paths, prefixed)
  PROVE  SplitInv'
<1> USE DEF SplitInv, ParseSplitOutputs
<1>1. splitPaths' \in [Splits -> Seq(Path)]
  BY PathsAssumption DEF SplitTyped
<1>2. SplitDisjoint(paths) => SplitDisjoint([s \in Splits |-> paths[s]])
  BY DEF SplitDisjoint
<1>3. SplitTyped'
  BY <1>1 DEF SplitTyped, SplitPhases
<1>4. SplitPhases'
  BY <1>2 DEF SplitPhases
<1>5. EachFileInItsOutput'
  BY DEF EachFileInItsOutput
<1> QED BY <1>3, <1>4, <1>5

\* What is installed is a tree.
LEMMA InstallHolds ==
  ASSUME SplitInv, NEW tree \in Installed, Install(tree)
  PROVE  SplitInv'
<1> USE DEF SplitInv, Install
<1>3. SplitTyped'
  BY DEF SplitTyped
<1>4. SplitPhases'
  BY DEF SplitPhases
<1>5. EachFileInItsOutput'
  BY DEF EachFileInItsOutput
<1> QED BY <1>3, <1>4, <1>5

\* A refusal leaves nothing to say.
LEMMA RefusalHolds ==
  ASSUME SplitInv, phase' = "refused", selected' \in Seq(Path),
         UNCHANGED <<splitPaths, staged, out, moved, linked, excluded>>
  PROVE  SplitInv'
<1>3. SplitTyped'
  BY DEF SplitInv, SplitTyped
<1>4. SplitPhases'
  BY DEF SplitInv, SplitPhases
<1>5. EachFileInItsOutput'
  BY DEF EachFileInItsOutput
<1> QED BY <1>3, <1>4, <1>5 DEF SplitInv

\* Before the first path is taken the split outputs have nothing.
LEMMA NothingTaken ==
  ASSUME SplitInv, phase = "copy"
  PROVE  /\ AllTaken = {} /\ \A s \in Splits : Taken(s) = {} /\ DOMAIN out[s] = {}
         /\ selected = << >> /\ staged \in Installed
<1>1. \A s \in Splits : moved[s] = 0 /\ DOMAIN out[s] = {}
  BY DEF SplitInv, SplitPhases
<1>2. \A s \in Splits : Taken(s) = {}
  BY <1>1 DEF Taken
<1> QED BY <1>1, <1>2 DEF AllTaken, SplitInv, SplitPhases

\* A copy of everything has everything.
LEMMA CopyWholeHolds ==
  ASSUME SplitInv, CopyWhole
  PROVE  SplitInv'
<1> USE DEF CopyWhole
<1>0. /\ AllTaken = {} /\ \A s \in Splits : Taken(s) = {} /\ DOMAIN out[s] = {}
      /\ selected = << >> /\ staged \in Installed
  BY NothingTaken
<1>1. /\ Primary \in Outputs /\ \A s \in Splits : s \in Outputs /\ s # Primary
  BY SplitsAssumption DEF Outputs, Primary
<1>2. /\ out'[Primary] = staged /\ \A s \in Splits : out'[s] = out[s]
      /\ out' = [o \in Outputs |-> out'[o]]
  BY <1>1 DEF SplitInv, SplitTyped
<1>3. SplitTyped'
  BY <1>2 DEF SplitInv, SplitTyped
<1>4. SplitPhases'
  BY <1>0 DEF SplitInv, SplitPhases
<1>5. \A x : IsSelected(x)' /\ ~Covered(x, AllTaken)' /\ \A s \in Splits : ~Covered(x, Taken(s))'
  <2>1. AllTaken' = {} /\ \A s \in Splits : Taken(s)' = {}
    <3>1. \A s \in Splits : Taken(s)' = Taken(s)
      BY DEF Taken
    <3>2. AllTaken' = AllTaken
      BY <3>1 DEF AllTaken
    <3> QED BY <1>0, <3>1, <3>2
  <2> QED BY <1>0, <2>1 DEF IsSelected, Covered
<1>6. PrimaryHas'
  <2>1. CopiedPaths' = DOMAIN staged
    BY <1>5 DEF CopiedPaths
  <2>2. ToSet(selected') = {}
    BY <1>0 DEF ToSet
  <2> QED BY <1>2, <1>5, <2>1, <2>2 DEF PrimaryHas
<1>7. SplitsHave'
  BY <1>0, <1>2, <1>5 DEF SplitsHave, Holds
<1>8. EachFileInItsOutput'
  BY DEF EachFileInItsOutput
<1> QED BY <1>3, <1>4, <1>6, <1>7, <1>8 DEF SplitInv

\* A copy of the selected paths has those, what is below and what is above.
LEMMA CopySelectedHolds ==
  ASSUME SplitInv, NEW paths \in PathLists \ {<< >>}, CopySelected(paths)
  PROVE  SplitInv'
<1> USE DEF CopySelected
<1>0. /\ AllTaken = {} /\ \A s \in Splits : Taken(s) = {} /\ DOMAIN out[s] = {}
      /\ selected = << >> /\ staged \in Installed
  BY NothingTaken
<1>a. paths \in Seq(Path) /\ ToSet(paths) \subseteq Path /\ ToSet(paths) # {}
  <2>1. paths \in Seq(Path) /\ paths # << >>
    BY PathsAssumption
  <2>2. Len(paths) \in Nat /\ Len(paths) >= 1 /\ DOMAIN paths = 1 .. Len(paths)
    BY <2>1
  <2>3. \A i \in 1 .. Len(paths) : paths[i] \in Path
    BY <2>1
  <2> QED BY <2>1, <2>2, <2>3 DEF ToSet
<1>b. CASE ~(Disjoint(paths) /\ ToSet(paths) \subseteq DOMAIN staged)
  BY <1>a, <1>b, RefusalHolds
<1>c. CASE Disjoint(paths) /\ ToSet(paths) \subseteq DOMAIN staged
  <2> DEFINE S == ToSet(paths)
             base == [q \in {Root} |-> Dir]
             copy == WithPaths(base, staged, S)
  <2>1. /\ Primary \in Outputs /\ \A s \in Splits : s \in Outputs /\ s # Primary
    BY SplitsAssumption DEF Outputs, Primary
  <2>2. /\ out'[Primary] = copy /\ \A s \in Splits : out'[s] = out[s]
        /\ out' = [o \in Outputs |-> out'[o]] /\ phase' = "split" /\ selected' = paths
        /\ paths # << >>
    BY <1>c, <2>1 DEF SplitInv, SplitTyped
  <2>3. FiniteTree(staged) /\ IsDir(staged, Root) /\ DOMAIN staged \subseteq Path
    BY <1>0, InstalledAssumption DEF FiniteTree
  <2>4. SplitTyped'
    BY <1>a, <2>2 DEF SplitInv, SplitTyped
  <2>5. SplitPhases'
    BY <1>0, <1>c DEF SplitInv, SplitPhases
  <2>6. \A x : /\ IsSelected(x)' <=> Covered(x, S)
               /\ ~Covered(x, AllTaken)' /\ \A s \in Splits : ~Covered(x, Taken(s))'
    <3>1. AllTaken' = {} /\ \A s \in Splits : Taken(s)' = {}
      <4>1. \A s \in Splits : Taken(s)' = Taken(s)
        BY <1>c DEF Taken
      <4>2. AllTaken' = AllTaken
        BY <4>1 DEF AllTaken
      <4> QED BY <1>0, <4>1, <4>2
    <3> QED BY <2>2, <3>1 DEF IsSelected, Covered
  <2>7. DOMAIN base = {Root} /\ base[Root] = Dir
    OBVIOUS
  <2>8. CopiedPaths' = {x \in DOMAIN staged : Covered(x, S) \/ \E q \in S : Under(x, q)}
    BY <2>2, <2>6 DEF CopiedPaths
  <2> HIDE DEF S, base, copy
  <2>9. DOMAIN copy = {x \in DOMAIN staged : Covered(x, S)} \cup {Root} \cup UNION {Ancestors(p) : p \in S}
    BY <2>7, WithPathsDomain DEF copy
  <2>10. \A x \in DOMAIN copy : copy[x] = IF Covered(x, S) /\ x \in DOMAIN staged THEN staged[x] ELSE Dir
    <3>1. \A x \in DOMAIN copy :
            copy[x] = IF x \in DOMAIN staged /\ Covered(x, S) THEN staged[x]
                      ELSE IF x \in DOMAIN base THEN base[x] ELSE Dir
      BY WithPathsValue DEF copy
    <3> QED BY <2>7, <3>1
  <2>11. DOMAIN copy = CopiedPaths'
    <3>1. ASSUME NEW x \in DOMAIN copy PROVE x \in CopiedPaths'
      <4>1. CASE x \in DOMAIN staged /\ Covered(x, S)
        BY <2>8, <4>1
      <4>2. CASE x = Root
        <5>1. PICK q \in S : TRUE
          BY <1>a DEF S
        <5>2. q \in Path /\ Root \in DOMAIN staged
          BY <1>a, <2>3 DEF S, IsDir
        <5>3. Under(Root, q)
          BY <5>2, UnderOrder
        <5> QED BY <2>8, <4>2, <5>2, <5>3
      <4>3. CASE x \in UNION {Ancestors(p) : p \in S}
        <5>1. PICK q \in S : x \in Ancestors(q)
          BY <4>3
        <5>2. q \in Path /\ q \in DOMAIN staged
          BY <1>a, <1>c DEF S
        <5>3. x \in Path /\ Under(x, q)
          BY <5>1, <5>2, AncestorsAbove
        <5>4. x \in DOMAIN staged
          BY <2>3, <5>2, <5>3, AboveIsThere
        <5> QED BY <2>8, <5>3, <5>4
      <4> QED BY <2>9, <4>1, <4>2, <4>3
    <3>2. ASSUME NEW x \in CopiedPaths' PROVE x \in DOMAIN copy
      <4>1. CASE Covered(x, S)
        BY <2>8, <2>9, <4>1
      <4>2. CASE \E q \in S : Under(x, q)
        <5>1. PICK q \in S : Under(x, q)
          BY <4>2
        <5>2. q \in Path /\ x \in Path /\ x \in DOMAIN staged
          BY <1>a, <2>3, <2>8 DEF S
        <5>3. CASE x = q
          BY <2>9, <5>1, <5>2, <5>3 DEF Covered
        <5>4. CASE x # q
          <6>1. x \in Ancestors(q)
            BY <5>1, <5>2, <5>4, AncestorsAbove
          <6> QED BY <2>9, <6>1
        <5> QED BY <5>3, <5>4
      <4> QED BY <2>8, <4>1, <4>2
    <3> QED BY <3>1, <3>2
  <2>12. PrimaryHas'
    <3>1. \A x \in DOMAIN copy : x \in DOMAIN staged
      BY <2>8, <2>11
    <3>2. ToSet(selected') \subseteq DOMAIN staged
      BY <1>c, <2>2
    <3>3. staged' = staged
      OBVIOUS
    <3> QED BY <2>2, <2>6, <2>10, <2>11, <3>1, <3>2, <3>3 DEF PrimaryHas
  <2>13. SplitsHave'
    BY <1>0, <2>2, <2>6 DEF SplitsHave, Holds
  <2>14. EachFileInItsOutput'
    BY <2>2 DEF EachFileInItsOutput
  <2> QED BY <2>4, <2>5, <2>12, <2>13, <2>14 DEF SplitInv
<1> QED BY <1>b, <1>c

-----------------------------------------------------------------------------
\* The path to be taken next from s: nothing at or below it was taken.
LEMMA NextPath ==
  ASSUME SplitInv, NEW s \in Splits, Next1(s)
  PROVE  LET p == splitPaths[s][moved[s] + 1]
         IN  /\ p \in Path /\ moved[s] + 1 \in DOMAIN splitPaths[s] /\ p \in ToSet(splitPaths[s])
             /\ \A x \in Path : Under(p, x) =>
                  /\ ~Covered(x, AllTaken) /\ ~Covered(x, Taken(s))
                  /\ \A r \in Splits : \A d \in ToSet(splitPaths[r]) : Under(d, x) => d = p
<1> DEFINE n == moved[s] + 1
           p == splitPaths[s][n]
<1>1. /\ splitPaths \in [Splits -> Seq(Path)] /\ SplitDisjoint(splitPaths)
      /\ \A r \in Splits : moved[r] \in Nat /\ moved[r] <= Len(splitPaths[r])
  BY DEF SplitInv, SplitTyped, SplitPhases, Next1, Serving
<1>2. \A r \in Splits : DOMAIN splitPaths[r] = 1 .. Len(splitPaths[r]) /\ Len(splitPaths[r]) \in Nat
  BY <1>1
<1>3. n \in DOMAIN splitPaths[s] /\ n \notin 1 .. moved[s]
  BY <1>1, <1>2 DEF Next1
<1>4. p \in Path /\ p \in ToSet(splitPaths[s])
  BY <1>1, <1>3 DEF ToSet
<1> HIDE DEF n
<1>5. ASSUME NEW x \in Path, Under(p, x), NEW r \in Splits, NEW j \in DOMAIN splitPaths[r],
             Under(splitPaths[r][j], x)
      PROVE  r = s /\ j = n
  BY <1>1, <1>3, <1>5, OneCover
<1>6. ASSUME NEW x \in Path, Under(p, x), NEW r \in Splits PROVE ~Covered(x, Taken(r))
  <2>1. \A j \in 1 .. moved[r] : j \in DOMAIN splitPaths[r]
    BY <1>1, <1>2
  <2>2. ASSUME NEW j \in 1 .. moved[r], Under(splitPaths[r][j], x) PROVE FALSE
    BY <1>3, <1>5, <1>6, <2>1, <2>2
  <2> QED BY <2>2 DEF Covered, Taken
<1>7. \A x \in Path : Under(p, x) => ~Covered(x, AllTaken)
  BY <1>6 DEF Covered, AllTaken
<1>8. ASSUME NEW x \in Path, Under(p, x), NEW r \in Splits, NEW d \in ToSet(splitPaths[r]), Under(d, x)
      PROVE  d = p
  <2>1. PICK j \in DOMAIN splitPaths[r] : d = splitPaths[r][j]
    BY DEF ToSet
  <2> QED BY <1>5, <1>8, <2>1
<1> QED BY <1>3, <1>4, <1>6, <1>7, <1>8 DEF n

\* A step that takes p from t for s: what changes, whatever t is.
TakesFrom(s, t) ==
  LET p == splitPaths[s][moved[s] + 1]
  IN  /\ Next1(s) /\ p \in DOMAIN t
      /\ out'[s] = WithPaths(out[s], t, {p})
      /\ \A r \in Splits \ {s} : out'[r] = out[r]
      /\ out' = [o \in Outputs |-> out'[o]]
      /\ moved' = [moved EXCEPT ![s] = @ + 1]
      /\ UNCHANGED <<splitPaths, staged, selected, linked, excluded, phase>>

\* What is taken by then.
LEMMA TakenNext ==
  ASSUME SplitInv, NEW s \in Splits, NEW t, TakesFrom(s, t)
  PROVE  LET p == splitPaths[s][moved[s] + 1]
         IN  /\ Taken(s)' = Taken(s) \cup {p}
             /\ \A r \in Splits \ {s} : Taken(r)' = Taken(r)
             /\ AllTaken' = AllTaken \cup {p}
<1> DEFINE n == moved[s] + 1
           p == splitPaths[s][n]
<1>1. moved[s] \in Nat /\ moved'[s] = n /\ \A r \in Splits \ {s} : moved'[r] = moved[r]
  BY DEF SplitInv, SplitTyped, TakesFrom
<1>2. splitPaths' = splitPaths
  BY DEF TakesFrom
<1>3. \A i : i \in 1 .. n <=> i \in 1 .. moved[s] \/ i = n
  BY <1>1
<1>4. Taken(s)' = {splitPaths[s][i] : i \in 1 .. n}
  BY <1>1, <1>2 DEF Taken
<1> HIDE DEF n
<1>5. Taken(s)' = Taken(s) \cup {p}
  BY <1>3, <1>4 DEF Taken
<1>6. \A r \in Splits \ {s} : Taken(r)' = Taken(r)
  BY <1>1, <1>2 DEF Taken
<1>7. AllTaken' = UNION {Taken(r)' : r \in Splits}
  BY DEF AllTaken
<1> HIDE DEF p
<1>8. AllTaken' = AllTaken \cup {p}
  <2>1. \A x : x \in AllTaken' <=> \E r \in Splits : x \in Taken(r)'
    BY <1>7
  <2>2. \A x : x \in AllTaken <=> \E r \in Splits : x \in Taken(r)
    BY DEF AllTaken
  <2>3. \A x : x \in AllTaken' <=> x \in AllTaken \cup {p}
    BY <1>5, <1>6, <2>1, <2>2
  <2> QED BY <2>3
<1> QED BY <1>5, <1>6, <1>8 DEF p, n

\* Typing and phases are kept by any such step.
LEMMA TakeTyped ==
  ASSUME SplitInv, NEW s \in Splits, NEW t, TakesFrom(s, t)
  PROVE  SplitTyped' /\ SplitPhases' /\ EachFileInItsOutput'
<1>1. phase = "split" /\ s \notin linked
  BY DEF TakesFrom, Next1, Serving
<1>2. moved[s] < Len(splitPaths[s])
  BY DEF TakesFrom, Next1
<1>3. /\ moved \in [Splits -> Nat] /\ moved' = [moved EXCEPT ![s] = @ + 1]
      /\ splitPaths \in [Splits -> Seq(Path)]
  BY DEF SplitInv, SplitTyped, TakesFrom
<1>4. moved' \in [Splits -> Nat] /\ \A r \in Splits : moved'[r] <= Len(splitPaths[r])
  <2>1. Len(splitPaths[s]) \in Nat
    BY <1>3
  <2> QED BY <1>2, <1>3, <2>1 DEF SplitInv, SplitTyped
<1>5. SplitTyped'
  BY <1>4 DEF SplitInv, SplitTyped, TakesFrom
<1>6. SplitPhases'
  <2>1. \A r \in linked : moved'[r] = moved[r]
    BY <1>1, <1>3 DEF SplitInv, SplitTyped
  <2> QED BY <1>1, <2>1 DEF SplitInv, SplitPhases, TakesFrom, SplitDisjoint
<1>7. EachFileInItsOutput'
  BY <1>1 DEF EachFileInItsOutput, TakesFrom
<1> QED BY <1>5, <1>6, <1>7

\* The split outputs have what they should if the files that are kept, and no
\* others, are in t at or below p as they were installed.
LEMMA TakeHas ==
  ASSUME SplitInv, NEW s \in Splits, NEW t, TakesFrom(s, t),
         \A x \in InstalledFiles : Under(splitPaths[s][moved[s] + 1], x) =>
           ((x \in DOMAIN t /\ t[x] = staged[x]) <=> Kept(x))
  PROVE  SplitsHave'
<1> DEFINE p == splitPaths[s][moved[s] + 1]
<1>1. phase = "split" /\ SplitsHave /\ staged \in Installed /\ Next1(s)
  BY DEF TakesFrom, Next1, Serving, SplitInv, SplitPhases
<1>2. p \in Path /\ \A x \in Path : Under(p, x) => ~Covered(x, Taken(s))
  BY <1>1, NextPath
<1>3. /\ Taken(s)' = Taken(s) \cup {p} /\ \A r \in Splits \ {s} : Taken(r)' = Taken(r)
  BY TakenNext
<1>4. /\ \A x : Kept(x)' <=> Kept(x)
      /\ InstalledFiles' = InstalledFiles
      /\ \A r \in Splits \ {s} : \A x : Holds(r, x)' <=> Holds(r, x)
  <2>1. UNCHANGED <<splitPaths, staged, selected>> /\ \A r \in Splits \ {s} : out'[r] = out[r]
    BY DEF TakesFrom
  <2> QED BY <2>1 DEF Kept, IsSelected, InstalledFiles, Holds
<1>5. ASSUME NEW r \in Splits \ {s}, NEW x \in InstalledFiles
      PROVE  Holds(r, x)' <=> Covered(x, Taken(r))' /\ Kept(x)'
  <2>1. Covered(x, Taken(r))' <=> Covered(x, Taken(r))
    BY <1>3 DEF Covered
  <2> QED BY <1>1, <1>4, <2>1 DEF SplitsHave
<1>6. ASSUME NEW x \in InstalledFiles
      PROVE  Holds(s, x)' <=> Covered(x, Taken(s))' /\ Kept(x)'
  <2>1. x \in DOMAIN staged /\ x \in Path /\ staged[x] # Dir
    BY <1>1, FilesToldApart
  <2>2. Covered(x, Taken(s))' <=> Covered(x, Taken(s)) \/ Under(p, x)
    <3> HIDE DEF p
    <3> QED BY <1>3 DEF Covered
  <2>3. Holds(s, x) <=> Covered(x, Taken(s)) /\ Kept(x)
    BY <1>1 DEF SplitsHave
  <2>4. out'[s] = WithPaths(out[s], t, {p}) /\ staged' = staged
    BY DEF TakesFrom
  <2>5. Covered(x, {p}) <=> Under(p, x)
    BY DEF Covered
  <2> DEFINE w == WithPaths(out[s], t, {p})
  <2>6. /\ x \in DOMAIN t /\ Under(p, x) => x \in DOMAIN w
        /\ x \in DOMAIN out[s] => x \in DOMAIN w
    <3> HIDE DEF p
    <3>1. DOMAIN w = {y \in DOMAIN t : Covered(y, {p})} \cup DOMAIN out[s] \cup UNION {Ancestors(q) : q \in {p}}
      BY WithPathsDomain
    <3> HIDE DEF w
    <3> QED BY <2>5, <3>1
  <2>7. x \in DOMAIN w =>
          w[x] = IF x \in DOMAIN t /\ Under(p, x) THEN t[x]
                 ELSE IF x \in DOMAIN out[s] THEN out[s][x] ELSE Dir
    BY <2>5, WithPathsValue
  <2>8. Holds(s, x)' <=> x \in DOMAIN w /\ w[x] = staged[x]
    BY <2>4 DEF Holds
  <2> HIDE DEF w, p
  <2>9. CASE Under(p, x)
    <3>1. ~Holds(s, x)
      BY <1>2, <2>1, <2>3, <2>9
    <3>2. Holds(s, x)' <=> x \in DOMAIN t /\ t[x] = staged[x]
      BY <2>1, <2>6, <2>7, <2>8, <2>9, <3>1 DEF Holds
    <3>3. Holds(s, x)' <=> Kept(x)
      BY <2>9, <3>2 DEF p
    <3> QED BY <1>4, <2>2, <2>9, <3>3
  <2>10. CASE ~Under(p, x)
    <3>1. Holds(s, x)' <=> Holds(s, x)
      BY <2>1, <2>6, <2>7, <2>8, <2>10 DEF Holds
    <3> QED BY <1>4, <2>2, <2>3, <2>10, <3>1
  <2> QED BY <2>9, <2>10
<1>7. \A r \in Splits : \A x \in InstalledFiles' : Holds(r, x)' <=> Covered(x, Taken(r))' /\ Kept(x)'
  <2>1. \A r \in Splits : r = s \/ r \in Splits \ {s}
    OBVIOUS
  <2> QED BY <1>4, <1>5, <1>6, <2>1
<1> QED BY <1>7 DEF SplitsHave

\* What was copied below a path is selected if the path is; and all of it.
LEMMA BelowSelected ==
  ASSUME SplitInv, NEW p \in Path, NEW x \in Path, Under(p, x)
  PROVE  /\ IsSelected(p) => IsSelected(x)
         /\ (\E q \in ToSet(selected) : Under(x, q)) => \E q \in ToSet(selected) : Under(p, q)
         /\ IsSelected(x) => IsSelected(p) \/ \E q \in ToSet(selected) : Under(p, q)
<1>1. ToSet(selected) \subseteq Path
  BY DEF SplitInv, SplitTyped, ToSet
<1>2. IsSelected(p) => IsSelected(x)
  BY <1>1, UnderOrder DEF IsSelected
<1>3. \A q \in ToSet(selected) : Under(x, q) => Under(p, q)
  BY <1>1, UnderOrder
<1>4. ASSUME NEW q \in ToSet(selected), Under(q, x) PROVE Under(q, p) \/ Under(p, q)
  <2>1. q \in Path /\ Len(q) \in Nat /\ Len(p) \in Nat
    BY <1>1 DEF Path
  <2>2. Len(q) <= Len(p) \/ Len(p) <= Len(q)
    BY <2>1
  <2> QED BY <1>4, <2>1, <2>2, UnderOrder
<1> QED BY <1>2, <1>3, <1>4 DEF IsSelected

\* What the primary output has of a path moves to its split output.
LEMMA TakeFromPrimaryHolds ==
  ASSUME SplitInv, NEW s \in Splits, TakeFromPrimary(s)
  PROVE  SplitInv'
<1> DEFINE p == splitPaths[s][moved[s] + 1]
           t == out[Primary]
<1>1. /\ Primary \in Outputs /\ s \in Outputs /\ s # Primary
      /\ \A r \in Splits : r \in Outputs /\ r # Primary
  BY SplitsAssumption DEF Outputs, Primary
<1>2. out = [o \in Outputs |-> out[o]]
  BY DEF SplitInv, SplitTyped
<1>3. out' = [out EXCEPT ![s] = WithPaths(@, out[Primary], {p}), ![Primary] = Without(@, p)]
  BY DEF TakeFromPrimary
<1>4. /\ out'[s] = WithPaths(out[s], t, {p}) /\ out'[Primary] = Without(t, p)
      /\ \A r \in Splits \ {s} : out'[r] = out[r]
      /\ out' = [o \in Outputs |-> out'[o]]
  <2> HIDE DEF p
  <2> QED BY <1>1, <1>2, <1>3
<1>5. TakesFrom(s, t)
  BY <1>4 DEF TakeFromPrimary, TakesFrom
<1>6. Next1(s) /\ p \in DOMAIN t /\ phase = "split" /\ staged \in Installed /\ PrimaryHas
  BY DEF TakeFromPrimary, Next1, Serving, SplitInv, SplitPhases
<1>7. /\ p \in Path /\ p \in ToSet(splitPaths[s])
      /\ \A x \in Path : Under(p, x) =>
           /\ ~Covered(x, AllTaken)
           /\ \A r \in Splits : \A d \in ToSet(splitPaths[r]) : Under(d, x) => d = p
  BY <1>6, NextPath
<1>8. FiniteTree(staged) /\ DOMAIN staged \subseteq Path
  BY <1>6, InstalledAssumption DEF FiniteTree
<1>9. AllTaken' = AllTaken \cup {p} /\ UNCHANGED <<splitPaths, staged, selected, phase>>
  BY <1>5, TakenNext DEF TakesFrom
<1> HIDE DEF p, t
<1>10. ASSUME NEW x \in InstalledFiles, Under(p, x)
       PROVE  (x \in DOMAIN t /\ t[x] = staged[x]) <=> Kept(x)
  <2>1. x \in DOMAIN staged /\ x \in Path /\ staged[x] # Dir
    BY <1>6, FilesToldApart
  <2>2. x \in DOMAIN t <=> x \in CopiedPaths
    BY <1>6, <1>7, <1>10, <2>1 DEF PrimaryHas, t
  <2>3. x \in DOMAIN t => t[x] = IF IsSelected(x) THEN staged[x] ELSE Dir
    BY <1>6 DEF PrimaryHas, t
  <2>4. (x \in DOMAIN t /\ t[x] = staged[x]) <=> IsSelected(x)
    BY <2>1, <2>2, <2>3 DEF CopiedPaths
  <2>5. p \in CopiedPaths
    BY <1>6 DEF PrimaryHas, t
  <2>6. ASSUME ~IsSelected(x) PROVE ~Kept(x)
    <3>1. ~IsSelected(p)
      BY <1>7, <1>10, <2>1, <2>6, BelowSelected
    <3>2. \E q \in ToSet(selected) : Under(p, q)
      BY <2>5, <3>1 DEF CopiedPaths
    <3> QED BY <1>7, <1>10, <2>1, <2>6, <3>2 DEF Kept
  <2> QED BY <2>4, <2>6 DEF Kept
<1>11. SplitsHave'
  BY <1>5, <1>10, TakeHas DEF p
<1>12. PrimaryHas'
  <2>1. DOMAIN Without(t, p) = {x \in DOMAIN t : ~Under(p, x)}
        /\ \A x \in DOMAIN Without(t, p) : Without(t, p)[x] = t[x]
    BY DEF Without
  <2>2. \A x : Covered(x, AllTaken)' <=> Covered(x, AllTaken) \/ Under(p, x)
    BY <1>9 DEF Covered
  <2>3. CopiedPaths' = CopiedPaths /\ \A x : IsSelected(x)' <=> IsSelected(x)
    BY <1>9 DEF CopiedPaths, IsSelected
  <2>4. DOMAIN t = {x \in CopiedPaths : ~Covered(x, AllTaken)}
        /\ (\A x \in DOMAIN t : t[x] = IF IsSelected(x) THEN staged[x] ELSE Dir)
        /\ ToSet(selected) \subseteq DOMAIN staged
    BY <1>6 DEF PrimaryHas, t
  <2>5. out'[Primary] = Without(t, p)
    BY <1>4
  <2> DEFINE w == Without(t, p)
  <2> HIDE DEF w
  <2>6. DOMAIN w = {x \in CopiedPaths : ~Covered(x, AllTaken)'}
    <3>1. \A x : x \in DOMAIN w <=> x \in CopiedPaths /\ ~Covered(x, AllTaken)'
      BY <2>1, <2>2, <2>4 DEF w
    <3> QED BY <3>1
  <2>7. \A x \in DOMAIN w : w[x] = IF IsSelected(x) THEN staged[x] ELSE Dir
    BY <2>1, <2>4 DEF w
  <2> QED BY <1>9, <2>3, <2>4, <2>5, <2>6, <2>7 DEF PrimaryHas, w
<1> QED BY <1>5, <1>9, <1>11, <1>12, TakeTyped DEF SplitInv

\* What it has nothing of is copied, and nobody else has it.
LEMMA TakeFromStagedHolds ==
  ASSUME SplitInv, NEW s \in Splits, TakeFromStaged(s)
  PROVE  SplitInv'
<1> DEFINE p == splitPaths[s][moved[s] + 1]
<1>1. /\ Primary \in Outputs /\ s \in Outputs /\ s # Primary
      /\ \A r \in Splits : r \in Outputs /\ r # Primary
  BY SplitsAssumption DEF Outputs, Primary
<1>2. out = [o \in Outputs |-> out[o]]
  BY DEF SplitInv, SplitTyped
<1>3. out' = [out EXCEPT ![s] = WithPaths(@, staged, {p})]
  BY DEF TakeFromStaged
<1>4. /\ out'[s] = WithPaths(out[s], staged, {p}) /\ out'[Primary] = out[Primary]
      /\ \A r \in Splits \ {s} : out'[r] = out[r]
      /\ out' = [o \in Outputs |-> out'[o]]
  <2> HIDE DEF p
  <2> QED BY <1>1, <1>2, <1>3
<1>5. TakesFrom(s, staged)
  BY <1>4 DEF TakeFromStaged, TakesFrom
<1>6. /\ Next1(s) /\ p \in DOMAIN staged /\ p \notin DOMAIN out[Primary]
      /\ phase = "split" /\ staged \in Installed /\ PrimaryHas
  BY DEF TakeFromStaged, Next1, Serving, SplitInv, SplitPhases
<1>7. /\ p \in Path /\ p \in ToSet(splitPaths[s])
      /\ \A x \in Path : Under(p, x) => ~Covered(x, AllTaken)
  BY <1>6, NextPath
<1>8. FiniteTree(staged) /\ DOMAIN staged \subseteq Path
  BY <1>6, InstalledAssumption DEF FiniteTree
<1>9. AllTaken' = AllTaken \cup {p} /\ UNCHANGED <<splitPaths, staged, selected, phase>>
  BY <1>5, TakenNext DEF TakesFrom
<1> HIDE DEF p
<1>10. ~IsSelected(p) /\ ~ \E q \in ToSet(selected) : Under(p, q)
  <2>1. p \notin CopiedPaths
    <3>1. Under(p, p)
      BY <1>7, UnderOrder
    <3> QED BY <1>6, <1>7, <3>1 DEF PrimaryHas
  <2> QED BY <1>6, <2>1 DEF CopiedPaths
<1>11. \A x \in InstalledFiles : Under(p, x) => Kept(x) /\ x \in DOMAIN staged
  BY <1>6, <1>7, <1>10 DEF Kept, InstalledFiles
<1>12. SplitsHave'
  BY <1>5, <1>11, TakeHas DEF p
<1>13. \A x \in CopiedPaths : ~Under(p, x)
  <2> SUFFICES ASSUME NEW x \in CopiedPaths, Under(p, x) PROVE FALSE
    OBVIOUS
  <2>1. x \in Path
    BY <1>8 DEF CopiedPaths
  <2> QED BY <1>7, <1>10, <2>1, BelowSelected DEF CopiedPaths
<1>14. PrimaryHas'
  <2>1. \A x \in CopiedPaths : Covered(x, AllTaken)' <=> Covered(x, AllTaken)
    BY <1>9, <1>13 DEF Covered
  <2>2. CopiedPaths' = CopiedPaths /\ \A x : IsSelected(x)' <=> IsSelected(x)
    BY <1>9 DEF CopiedPaths, IsSelected
  <2>3. {x \in CopiedPaths : ~Covered(x, AllTaken)'} = {x \in CopiedPaths : ~Covered(x, AllTaken)}
    BY <2>1
  <2> QED BY <1>4, <1>6, <1>9, <2>2, <2>3 DEF PrimaryHas
<1> QED BY <1>5, <1>9, <1>12, <1>14, TakeTyped DEF SplitInv

-----------------------------------------------------------------------------
\* Whose a path is.
LEMMA OwnerOf ==
  ASSUME SplitTyped, SplitDisjoint(splitPaths), NEW x \in Path
  PROVE  /\ \A s \in Splits : Covered(x, ToSet(splitPaths[s])) => Owner(x) = s
         /\ (\A s \in Splits : ~Covered(x, ToSet(splitPaths[s]))) => Owner(x) = Primary
<1>1. splitPaths \in [Splits -> Seq(Path)]
  BY DEF SplitTyped
<1> DEFINE Has(s) == \E d \in ToSet(splitPaths[s]) : Under(d, x)
<1>2. ASSUME NEW s \in Splits, NEW r \in Splits, Has(s), Has(r) PROVE s = r
  <2>1. PICK i \in DOMAIN splitPaths[s] : Under(splitPaths[s][i], x)
    BY <1>2 DEF ToSet
  <2>2. PICK j \in DOMAIN splitPaths[r] : Under(splitPaths[r][j], x)
    BY <1>2 DEF ToSet
  <2> QED BY <1>1, <2>1, <2>2, OneCover
<1>3. Owner(x) = IF \E s \in Splits : Has(s) THEN CHOOSE s \in Splits : Has(s) ELSE Primary
  BY DEF Owner
<1>4. \A s : Covered(x, ToSet(splitPaths[s])) <=> Has(s)
  BY DEF Covered
<1> HIDE DEF Has
<1>5. (\E s \in Splits : Has(s)) => (CHOOSE s \in Splits : Has(s)) \in Splits /\ Has(CHOOSE s \in Splits : Has(s))
  OBVIOUS
<1> QED BY <1>2, <1>3, <1>4, <1>5

\* When every declared path was taken, each file is where it belongs.
LEMMA AllInPlace ==
  ASSUME SplitInv, phase = "split", \A s \in Splits : moved[s] = Len(splitPaths[s]),
         NEW x \in InstalledFiles, NEW o \in Outputs
  PROVE  Holds(o, x) <=> Kept(x) /\ o = Owner(x)
<1>1. /\ PrimaryHas /\ SplitsHave /\ SplitTyped /\ SplitDisjoint(splitPaths) /\ staged \in Installed
  BY DEF SplitInv, SplitPhases
<1>2. x \in DOMAIN staged /\ x \in Path /\ staged[x] # Dir
  BY <1>1, FilesToldApart
<1>3. \A s \in Splits : Taken(s) = ToSet(splitPaths[s])
  <2>1. \A s \in Splits : DOMAIN splitPaths[s] = 1 .. moved[s]
    BY <1>1 DEF SplitTyped
  <2> QED BY <2>1 DEF Taken, ToSet
<1>4. /\ Primary \notin Splits /\ (o = Primary \/ o \in Splits)
  BY SplitsAssumption DEF Outputs, Primary
<1>5. CASE o \in Splits
  <2>1. Holds(o, x) <=> Covered(x, ToSet(splitPaths[o])) /\ Kept(x)
    BY <1>1, <1>3, <1>5 DEF SplitsHave
  <2>2. Covered(x, ToSet(splitPaths[o])) <=> o = Owner(x)
    <3>1. CASE \E s \in Splits : Covered(x, ToSet(splitPaths[s]))
      BY <1>1, <1>2, <1>5, <3>1, OwnerOf
    <3>2. CASE ~ \E s \in Splits : Covered(x, ToSet(splitPaths[s]))
      BY <1>1, <1>2, <1>4, <1>5, <3>2, OwnerOf
    <3> QED BY <3>1, <3>2
  <2> QED BY <2>1, <2>2
<1>6. CASE o = Primary
  <2>1. Holds(Primary, x) <=> x \in CopiedPaths /\ ~Covered(x, AllTaken) /\ IsSelected(x)
    BY <1>1, <1>2 DEF PrimaryHas, Holds
  <2>2. Covered(x, AllTaken) <=> \E s \in Splits : Covered(x, Taken(s))
    BY DEF Covered, AllTaken
  <2>3. CASE \E s \in Splits : Covered(x, ToSet(splitPaths[s]))
    <3>1. Owner(x) # Primary
      BY <1>1, <1>2, <1>4, <2>3, OwnerOf
    <3> QED BY <1>3, <1>6, <2>1, <2>2, <2>3, <3>1
  <2>4. CASE \A s \in Splits : ~Covered(x, ToSet(splitPaths[s]))
    <3>1. Owner(x) = Primary
      BY <1>1, <1>2, <2>4, OwnerOf
    <3>2. Kept(x) <=> IsSelected(x)
      BY <2>4 DEF Kept, Covered
    <3>3. IsSelected(x) => x \in CopiedPaths
      BY <1>2 DEF CopiedPaths
    <3> QED BY <1>3, <1>6, <2>1, <2>2, <2>4, <3>1, <3>2, <3>3
  <2> QED BY <2>3, <2>4
<1> QED BY <1>4, <1>5, <1>6

\* A path that was not installed ends the split.
LEMMA MissingHolds ==
  ASSUME SplitInv, NEW s \in Splits, MissingSplitPath(s)
  PROVE  SplitInv'
<1>1. selected' \in Seq(Path)
  BY DEF SplitInv, SplitTyped, MissingSplitPath
<1> QED BY <1>1, RefusalHolds DEF MissingSplitPath

\* Links are made where nothing is; after the last all files are in place.
LEMMA LinkReferencesHolds ==
  ASSUME SplitInv, NEW s \in Splits, NEW links \in SUBSET LinkPaths, LinkReferences(s, links)
  PROVE  SplitInv'
<1>1. /\ phase = "split" /\ s \notin linked /\ moved[s] = Len(splitPaths[s])
      /\ PrimaryHas /\ SplitsHave /\ SplitTyped /\ SplitPhases /\ staged \in Installed
      /\ UNCHANGED <<splitPaths, staged, selected, moved, excluded>>
  BY DEF SplitInv, SplitPhases, LinkReferences, Serving
<1>2. CASE ~ \A p \in links : Linkable(out[s], p)
  <2>1. phase' = "refused" /\ UNCHANGED <<out, linked>>
    BY <1>2 DEF LinkReferences
  <2>2. selected' \in Seq(Path)
    BY <1>1 DEF SplitTyped
  <2> QED BY <1>1, <2>1, <2>2, RefusalHolds
<1>3. CASE \A p \in links : Linkable(out[s], p)
  <2>1. /\ out' = [out EXCEPT ![s] = WithLinks(@, links, "store")]
        /\ linked' = linked \cup {s}
        /\ phase' = IF linked' = Splits THEN "placed" ELSE phase
    BY <1>3 DEF LinkReferences
  <2>2. /\ Primary \in Outputs /\ \A r \in Splits : r \in Outputs /\ r # Primary
    BY SplitsAssumption DEF Outputs, Primary
  <2>3. /\ out'[s] = WithLinks(out[s], links, "store") /\ out'[Primary] = out[Primary]
        /\ \A o \in Outputs \ {s} : out'[o] = out[o]
        /\ out' = [o \in Outputs |-> out'[o]]
    BY <1>1, <2>1, <2>2 DEF SplitTyped
  <2>4. \A x \in InstalledFiles, o \in Outputs : Holds(o, x)' <=> Holds(o, x)
    <3>1. ASSUME NEW x \in InstalledFiles PROVE Holds(s, x)' <=> Holds(s, x)
      <4>1. \A p \in links : p \notin DOMAIN out[s]
        BY <1>3 DEF Linkable
      <4>2. (x \in DOMAIN WithLinks(out[s], links, "store") /\ WithLinks(out[s], links, "store")[x] = staged[x])
              <=> (x \in DOMAIN out[s] /\ out[s][x] = staged[x])
        BY <1>1, <4>1, LinksKeepFiles DEF Made
      <4> QED BY <1>1, <2>3, <4>2 DEF Holds
    <3>2. ASSUME NEW x \in InstalledFiles, NEW o \in Outputs \ {s} PROVE Holds(o, x)' <=> Holds(o, x)
      BY <1>1, <2>3 DEF Holds
    <3> QED BY <3>1, <3>2
  <2>5. SplitTyped'
    BY <1>1, <2>1, <2>3 DEF SplitTyped
  <2>6. SplitPhases'
    BY <1>1, <2>1 DEF SplitPhases, SplitDisjoint
  <2>7. /\ \A x : (Kept(x)' <=> Kept(x)) /\ (IsSelected(x)' <=> IsSelected(x)) /\ Owner(x)' = Owner(x)
        /\ \A r \in Splits : Taken(r)' = Taken(r)
        /\ AllTaken' = AllTaken /\ CopiedPaths' = CopiedPaths /\ InstalledFiles' = InstalledFiles
    BY <1>1 DEF Kept, IsSelected, Owner, Taken, AllTaken, CopiedPaths, InstalledFiles
  <2>8. PrimaryHas' /\ SplitsHave'
    <3>1. PrimaryHas'
      BY <1>1, <2>3, <2>7 DEF PrimaryHas, Covered
    <3>2. \A r \in Splits : \A x : Covered(x, Taken(r))' <=> Covered(x, Taken(r))
      BY <2>7 DEF Covered
    <3>3. SplitsHave'
      BY <1>1, <2>2, <2>4, <2>7, <3>2 DEF SplitsHave
    <3> QED BY <3>1, <3>3
  <2>9. EachFileInItsOutput'
    <3>1. CASE linked' # Splits
      BY <1>1, <2>1, <3>1 DEF EachFileInItsOutput
    <3>2. CASE linked' = Splits
      <4>1. \A r \in Splits : moved[r] = Len(splitPaths[r])
        BY <1>1, <2>1, <3>2 DEF SplitPhases
      <4>2. \A x \in InstalledFiles, o \in Outputs : Holds(o, x) <=> Kept(x) /\ o = Owner(x)
        BY <1>1, <4>1, AllInPlace
      <4>3. excluded' = {}
        BY <1>1 DEF SplitPhases
      <4> QED BY <1>1, <2>4, <2>7, <4>2, <4>3 DEF EachFileInItsOutput, Holds, InstalledFiles
    <3> QED BY <3>1, <3>2
  <2> QED BY <2>5, <2>6, <2>8, <2>9 DEF SplitInv
<1> QED BY <1>2, <1>3

\* Excluded files go from every output.
LEMMA ExcludeHolds ==
  ASSUME SplitInv, NEW names, ExcludeFileSuffixes(names)
  PROVE  SplitInv'
<1>1. /\ phase = "placed" /\ phase' = "trimmed" /\ excluded = {} /\ excluded' = names
      /\ staged \in Installed /\ SplitTyped /\ SplitPhases /\ EachFileInItsOutput
      /\ UNCHANGED <<splitPaths, staged, selected, moved, linked>>
  BY DEF ExcludeFileSuffixes, SplitInv, SplitPhases
<1>2. \A o \in Outputs :
        /\ DOMAIN out'[o] = {q \in DOMAIN out[o] : IsDir(out[o], q) \/ Name(q) \notin names}
        /\ \A p \in DOMAIN out'[o] : out'[o][p] = out[o][p]
  BY DEF ExcludeFileSuffixes
<1>3. SplitTyped'
  BY <1>1 DEF SplitTyped, ExcludeFileSuffixes
<1>4. SplitPhases'
  BY <1>1 DEF SplitPhases, SplitDisjoint
<1>5. \A x : (Kept(x)' <=> Kept(x)) /\ Owner(x)' = Owner(x)
  BY <1>1 DEF Kept, IsSelected, Owner
<1>6. ASSUME NEW x \in InstalledFiles, NEW o \in Outputs
      PROVE  Holds(o, x)' <=> Kept(x) /\ o = Owner(x) /\ Name(x) \notin names
  <2>1. Holds(o, x) <=> Kept(x) /\ o = Owner(x)
    BY <1>1 DEF EachFileInItsOutput, Holds, InstalledFiles
  <2>2. Holds(o, x) => ~IsDir(out[o], x)
    BY DEF Holds, InstalledFiles, IsDir
  <2>3. Holds(o, x)' <=> Holds(o, x) /\ Name(x) \notin names
    BY <1>1, <1>2, <2>2 DEF Holds
  <2> QED BY <2>1, <2>3
<1>7. EachFileInItsOutput'
  BY <1>1, <1>5, <1>6 DEF EachFileInItsOutput, Holds, InstalledFiles
<1> QED BY <1>1, <1>3, <1>4, <1>7 DEF SplitInv

\* So do links made in the primary output leave the files alone.
LEMMA CreateSymlinkHolds ==
  ASSUME SplitInv, NEW p \in LinkPaths, CreateSymlink(p)
  PROVE  SplitInv'
<1>1. /\ phase = "trimmed" /\ staged \in Installed /\ SplitTyped /\ SplitPhases /\ EachFileInItsOutput
      /\ UNCHANGED <<splitPaths, staged, selected, moved, linked, excluded>>
  BY DEF CreateSymlink, SplitInv, SplitPhases
<1>2. CASE ~Linkable(out[Primary], p)
  <2>1. phase' = "refused" /\ UNCHANGED out
    BY <1>2 DEF CreateSymlink
  <2>2. selected' \in Seq(Path)
    BY <1>1 DEF SplitTyped
  <2> QED BY <1>1, <2>1, <2>2, RefusalHolds
<1>3. CASE Linkable(out[Primary], p)
  <2>1. out' = [out EXCEPT ![Primary] = WithLinks(@, {p}, "relative")] /\ phase' = "linked"
    BY <1>3 DEF CreateSymlink
  <2>2. Primary \in Outputs
    BY DEF Outputs
  <2>3. /\ out'[Primary] = WithLinks(out[Primary], {p}, "relative")
        /\ \A o \in Outputs \ {Primary} : out'[o] = out[o]
        /\ out' = [o \in Outputs |-> out'[o]]
    BY <1>1, <2>1, <2>2 DEF SplitTyped
  <2>4. \A x \in InstalledFiles, o \in Outputs : Holds(o, x)' <=> Holds(o, x)
    <3>1. ASSUME NEW x \in InstalledFiles PROVE Holds(Primary, x)' <=> Holds(Primary, x)
      <4>1. \A q \in {p} : q \notin DOMAIN out[Primary]
        BY <1>3 DEF Linkable
      <4>2. (x \in DOMAIN WithLinks(out[Primary], {p}, "relative")
               /\ WithLinks(out[Primary], {p}, "relative")[x] = staged[x])
              <=> (x \in DOMAIN out[Primary] /\ out[Primary][x] = staged[x])
        BY <1>1, <4>1, LinksKeepFiles DEF Made
      <4> QED BY <1>1, <2>3, <4>2 DEF Holds
    <3>2. ASSUME NEW x \in InstalledFiles, NEW o \in Outputs \ {Primary} PROVE Holds(o, x)' <=> Holds(o, x)
      BY <1>1, <2>3 DEF Holds
    <3> QED BY <3>1, <3>2
  <2>5. SplitTyped'
    BY <1>1, <2>1, <2>3 DEF SplitTyped
  <2>6. SplitPhases'
    BY <1>1, <2>1 DEF SplitPhases, SplitDisjoint
  <2>7. \A x : (Kept(x)' <=> Kept(x)) /\ Owner(x)' = Owner(x)
    BY <1>1 DEF Kept, IsSelected, Owner
  <2>8. EachFileInItsOutput'
    BY <1>1, <2>4, <2>7 DEF EachFileInItsOutput, Holds, InstalledFiles
  <2> QED BY <2>1, <2>5, <2>6, <2>8 DEF SplitInv
<1> QED BY <1>2, <1>3

\* Every step keeps the invariant of the split.
LEMMA SplitStep ==
  ASSUME SplitInv, [SplitNext]_splitVars
  PROVE  SplitInv'
<1>1. CASE phase = "idle" /\ \E paths \in [Splits \cup {Undeclared} -> PathLists],
                               prefixed \in SUBSET (Splits \cup {Undeclared}) :
             ParseSplitOutputs(paths, prefixed)
  BY <1>1, ParseHolds
<1>2. CASE phase = "install" /\ \E tree \in Installed : Install(tree)
  BY <1>2, InstallHolds
<1>3. CASE CopyWhole
  BY <1>3, CopyWholeHolds
<1>4. CASE \E paths \in PathLists \ {<< >>} : CopySelected(paths)
  BY <1>4, CopySelectedHolds
<1>5. CASE \E s \in Splits : TakeFromPrimary(s) \/ TakeFromStaged(s) \/ MissingSplitPath(s)
  BY <1>5, TakeFromPrimaryHolds, TakeFromStagedHolds, MissingHolds
<1>6. CASE \E s \in Splits : \E links \in SUBSET LinkPaths : LinkReferences(s, links)
  BY <1>6, LinkReferencesHolds
<1>7. CASE \E names \in ExcludedNames : ExcludeFileSuffixes(names)
  BY <1>7, ExcludeHolds
<1>8. CASE \E p \in LinkPaths : CreateSymlink(p)
  BY <1>8, CreateSymlinkHolds
<1>9. CASE UNCHANGED splitVars
  <2>1. UNCHANGED <<splitPaths, staged, selected, out, moved, linked, excluded, phase>>
    BY <1>9 DEF splitVars
  <2>2. SplitTyped' /\ SplitPhases'
    BY <2>1 DEF SplitInv, SplitTyped, SplitPhases, SplitDisjoint
  <2>3. phase = "split" => PrimaryHas' /\ SplitsHave'
    BY <2>1 DEF SplitInv, PrimaryHas, SplitsHave, CopiedPaths, IsSelected, Covered, AllTaken,
                Taken, InstalledFiles, Holds, Kept
  <2>4. EachFileInItsOutput'
    BY <2>1 DEF SplitInv, EachFileInItsOutput, Kept, IsSelected, Owner
  <2> QED BY <2>1, <2>2, <2>3, <2>4 DEF SplitInv
<1> QED BY <1>1, <1>2, <1>3, <1>4, <1>5, <1>6, <1>7, <1>8, <1>9 DEF SplitNext

\* The invariant of the split holds throughout.
LEMMA SplitInvariance == SplitSpec => []SplitInv
<1>1. SplitInit => SplitInv
  BY SplitStart
<1>2. SplitInv /\ [SplitNext]_splitVars => SplitInv'
  BY SplitStep
<1> QED BY <1>1, <1>2, PTL DEF SplitSpec

\* Whatever paths are declared and selected, and whatever is installed, each
\* file ends up in the output that declares it and in no other.
THEOREM FilesAreInTheirOutputs == SplitSpec => []EachFileInItsOutput
<1>1. SplitInv => EachFileInItsOutput
  BY DEF SplitInv
<1> QED BY <1>1, SplitInvariance, PTL

-----------------------------------------------------------------------------
\* What was taken is there, as a directory if it was installed as one.
PathsThere ==
  phase \in {"split", "placed"} =>
    \A s \in Splits : \A p \in Taken(s) :
      p \in DOMAIN out[s] /\ (IsDir(out[s], p) <=> IsDir(staged, p))

\* In the end every declared path was taken.
Served == phase = "placed" => \A s \in Splits : moved[s] = Len(splitPaths[s])

Placed == SplitInv /\ PathsThere /\ Served

\* A tree that takes a path keeps the others it took.
LEMMA TakePathsThere ==
  ASSUME Placed, NEW s \in Splits, NEW t, TakesFrom(s, t),
         IsDir(t, splitPaths[s][moved[s] + 1]) <=> IsDir(staged, splitPaths[s][moved[s] + 1])
  PROVE  PathsThere' /\ Served'
<1> DEFINE p == splitPaths[s][moved[s] + 1]
<1>1. phase = "split" /\ phase' = phase /\ staged' = staged /\ Next1(s) /\ p \in DOMAIN t
  BY DEF TakesFrom, Next1, Serving
<1>2. p \in Path /\ \A x \in Path : Under(p, x) => ~Covered(x, Taken(s))
  BY <1>1, NextPath DEF Placed
<1>3. /\ Taken(s)' = Taken(s) \cup {p} /\ \A r \in Splits \ {s} : Taken(r)' = Taken(r)
  BY TakenNext DEF Placed
<1>4. Taken(s) \subseteq Path
  <2>1. /\ splitPaths[s] \in Seq(Path) /\ moved[s] \in Nat /\ moved[s] <= Len(splitPaths[s])
    BY DEF Placed, SplitInv, SplitTyped
  <2> QED BY <2>1 DEF Taken
<1> DEFINE w == WithPaths(out[s], t, {p})
<1>5. out'[s] = w /\ \A r \in Splits \ {s} : out'[r] = out[r]
  BY DEF TakesFrom
<1> HIDE DEF p
<1>6. \A x : Covered(x, {p}) <=> Under(p, x)
  BY DEF Covered
<1>7. DOMAIN w = {y \in DOMAIN t : Covered(y, {p})} \cup DOMAIN out[s] \cup UNION {Ancestors(q) : q \in {p}}
  BY WithPathsDomain
<1>8. \A x \in DOMAIN w : w[x] = IF x \in DOMAIN t /\ Covered(x, {p}) THEN t[x]
                               ELSE IF x \in DOMAIN out[s] THEN out[s][x] ELSE Dir
  BY WithPathsValue
<1> HIDE DEF w
<1>9. p \in DOMAIN w /\ w[p] = t[p]
  <2>1. Under(p, p)
    BY <1>2, UnderOrder
  <2> QED BY <1>1, <1>6, <1>7, <1>8, <2>1
<1>10. ASSUME NEW q \in Taken(s) PROVE q \in DOMAIN out[s] => q \in DOMAIN w /\ w[q] = out[s][q]
  <2>1. q \in Path /\ Under(q, q)
    BY <1>4, UnderOrder
  <2>2. ~Under(p, q)
    BY <1>2, <2>1 DEF Covered
  <2> QED BY <1>6, <1>7, <1>8, <2>2
<1>11. \A q \in Taken(s) : q \in DOMAIN w /\ (IsDir(w, q) <=> IsDir(staged, q))
  BY <1>1, <1>10 DEF Placed, PathsThere, IsDir
<1>12. IsDir(w, p) <=> IsDir(staged, p)
  BY <1>1, <1>9 DEF IsDir, p
<1>13. ASSUME NEW r \in Splits, NEW q \in Taken(r)'
       PROVE  q \in DOMAIN out'[r] /\ (IsDir(out'[r], q) <=> IsDir(staged, q))
  <2>1. CASE r = s
    BY <1>3, <1>5, <1>9, <1>11, <1>12, <2>1
  <2>2. CASE r # s
    BY <1>1, <1>3, <1>5, <2>2 DEF Placed, PathsThere
  <2> QED BY <2>1, <2>2
<1> QED BY <1>1, <1>13 DEF PathsThere, Served

\* The invariant of the split with it.
LEMMA PlacedStep ==
  ASSUME Placed, SplitNext, SplitInv'
  PROVE  Placed'
<1>1. CASE \E s \in Splits : TakeFromPrimary(s)
  <2>1. PICK s \in Splits : TakeFromPrimary(s)
    BY <1>1
  <2> DEFINE p == splitPaths[s][moved[s] + 1]
             t == out[Primary]
  <2>2. /\ Primary \in Outputs /\ s \in Outputs /\ s # Primary
        /\ \A r \in Splits : r \in Outputs /\ r # Primary
    BY SplitsAssumption DEF Outputs, Primary
  <2>3. out = [o \in Outputs |-> out[o]]
    BY DEF Placed, SplitInv, SplitTyped
  <2>4. out' = [out EXCEPT ![s] = WithPaths(@, out[Primary], {p}), ![Primary] = Without(@, p)]
    BY <2>1 DEF TakeFromPrimary
  <2>5. /\ out'[s] = WithPaths(out[s], t, {p})
        /\ \A r \in Splits \ {s} : out'[r] = out[r]
        /\ out' = [o \in Outputs |-> out'[o]]
    <3> HIDE DEF p
    <3> QED BY <2>2, <2>3, <2>4
  <2>6. TakesFrom(s, t)
    BY <2>1, <2>5 DEF TakeFromPrimary, TakesFrom
  <2>7. p \in DOMAIN t /\ PrimaryHas /\ staged \in Installed /\ ToSet(selected) \subseteq DOMAIN staged
    BY <2>1 DEF TakeFromPrimary, Next1, Serving, Placed, SplitInv, SplitPhases, PrimaryHas
  <2>8. IsDir(t, p) <=> IsDir(staged, p)
    <3> HIDE DEF p
    <3>1. p \in CopiedPaths /\ p \in DOMAIN staged /\ t[p] = IF IsSelected(p) THEN staged[p] ELSE Dir
      BY <2>7 DEF PrimaryHas, CopiedPaths
    <3>2. CASE IsSelected(p)
      BY <2>7, <3>1, <3>2 DEF IsDir
    <3>3. CASE ~IsSelected(p)
      <4>1. PICK q \in ToSet(selected) : Under(p, q)
        BY <3>1, <3>3 DEF CopiedPaths
      <4>2. FiniteTree(staged) /\ q \in DOMAIN staged /\ p \in Path /\ q \in Path
        BY <2>7, <3>1, InstalledAssumption DEF FiniteTree
      <4>3. p # q
        <5>1. Under(q, q)
          BY <4>2, UnderOrder
        <5> QED BY <3>3, <4>1, <5>1 DEF IsSelected
      <4>4. IsDir(staged, p)
        BY <4>1, <4>2, <4>3, BelowChild
      <4>5. IsDir(t, p)
        <5>1. Dir.kind = "dir"
          BY DEF Dir, Node
        <5> QED BY <2>7, <3>1, <3>3, <5>1 DEF IsDir
      <4> QED BY <4>4, <4>5
    <3> QED BY <3>2, <3>3
  <2> QED BY <2>6, <2>8, TakePathsThere DEF Placed
<1>2. CASE \E s \in Splits : TakeFromStaged(s)
  <2>1. PICK s \in Splits : TakeFromStaged(s)
    BY <1>2
  <2> DEFINE p == splitPaths[s][moved[s] + 1]
  <2>2. /\ Primary \in Outputs /\ s \in Outputs /\ s # Primary
        /\ \A r \in Splits : r \in Outputs /\ r # Primary
    BY SplitsAssumption DEF Outputs, Primary
  <2>3. out = [o \in Outputs |-> out[o]]
    BY DEF Placed, SplitInv, SplitTyped
  <2>4. out' = [out EXCEPT ![s] = WithPaths(@, staged, {p})]
    BY <2>1 DEF TakeFromStaged
  <2>5. /\ out'[s] = WithPaths(out[s], staged, {p})
        /\ \A r \in Splits \ {s} : out'[r] = out[r]
        /\ out' = [o \in Outputs |-> out'[o]]
    <3> HIDE DEF p
    <3> QED BY <2>2, <2>3, <2>4
  <2>6. TakesFrom(s, staged)
    BY <2>1, <2>5 DEF TakeFromStaged, TakesFrom
  <2> QED BY <2>6, TakePathsThere DEF Placed
<1>3. CASE \E s \in Splits, links \in SUBSET LinkPaths : LinkReferences(s, links)
  <2>1. PICK s \in Splits, links \in SUBSET LinkPaths : LinkReferences(s, links)
    BY <1>3
  <2>2. /\ phase = "split" /\ moved[s] = Len(splitPaths[s])
        /\ \A r \in linked : moved[r] = Len(splitPaths[r])
        /\ UNCHANGED <<splitPaths, staged, moved>>
    BY <2>1 DEF LinkReferences, Serving, Placed, SplitInv, SplitPhases
  <2>3. CASE ~ \A p \in links : Linkable(out[s], p)
    BY <2>1, <2>3 DEF LinkReferences, Placed, PathsThere, Served
  <2>4. CASE \A p \in links : Linkable(out[s], p)
    <3>1. /\ out' = [out EXCEPT ![s] = WithLinks(@, links, "store")]
          /\ linked' = linked \cup {s} /\ phase' = IF linked' = Splits THEN "placed" ELSE phase
      BY <2>1, <2>4 DEF LinkReferences
    <3>2. /\ out'[s] = WithLinks(out[s], links, "store")
          /\ \A r \in Splits \ {s} : out'[r] = out[r]
      <4>1. out = [o \in Outputs |-> out[o]] /\ Splits \subseteq Outputs
        BY DEF Placed, SplitInv, SplitTyped, Outputs
      <4> QED BY <3>1, <4>1
    <3>3. \A r \in Splits : Taken(r)' = Taken(r)
      BY <2>2 DEF Taken
    <3>4. \A q \in DOMAIN out[s] : q \in DOMAIN out'[s] /\ out'[s][q] = out[s][q]
      <4>1. \A q \in DOMAIN out[s] : q \notin links
        BY <2>4 DEF Linkable
      <4> DEFINE d == out[s]
                 w == WithLinks(d, links, "store")
      <4>2. /\ DOMAIN d \subseteq DOMAIN w
            /\ \A x \in DOMAIN w :
                 \/ x \in links /\ w[x] = Node("link", "store", FALSE)
                 \/ x \in DOMAIN d /\ w[x] = d[x]
                 \/ x \notin DOMAIN d /\ w[x] = Dir
        BY WithLinksHas
      <4>3. out'[s] = w
        BY <3>2
      <4> HIDE DEF w
      <4> QED BY <4>1, <4>2, <4>3
    <3>5. ASSUME NEW r \in Splits, NEW q \in Taken(r)
          PROVE  q \in DOMAIN out'[r] /\ (IsDir(out'[r], q) <=> IsDir(staged, q))
      <4>1. q \in DOMAIN out[r] /\ (IsDir(out[r], q) <=> IsDir(staged, q))
        BY <2>2 DEF Placed, PathsThere
      <4> QED BY <3>2, <3>4, <4>1 DEF IsDir
    <3>6. PathsThere'
      BY <2>2, <3>3, <3>5 DEF PathsThere
    <3>7. Served'
      BY <2>2, <3>1 DEF Served
    <3> QED BY <3>6, <3>7 DEF Placed
  <2> QED BY <2>3, <2>4
<1>4. CASE CopyWhole \/ \E paths \in PathLists \ {<< >>} : CopySelected(paths)
  <2>1. phase = "copy" /\ phase' # "placed" /\ UNCHANGED <<splitPaths, moved>>
    BY <1>4 DEF CopyWhole, CopySelected
  <2>2. \A s \in Splits : Taken(s)' = {}
    <3>1. \A s \in Splits : Taken(s)' = Taken(s)
      BY <2>1 DEF Taken
    <3> QED BY <2>1, <3>1, NothingTaken DEF Placed
  <2> QED BY <2>1, <2>2 DEF Placed, PathsThere, Served
<1>5. CASE phase' \notin {"split", "placed"}
  BY <1>5 DEF Placed, PathsThere, Served
<1> QED BY <1>1, <1>2, <1>3, <1>4, <1>5
        DEF SplitNext, ParseSplitOutputs, Install, MissingSplitPath, ExcludeFileSuffixes, CreateSymlink

\* At the start nothing was taken.
LEMMA PlacedStart == SplitInit => Placed
BY SplitStart DEF Placed, PathsThere, Served, SplitInit

-----------------------------------------------------------------------------
\* An output and a path in it make a path.
LEMMA InOutput ==
  ASSUME NEW o \in Nat, NEW p \in Path
  PROVE  /\ <<o>> \o p \in Path /\ Len(<<o>> \o p) = Len(p) + 1 /\ Len(p) \in Nat
         /\ (<<o>> \o p)[1] = o
         /\ \A i \in 1 .. Len(p) : (<<o>> \o p)[i + 1] = p[i]
         /\ <<o>> \o p # Root
<1>1. <<o>> \in Seq(Nat) /\ Len(<<o>>) = 1 /\ <<o>>[1] = o
  OBVIOUS
<1>2. /\ <<o>> \o p \in Seq(Nat) /\ Len(<<o>> \o p) = 1 + Len(p)
      /\ \A i \in 1 .. 1 + Len(p) : (<<o>> \o p)[i] = IF i <= 1 THEN <<o>>[i] ELSE p[i - 1]
  BY <1>1, ConcatProperties DEF Path
<1>3. Len(p) \in Nat
  BY DEF Path
<1> DEFINE q == <<o>> \o p
<1> HIDE DEF q
<1>4. q[1] = o
  BY <1>1, <1>2, <1>3 DEF q
<1>5. ASSUME NEW i \in 1 .. Len(p) PROVE q[i + 1] = p[i]
  <2>1. i + 1 \in 1 .. 1 + Len(p) /\ ~(i + 1 <= 1) /\ (i + 1) - 1 = i
    BY <1>3
  <2> QED BY <1>2, <2>1 DEF q
<1>6. q # Root
  BY <1>2, <1>3 DEF q, Root
<1> QED BY <1>2, <1>3, <1>4, <1>5, <1>6 DEF q, Path

\* It is under another one in the same output only.
LEMMA UnderInOutput ==
  ASSUME NEW o \in Nat, NEW r \in Nat, NEW p \in Path, NEW q \in Path
  PROVE  /\ Under(<<o>> \o p, <<r>> \o q) <=> o = r /\ Under(p, q)
         /\ <<o>> \o p = <<r>> \o q <=> o = r /\ p = q
<1> DEFINE a == <<o>> \o p
           b == <<r>> \o q
<1>1. /\ a \in Path /\ Len(a) = Len(p) + 1 /\ Len(p) \in Nat /\ a[1] = o
      /\ \A i \in 1 .. Len(p) : a[i + 1] = p[i]
  BY InOutput
<1>2. /\ b \in Path /\ Len(b) = Len(q) + 1 /\ Len(q) \in Nat /\ b[1] = r
      /\ \A i \in 1 .. Len(q) : b[i + 1] = q[i]
  BY InOutput
<1> HIDE DEF a, b
<1>3. Under(a, b) <=> Len(a) <= Len(b) /\ \A i \in 1 .. Len(a) : a[i] = b[i]
  BY <1>1, <1>2, UnderPositions
<1>4. Under(p, q) <=> Len(p) <= Len(q) /\ \A i \in 1 .. Len(p) : p[i] = q[i]
  BY UnderPositions
<1>5. Under(a, b) <=> o = r /\ Under(p, q)
  <2>1. ASSUME Len(p) <= Len(q)
        PROVE  (\A i \in 1 .. Len(a) : a[i] = b[i]) <=> o = r /\ \A i \in 1 .. Len(p) : p[i] = q[i]
    <3>1. \A i \in 1 .. Len(a) : i = 1 \/ (i - 1 \in 1 .. Len(p) /\ i = (i - 1) + 1)
      BY <1>1
    <3>2. 1 \in 1 .. Len(a) /\ \A i \in 1 .. Len(p) : i + 1 \in 1 .. Len(a) /\ i \in 1 .. Len(q)
      BY <1>1, <1>2, <2>1
    <3>3. ASSUME \A i \in 1 .. Len(a) : a[i] = b[i] PROVE o = r /\ \A i \in 1 .. Len(p) : p[i] = q[i]
      BY <1>1, <1>2, <3>2, <3>3
    <3>4. ASSUME o = r, \A i \in 1 .. Len(p) : p[i] = q[i], NEW i \in 1 .. Len(a) PROVE a[i] = b[i]
      <4>1. CASE i = 1
        BY <1>1, <1>2, <3>4, <4>1
      <4>2. CASE i - 1 \in 1 .. Len(p) /\ i = (i - 1) + 1
        <5>1. a[(i - 1) + 1] = p[i - 1] /\ b[(i - 1) + 1] = q[i - 1] /\ p[i - 1] = q[i - 1]
          BY <1>1, <1>2, <3>2, <3>4, <4>2
        <5> QED BY <4>2, <5>1
      <4> QED BY <3>1, <4>1, <4>2
    <3> QED BY <3>3, <3>4
  <2>2. Len(a) <= Len(b) <=> Len(p) <= Len(q)
    BY <1>1, <1>2
  <2> QED BY <1>3, <1>4, <2>1, <2>2
<1>6. a = b <=> o = r /\ p = q
  <2>1. a = b => Under(a, b) /\ Len(p) = Len(q)
    <3>1. Under(a, a)
      BY <1>1, UnderOrder
    <3> QED BY <1>1, <1>2, <3>1
  <2>2. Under(p, q) /\ Len(p) = Len(q) => p = q
    BY UnderOrder
  <2>3. o = r /\ p = q => a = b
    BY DEF a, b
  <2> QED BY <1>5, <2>1, <2>2, <2>3
<1> QED BY <1>5, <1>6 DEF a, b

\* In one output a path is under another as it is without the output.
LEMMA UnderInSame ==
  ASSUME NEW o \in Nat, NEW p \in Path, NEW q \in Path
  PROVE  Under(<<o>> \o p, <<o>> \o q) <=> Under(p, q)
<1> DEFINE r == o
<1>1. r \in Nat
  OBVIOUS
<1> HIDE DEF r
<1>2. Under(<<o>> \o p, <<r>> \o q) <=> o = r /\ Under(p, q)
  BY <1>1, UnderInOutput
<1> QED BY <1>2 DEF r

\* And two are equal as they are without it.
LEMMA EqualInSame ==
  ASSUME NEW o \in Nat, NEW p \in Path, NEW q \in Path
  PROVE  <<o>> \o p = <<o>> \o q <=> p = q
<1>1. ASSUME <<o>> \o p = <<o>> \o q PROVE p = q
  <2> DEFINE a == <<o>> \o p
             b == <<o>> \o q
  <2>1. a \in Path /\ b \in Path /\ Len(a) = Len(p) + 1 /\ Len(b) = Len(q) + 1 /\ Len(p) \in Nat /\ Len(q) \in Nat
    BY InOutput
  <2>2. Under(a, a)
    BY <2>1, UnderOrder
  <2>3. Under(a, b) <=> Under(p, q)
    BY UnderInSame
  <2> HIDE DEF a, b
  <2>4. a = b
    BY <1>1 DEF a, b
  <2>5. Under(p, q) /\ Len(p) = Len(q)
    BY <2>1, <2>2, <2>3, <2>4
  <2> QED BY <2>5, UnderOrder
<1> QED BY <1>1

\* A prefix and what is behind it make up a path.
LEMMA RestOfPath ==
  ASSUME NEW d \in Path, NEW q \in Path, Under(d, q)
  PROVE  SubSeq(q, Len(d) + 1, Len(q)) \in Path /\ d \o SubSeq(q, Len(d) + 1, Len(q)) = q
<1> DEFINE rest == SubSeq(q, Len(d) + 1, Len(q))
<1>1. /\ q \in Seq(Nat) /\ Len(q) \in Nat /\ Len(d) \in Nat /\ Len(d) <= Len(q)
      /\ \A i \in 1 .. Len(d) : d[i] = q[i]
  BY UnderPositions DEF Path
<1>2. /\ rest \in Seq(Nat) /\ Len(rest) = Len(q) - Len(d)
      /\ \A i \in 1 .. Len(rest) : rest[i] = q[i + Len(d)]
  <2>1. \A i \in Len(d) + 1 .. Len(q) : q[i] \in Nat
    BY <1>1
  <2>2. /\ rest \in Seq(Nat)
        /\ Len(rest) = IF Len(d) + 1 <= Len(q) THEN Len(q) - (Len(d) + 1) + 1 ELSE 0
        /\ \A i \in 1 .. Len(q) - (Len(d) + 1) + 1 : rest[i] = q[(Len(d) + 1) + i - 1]
    BY <1>1, <2>1, SubSeqProperties
  <2> HIDE DEF rest
  <2>3. Len(rest) = Len(q) - Len(d)
    BY <1>1, <2>2
  <2>4. ASSUME NEW i \in 1 .. Len(rest) PROVE rest[i] = q[i + Len(d)]
    <3>1. i \in 1 .. Len(q) - (Len(d) + 1) + 1 /\ (Len(d) + 1) + i - 1 = i + Len(d)
      BY <1>1, <2>3
    <3> QED BY <2>2, <3>1
  <2> QED BY <2>2, <2>3, <2>4
<1> HIDE DEF rest
<1> DEFINE c == d \o rest
<1>3. /\ c \in Seq(Nat) /\ Len(c) = Len(d) + Len(rest)
      /\ \A i \in 1 .. Len(d) + Len(rest) : c[i] = IF i <= Len(d) THEN d[i] ELSE rest[i - Len(d)]
  BY <1>2, ConcatProperties DEF Path
<1> HIDE DEF c
<1>4. ASSUME NEW i \in 1 .. Len(q) PROVE c[i] = q[i]
  <2>1. i \in 1 .. Len(d) + Len(rest)
    BY <1>1, <1>2
  <2>2. CASE i <= Len(d)
    <3>1. i \in 1 .. Len(d)
      BY <1>1, <2>2
    <3>2. c[i] = d[i]
      BY <1>3, <2>1, <2>2
    <3> QED BY <1>1, <3>1, <3>2
  <2>3. CASE ~(i <= Len(d))
    <3>1. i - Len(d) \in 1 .. Len(rest) /\ (i - Len(d)) + Len(d) = i
      BY <1>1, <1>2, <2>3
    <3>2. rest[i - Len(d)] = q[(i - Len(d)) + Len(d)]
      BY <1>2, <3>1
    <3> QED BY <1>3, <2>1, <2>3, <3>1, <3>2
  <2> QED BY <2>2, <2>3
<1>5. Len(c) = Len(q)
  BY <1>1, <1>2, <1>3
<1>6. c = q
  BY <1>1, <1>3, <1>4, <1>5, SeqEqual
<1> QED BY <1>2, <1>6 DEF c, rest, Path

\* What is behind an output and a path in it is what is behind the path.
LEMMA RestInOutput ==
  ASSUME NEW o \in Nat, NEW s \in Nat, NEW d \in Path, NEW q \in Path, Under(d, q)
  PROVE  (<<s>> \o d) \o SubSeq(<<o>> \o q, Len(<<o>> \o d) + 1, Len(<<o>> \o q)) = <<s>> \o q
<1> DEFINE a == <<o>> \o d
           b == <<o>> \o q
           rest == SubSeq(b, Len(a) + 1, Len(b))
<1>1. /\ a \in Path /\ Len(a) = Len(d) + 1 /\ Len(d) \in Nat
      /\ b \in Path /\ Len(b) = Len(q) + 1 /\ Len(q) \in Nat
      /\ \A i \in 1 .. Len(q) : b[i + 1] = q[i]
  BY InOutput
<1>2. Under(a, b)
  BY UnderInOutput
<1>3. rest \in Path /\ a \o rest = b
  BY <1>1, <1>2, RestOfPath
<1> HIDE DEF rest, b
<1> DEFINE c == <<s>> \o d
           e == <<s>> \o q
<1>4. /\ c \in Path /\ Len(c) = Len(d) + 1 /\ c[1] = s /\ \A i \in 1 .. Len(d) : c[i + 1] = d[i]
      /\ e \in Path /\ Len(e) = Len(q) + 1 /\ e[1] = s /\ \A i \in 1 .. Len(q) : e[i + 1] = q[i]
  BY InOutput
<1>5. Len(d) <= Len(q) /\ \A i \in 1 .. Len(d) : d[i] = q[i]
  BY UnderPositions
<1>6. /\ Len(a \o rest) = Len(a) + Len(rest) /\ Len(rest) \in Nat /\ rest \in Seq(Nat)
      /\ \A i \in 1 .. Len(a) + Len(rest) : (a \o rest)[i] = IF i <= Len(a) THEN a[i] ELSE rest[i - Len(a)]
  BY <1>1, <1>3, ConcatProperties DEF Path
<1>7. /\ c \o rest \in Seq(Nat) /\ Len(c \o rest) = Len(c) + Len(rest)
      /\ \A i \in 1 .. Len(c) + Len(rest) : (c \o rest)[i] = IF i <= Len(c) THEN c[i] ELSE rest[i - Len(c)]
  BY <1>3, <1>4, ConcatProperties DEF Path
<1> HIDE DEF a
<1> DEFINE f == c \o rest
<1> HIDE DEF f
<1>8. Len(f) = Len(e) /\ Len(c) + Len(rest) = Len(q) + 1
  BY <1>1, <1>3, <1>4, <1>6, <1>7 DEF f
<1> HIDE DEF c, e
<1>9. ASSUME NEW i \in 1 .. Len(e) PROVE f[i] = e[i]
  <2>1. i \in 1 .. Len(q) + 1
    BY <1>4
  <2>2. CASE i = 1
    <3>1. f[i] = c[i]
      BY <1>1, <1>4, <1>7, <1>8, <2>1, <2>2 DEF f
    <3> QED BY <1>4, <2>2, <3>1
  <2>3. CASE i - 1 \in 1 .. Len(d)
    <3>1. f[i] = c[i]
      BY <1>1, <1>4, <1>7, <1>8, <2>1, <2>3 DEF f
    <3>2. i = (i - 1) + 1 /\ i - 1 \in 1 .. Len(q)
      BY <1>1, <2>1, <2>3
    <3>3. c[(i - 1) + 1] = d[i - 1] /\ e[(i - 1) + 1] = q[i - 1] /\ d[i - 1] = q[i - 1]
      BY <1>4, <1>5, <2>3, <3>2
    <3> QED BY <3>1, <3>2, <3>3
  <2>4. CASE i - 1 > Len(d)
    <3>1. f[i] = rest[i - Len(c)] /\ Len(c) = Len(a)
      BY <1>1, <1>4, <1>7, <1>8, <2>1, <2>4 DEF f
    <3>2. b[i] = rest[i - Len(a)]
      BY <1>1, <1>3, <1>4, <1>6, <1>8, <2>1, <2>4
    <3>3. i = (i - 1) + 1 /\ i - 1 \in 1 .. Len(q)
      BY <1>1, <2>1, <2>4
    <3>4. b[(i - 1) + 1] = q[i - 1] /\ e[(i - 1) + 1] = q[i - 1]
      BY <1>1, <1>4, <3>3
    <3> QED BY <3>1, <3>2, <3>3, <3>4
  <2> QED BY <1>1, <2>1, <2>2, <2>3, <2>4
<1>10. f = e
  BY <1>4, <1>7, <1>8, <1>9, SeqEqual DEF f, Path
<1> QED BY <1>10 DEF f, c, e, rest, a, b

-----------------------------------------------------------------------------
\* Where a name in file dir of output o leads, given the prefix.
Leads(name, o, dir, prefix) ==
  CASE name.form = "absolute" -> name.names
    [] name.form = "prefixed" -> <<prefix>> \o name.names
    [] name.form = "relative" ->
         SubSeq(<<o>> \o dir, 1, Len(<<o>> \o dir) - name.ups) \o name.names

\* The fields of a name.
LEMMA NameFields ==
  ASSUME NEW form, NEW ups, NEW names
  PROVE  /\ Written(form, ups, names).form = form
         /\ Written(form, ups, names).ups = ups
         /\ Written(form, ups, names).names = names
BY DEF Written

\* The fields of an absolute one.
LEMMA AbsoluteFields ==
  ASSUME NEW o, NEW p
  PROVE  /\ Absolute(o, p).form = "absolute"
         /\ Absolute(o, p).names = <<o>> \o p
BY DEF Absolute, Written

\* An absolute name stays true when it is made relative to a directory that is
\* a prefix of it.
LEMMA SiblingLeads ==
  ASSUME NEW o \in Nat, NEW dir \in Path, NEW r \in Nat, NEW q \in Path, NEW prefix
  PROVE  LET n == WithoutSibling(Absolute(r, q), o, dir)
         IN  \/ n = Absolute(r, q)
             \/ n.form = "relative" /\ Leads(n, o, dir, prefix) = <<r>> \o q
<1> DEFINE here == <<o>> \o dir
           b == <<r>> \o q
           rest == SubSeq(b, Len(dir) + 2, Len(b))
           n == WithoutSibling(Absolute(r, q), o, dir)
<1>1. Absolute(r, q).form = "absolute" /\ Absolute(r, q).names = b
  BY AbsoluteFields
<1>2. /\ here \in Path /\ Len(here) = Len(dir) + 1 /\ Len(dir) \in Nat /\ b \in Path
  BY InOutput
<1>3. CASE ~(dir # Root /\ Under(here, b) /\ b # here)
  BY <1>1, <1>3 DEF WithoutSibling
<1>4. CASE dir # Root /\ Under(here, b) /\ b # here
  <2>1. n = Written("relative", 0, rest)
    BY <1>1, <1>4 DEF WithoutSibling
  <2> HIDE DEF n, rest
  <2>2. n.form = "relative" /\ n.ups = 0 /\ n.names = rest
    BY <2>1, NameFields
  <2> USE DEF rest
  <2>3. Len(here) + 1 = Len(dir) + 2
    BY <1>2
  <2>4. here \o SubSeq(b, Len(here) + 1, Len(b)) = b
    <3> HIDE DEF here, b
    <3> QED BY <1>2, <1>4, RestOfPath
  <2>5. here \o rest = b
    BY <2>3, <2>4
  <2>6. SubSeq(here, 1, Len(here) - 0) = here
    <3>1. Len(here) - 0 = Len(here)
      BY <1>2
    <3> HIDE DEF here
    <3> QED BY <1>2, <3>1, SubSeqFull DEF Path
  <2>7. Leads(n, o, dir, prefix) = SubSeq(here, 1, Len(here) - n.ups) \o n.names
    BY <2>2 DEF Leads
  <2> HIDE DEF here, b, rest
  <2>8. Leads(n, o, dir, prefix) = b
    BY <2>2, <2>5, <2>6, <2>7
  <2> QED BY <2>2, <2>8 DEF b, n
<1> QED BY <1>3, <1>4

\* From a directory of one output to another output: all the way up.
LEMMA UpAcross ==
  ASSUME NEW o \in Nat, NEW dir \in Path, NEW r \in Nat, r # o
  PROVE  /\ RelativePathFromDirectory(<<o>> \o dir, <<r>>).ups = Len(<<o>> \o dir)
         /\ RelativePathFromDirectory(<<o>> \o dir, <<r>>).names = <<r>>
<1> DEFINE here == <<o>> \o dir
           to == <<r>>
           len == Min({Len(here), Len(to)})
           T == {n \in 1 .. len : SubSeq(here, 1, n) = SubSeq(to, 1, n)}
           common == Max({0} \cup T)
<1>1. here \in Path /\ Len(here) \in Nat /\ Len(here) >= 1 /\ here[1] = o
  BY InOutput
<1>2. to \in Seq(Nat) /\ Len(to) = 1 /\ to[1] = r
  OBVIOUS
<1> HIDE DEF here
<1>3. len = 1
  <2> HIDE DEF to
  <2>1. 1 \in {Len(here), Len(to)} /\ \A y \in {Len(here), Len(to)} : y \in Nat /\ 1 <= y
    BY <1>1, <1>2
  <2>2. ASSUME NEW x \in {Len(here), Len(to)}, \A y \in {Len(here), Len(to)} : x <= y PROVE x = 1
    <3>1. x <= 1 /\ 1 <= x /\ x \in Nat
      BY <2>1, <2>2
    <3> QED BY <3>1
  <2> QED BY <2>1, <2>2 DEF Min
<1> HIDE DEF len, to
<1>4. T = {}
  <2>1. SubSeq(here, 1, 1)[1] = o
    <3>1. \A i \in 1 .. 1 : here[i] \in Nat
      BY <1>1 DEF Path
    <3> DEFINE x == SubSeq(here, 1, 1)
    <3>2. Len(x) = 1 /\ \A i \in 1 .. 1 : x[i] = here[i]
      BY <1>1, <3>1, SubSeqProperties DEF Path
    <3> HIDE DEF x
    <3> QED BY <1>1, <3>2 DEF x
  <2>2. SubSeq(to, 1, 1)[1] = r
    <3>1. \A i \in 1 .. 1 : to[i] \in Nat
      BY <1>2
    <3> DEFINE x == SubSeq(to, 1, 1)
    <3>2. Len(x) = 1 /\ \A i \in 1 .. 1 : x[i] = to[i]
      BY <1>2, <3>1, SubSeqProperties
    <3> HIDE DEF x
    <3> QED BY <1>2, <3>2 DEF x
  <2>3. \A n \in 1 .. len : n = 1
    BY <1>3
  <2> QED BY <2>1, <2>2, <2>3
<1>5. common = 0
  <2>1. {0} \cup T = {0}
    BY <1>4
  <2>2. \A x \in {0} : (\A y \in {0} : x >= y) => x = 0
    OBVIOUS
  <2>3. \E x \in {0} : \A y \in {0} : x >= y
    OBVIOUS
  <2> HIDE DEF T
  <2> QED BY <2>1, <2>2, <2>3 DEF Max
<1>6. RelativePathFromDirectory(here, to) = [ups |-> Len(here) - common, names |-> SubSeq(to, common + 1, Len(to))]
  BY DEF RelativePathFromDirectory, len
<1> HIDE DEF common
<1>7. Len(here) - common = Len(here) /\ common + 1 = 1
  BY <1>1, <1>5
<1>8. SubSeq(to, common + 1, Len(to)) = to
  BY <1>2, <1>7, SubSeqFull
<1>9. /\ RelativePathFromDirectory(here, to).ups = Len(here)
      /\ RelativePathFromDirectory(here, to).names = to
  BY <1>6, <1>7, <1>8
<1> QED BY <1>9 DEF here, to

\* A linker script goes on to name what an absolute name does.
LEMMA ScriptLeads ==
  ASSUME NEW o \in Nat, NEW dir \in Path, NEW r \in Nat, NEW q \in Path, NEW prefix
  PROVE  Leads(AcrossOutputs(WithoutSibling(Absolute(r, q), o, dir), o, dir), o, dir, prefix) = <<r>> \o q
<1> DEFINE here == <<o>> \o dir
           b == <<r>> \o q
           n == WithoutSibling(Absolute(r, q), o, dir)
           a == Absolute(r, q)
           m == AcrossOutputs(n, o, dir)
<1>1. a.form = "absolute" /\ a.names = b
  BY AbsoluteFields
<1>2. /\ here \in Path /\ Len(here) = Len(dir) + 1 /\ Len(dir) \in Nat
      /\ b \in Path /\ Len(b) = Len(q) + 1 /\ Len(q) \in Nat /\ b[1] = r
      /\ \A i \in 1 .. Len(q) : b[i + 1] = q[i]
  BY InOutput
<1>3. n = a \/ (n.form = "relative" /\ Leads(n, o, dir, prefix) = b)
  BY SiblingLeads
<1>4. CASE n.form = "relative" /\ Leads(n, o, dir, prefix) = b
  <2>1. m = n
    BY <1>4 DEF AcrossOutputs
  <2> QED BY <1>4, <2>1
<1>5. CASE n = a /\ ~(r # o /\ Len(b) > 1)
  <2>1. m = n
    <3> HIDE DEF n, a
    <3> QED BY <1>1, <1>2, <1>5 DEF AcrossOutputs
  <2>2. Leads(n, o, dir, prefix) = b
    BY <1>1, <1>5 DEF Leads
  <2> QED BY <2>1, <2>2
<1>6. CASE n = a /\ r # o /\ Len(b) > 1
  <2> DEFINE up == RelativePathFromDirectory(here, <<r>>)
  <2> HIDE DEF n, a, b
  <2>1. m = Written("relative", up.ups, up.names \o Tail(b))
    BY <1>1, <1>2, <1>6 DEF AcrossOutputs
  <2>2. up.ups = Len(here) /\ up.names = <<r>>
    BY <1>6, UpAcross
  <2>3. m.form = "relative" /\ m.ups = Len(here) /\ m.names = <<r>> \o Tail(b)
    <3>1. m = Written("relative", Len(here), <<r>> \o Tail(b))
      BY <2>1, <2>2
    <3> HIDE DEF m, here
    <3> QED BY <3>1 DEF Written
  <2>4. Tail(b) = q
    <3>1. b \in Seq(Nat) /\ b # << >>
      BY <1>2, <1>6 DEF Path
    <3>2. /\ Tail(b) \in Seq(Nat) /\ Len(Tail(b)) = Len(b) - 1
          /\ \A i \in 1 .. Len(Tail(b)) : Tail(b)[i] = b[i + 1]
      BY <3>1, HeadTailProperties
    <3> DEFINE e == Tail(b)
    <3> HIDE DEF e
    <3>3. Len(e) = Len(q) /\ \A i \in 1 .. Len(q) : e[i] = q[i]
      BY <1>2, <3>2 DEF e
    <3> QED BY <3>2, <3>3, SeqEqual DEF e, Path
  <2>5. Leads(m, o, dir, prefix) = SubSeq(here, 1, Len(here) - Len(here)) \o m.names
    <3> HIDE DEF m
    <3> QED BY <2>3 DEF Leads
  <2>6. SubSeq(here, 1, Len(here) - Len(here)) = << >>
    <3> HIDE DEF here
    <3>1. Len(here) - Len(here) = 0
      BY <1>2
    <3> QED BY <1>2, <3>1 DEF Path
  <2>7. << >> \o b = b
    BY <1>2, ConcatEmptySeq DEF Path
  <2>8. m.names = b
    BY <2>3, <2>4 DEF b
  <2>9. Leads(m, o, dir, prefix) = b
    <3> HIDE DEF m, here
    <3> QED BY <2>5, <2>6, <2>7, <2>8
  <2> QED BY <2>9 DEF m, n, a, b
<1> QED BY <1>3, <1>4, <1>5, <1>6

-----------------------------------------------------------------------------
\* The text as it was read.
AsRead ==
  /\ text.prefix = Primary
  /\ text.form = "script" => text.name = Absolute(Primary, text.target)
  /\ text.form = "variable" =>
       text.name \in {Absolute(Primary, text.target), Written("prefixed", 0, text.target)}
  /\ text.form = "libdir" => text.name = Absolute(Primary, Lib)

TextKnown ==
  text # NoText =>
    /\ phase = "placed"
    /\ text = [form |-> text.form, output |-> text.output, dir |-> text.dir, target |-> text.target,
               name |-> text.name, prefix |-> text.prefix, done |-> text.done]
    /\ text.output \in Outputs /\ text.dir \in Path /\ text.target \in DOMAIN staged
    /\ text.done \in BOOLEAN /\ (~text.done => AsRead)

RewriteInv == Placed /\ TextKnown /\ NamesFollowFiles

\* Every path of the split, as the text names it, leads to its new place.
LEMMA OntoOwner ==
  ASSUME Placed, phase = "placed", NEW q \in InstalledFiles
  PROVE  OntoSplits(Absolute(Primary, q)) = Absolute(Owner(q), q)
<1>1. /\ SplitTyped /\ SplitDisjoint(splitPaths) /\ staged \in Installed
      /\ \A s \in Splits : moved[s] = Len(splitPaths[s])
  BY DEF Placed, SplitInv, SplitPhases, Served
<1>2. /\ FiniteTree(staged) /\ q \in DOMAIN staged /\ q \in Path /\ ~IsDir(staged, q)
  BY <1>1, InstalledAssumption, FilesToldApart DEF InstalledFiles
<1>3. /\ Primary \in Nat /\ Splits \subseteq Nat
      /\ \A s \in Splits : ToSet(splitPaths[s]) \subseteq Path /\ Taken(s) = ToSet(splitPaths[s])
  <2>1. \A s \in Splits : splitPaths[s] \in Seq(Path) /\ DOMAIN splitPaths[s] = 1 .. moved[s]
    BY <1>1 DEF SplitTyped
  <2>2. \A s \in Splits : \A i \in DOMAIN splitPaths[s] : splitPaths[s][i] \in Path
    BY <2>1
  <2> QED BY <2>1, <2>2, SplitsAssumption DEF Primary, ToSet, Taken
<1> DEFINE n == Absolute(Primary, q)
           All == UNION {ToSet(splitPaths[s]) : s \in Splits}
           Fits(m) == /\ m[2] \in ToSet(splitPaths[m[1]])
                      /\ Affected(n, <<Primary>> \o m[2], IsDir(out[m[1]], m[2]))
           moves == {m \in Splits \X All : Fits(m)}
           move == CHOOSE m \in moves : TRUE
<1>4. OntoSplits(n) = IF moves = {} THEN n
                      ELSE Projected(n, <<Primary>> \o move[2], <<move[1]>> \o move[2])
  BY DEF OntoSplits
<1>5. n.form = "absolute" /\ n.names = <<Primary>> \o q
  BY AbsoluteFields
<1>6. ASSUME NEW s \in Splits, NEW d \in ToSet(splitPaths[s])
      PROVE  Affected(n, <<Primary>> \o d, IsDir(out[s], d)) <=> Under(d, q)
  <2>1. d \in Path /\ d \in Taken(s)
    BY <1>3
  <2>2. IsDir(out[s], d) <=> IsDir(staged, d)
    BY <2>1 DEF Placed, PathsThere
  <2>3. /\ Under(<<Primary>> \o d, <<Primary>> \o q) <=> Under(d, q)
        /\ <<Primary>> \o d = <<Primary>> \o q <=> d = q
    <3>1. Primary \in Nat /\ d \in Path /\ q \in Path
      BY <1>2, <1>3, <2>1
    <3>2. Under(<<Primary>> \o d, <<Primary>> \o q) <=> Under(d, q)
      BY <3>1, UnderInSame
    <3>3. <<Primary>> \o d = <<Primary>> \o q <=> d = q
      BY <3>1, EqualInSame
    <3> QED BY <3>2, <3>3
  <2>4. Under(d, q) => (IsDir(staged, d) <=> d # q)
    BY <1>2, <2>1, BelowChild
  <2> HIDE DEF n
  <2> QED BY <1>5, <2>2, <2>3, <2>4 DEF Affected
<1> HIDE DEF n
<1>7. CASE moves = {}
  <2>1. ASSUME NEW s \in Splits PROVE ~Covered(q, ToSet(splitPaths[s]))
    <3>1. ASSUME NEW d \in ToSet(splitPaths[s]), Under(d, q) PROVE FALSE
      <4>1. Fits(<<s, d>>)
        BY <1>6, <3>1
      <4>2. <<s, d>> \in Splits \X All
        OBVIOUS
      <4> HIDE DEF Fits, All
      <4>3. <<s, d>> \in moves
        BY <4>1, <4>2
      <4> QED BY <1>7, <4>3
    <3> QED BY <3>1 DEF Covered
  <2>2. Owner(q) = Primary
    BY <1>1, <1>2, <2>1, OwnerOf
  <2> HIDE DEF moves, move
  <2> QED BY <1>4, <1>7, <2>2 DEF n
<1>8. CASE moves # {}
  <2>1. move \in moves
    <3> HIDE DEF moves
    <3> QED BY <1>8
  <2> HIDE DEF move
  <2>2. move \in Splits \X All /\ Fits(move)
    <3> HIDE DEF Fits, All
    <3> QED BY <2>1
  <2> DEFINE s == move[1]
             d == move[2]
  <2>3. s \in Splits /\ d \in ToSet(splitPaths[s]) /\ Affected(n, <<Primary>> \o d, IsDir(out[s], d))
    <3>1. move[1] \in Splits
      <4> HIDE DEF All, Fits
      <4> QED BY <2>2
    <3> QED BY <2>2, <3>1
  <2> HIDE DEF s, d
  <2>4. Under(d, q) /\ d \in Path
    BY <1>3, <1>6, <2>3
  <2>5. Owner(q) = s
    BY <1>1, <1>2, <2>3, <2>4, OwnerOf DEF Covered
  <2>6. OntoSplits(n) = Projected(n, <<Primary>> \o d, <<s>> \o d)
    <3> HIDE DEF moves
    <3> QED BY <1>4, <1>8 DEF s, d
  <2>7. (<<s>> \o d) \o SubSeq(<<Primary>> \o q, Len(<<Primary>> \o d) + 1, Len(<<Primary>> \o q)) = <<s>> \o q
    BY <1>2, <1>3, <2>3, <2>4, RestInOutput
  <2>8. Projected(n, <<Primary>> \o d, <<s>> \o d) = [n EXCEPT !.names = <<s>> \o q]
    BY <1>5, <2>7 DEF Projected
  <2>9. [n EXCEPT !.names = <<s>> \o q] = Absolute(s, q)
    <3> DEFINE a == <<Primary>> \o q
               b == <<s>> \o q
    <3>1. n = [form |-> "absolute", ups |-> 0, names |-> a]
      BY DEF n, Absolute, Written
    <3>2. Absolute(s, q) = [form |-> "absolute", ups |-> 0, names |-> b]
      BY DEF Absolute, Written
    <3> HIDE DEF n, a, b
    <3>3. [n EXCEPT !.names = b] = [form |-> "absolute", ups |-> 0, names |-> b]
      BY <3>1
    <3> QED BY <3>2, <3>3 DEF b
  <2> QED BY <2>5, <2>6, <2>8, <2>9 DEF n
<1> QED BY <1>7, <1>8 DEF n

\* output_prefix_for_dir finds the owner of a path.
LEMMA DirOwner ==
  ASSUME SplitTyped, SplitDisjoint(splitPaths), NEW q \in Path
  PROVE  OutputForDir(q) = Owner(q)
<1> DEFINE having == {s \in Splits : \E p \in ToSet(splitPaths[s]) : Under(p, q)}
<1>1. \A s \in Splits : s \in having <=> Covered(q, ToSet(splitPaths[s]))
  BY DEF Covered
<1>2. OutputForDir(q) = IF having = {} THEN Primary ELSE Min(having)
  BY DEF OutputForDir
<1>3. having \subseteq Splits
  OBVIOUS
<1> HIDE DEF having
<1>4. CASE having = {}
  BY <1>1, <1>2, <1>4, OwnerOf
<1>5. CASE having # {}
  <2>1. \A s \in having : Owner(q) = s
    BY <1>1, <1>3, OwnerOf
  <2>2. PICK s \in having : TRUE
    BY <1>5
  <2>3. having = {s} /\ s \in Nat
    BY <1>3, <2>1, <2>2, SplitsAssumption
  <2>4. \A x : x \in {s} /\ (\A y \in {s} : x <= y) <=> x = s
    BY <2>3
  <2>5. Min({s}) = s
    BY <2>4 DEF Min
  <2> QED BY <1>2, <1>5, <2>1, <2>2, <2>3, <2>5
<1> QED BY <1>4, <1>5

\* What is said of the split stays true while only the text changes.
LEMMA PlacedStays ==
  ASSUME Placed, UNCHANGED splitVars
  PROVE  /\ Placed'
         /\ \A x : (Kept(x)' <=> Kept(x)) /\ Owner(x)' = Owner(x)
<1>1. UNCHANGED <<splitPaths, staged, selected, out, moved, linked, excluded, phase>>
  BY DEF splitVars
<1>2. SplitInv'
  BY SplitStep DEF Placed
<1>3. PathsThere' /\ Served'
  <2>1. \A s \in Splits : Taken(s)' = Taken(s)
    BY <1>1 DEF Taken
  <2> QED BY <1>1, <2>1 DEF Placed, PathsThere, Served
<1>4. \A x : (Kept(x)' <=> Kept(x)) /\ Owner(x)' = Owner(x)
  BY <1>1 DEF Kept, IsSelected, Owner
<1> QED BY <1>2, <1>3, <1>4 DEF Placed

-----------------------------------------------------------------------------
\* A text is read as the build wrote it.
LEMMA ReadHolds ==
  ASSUME RewriteInv, NEW form, NEW o \in Outputs, NEW p, NEW target, NEW name,
         ReadText(form, o, p, target, name),
         form = "script" => name = Absolute(Primary, target),
         form = "variable" => name \in {Absolute(Primary, target), Written("prefixed", 0, target)},
         form = "libdir" => name = Absolute(Primary, Lib)
  PROVE  RewriteInv'
<1>1. /\ phase' = "placed" /\ staged' = staged /\ p \in DOMAIN staged /\ target \in DOMAIN staged
      /\ ~IsDir(staged, p)
      /\ text' = [form |-> form, output |-> o, dir |-> Parent(p), target |-> target,
                  name |-> name, prefix |-> Primary, done |-> FALSE]
  BY DEF ReadText, splitVars, IsDir
<1>2. Placed'
  BY PlacedStays DEF ReadText, RewriteInv
<1>3. Parent(p) \in Path
  <2>1. staged \in Installed
    BY DEF ReadText, RewriteInv, Placed, SplitInv, SplitPhases
  <2>2. p \in Path /\ p # Root
    BY <1>1, <2>1, InstalledAssumption DEF FiniteTree
  <2> QED BY <2>2, PathHasParent
<1>4. AsRead'
  BY <1>1 DEF AsRead
<1>5. TextKnown'
  BY <1>1, <1>3, <1>4 DEF TextKnown
<1>6. ~text'.done
  BY <1>1
<1>7. NamesFollowFiles'
  BY <1>6 DEF NamesFollowFiles
<1> QED BY <1>2, <1>5, <1>7 DEF RewriteInv

\* What is known of a text that is rewritten.
LEMMA BeforeRewrite ==
  ASSUME RewriteInv, NEW form, form # "none", text.form = form, ~text.done
  PROVE  /\ text # NoText /\ phase = "placed" /\ AsRead /\ Placed
         /\ text = [form |-> text.form, output |-> text.output, dir |-> text.dir, target |-> text.target,
                    name |-> text.name, prefix |-> text.prefix, done |-> text.done]
         /\ text.output \in Outputs /\ text.output \in Nat /\ text.dir \in Path
         /\ text.target \in DOMAIN staged /\ text.target \in Path
         /\ staged \in Installed /\ SplitTyped /\ SplitDisjoint(splitPaths)
<1>1. text # NoText
  BY DEF NoText
<1>2. staged \in Installed /\ SplitTyped /\ SplitDisjoint(splitPaths) /\ phase = "placed"
  BY <1>1 DEF RewriteInv, TextKnown, Placed, SplitInv, SplitPhases
<1>3. text.output \in Nat
  BY <1>1, SplitsAssumption DEF RewriteInv, TextKnown, Outputs, Primary
<1>4. text.target \in Path
  BY <1>1, <1>2, InstalledAssumption DEF RewriteInv, TextKnown, FiniteTree
<1> QED BY <1>1, <1>2, <1>3, <1>4 DEF RewriteInv, TextKnown

\* What the rewriting leaves alone.
LEMMA AfterRewrite ==
  ASSUME RewriteInv, text # NoText, UNCHANGED splitVars, NEW name, NEW prefix,
         text' = [form |-> text.form, output |-> text.output, dir |-> text.dir, target |-> text.target,
                  name |-> name, prefix |-> prefix, done |-> TRUE],
         NamesFollowFiles'
  PROVE  RewriteInv'
<1>1. Placed'
  BY PlacedStays DEF RewriteInv
<1>2. TextKnown'
  BY DEF TextKnown, RewriteInv, splitVars
<1> QED BY <1>1, <1>2 DEF RewriteInv

\* A linker script names the new place of every file.
LEMMA ScriptHolds ==
  ASSUME RewriteInv, RewriteLinkerScript
  PROVE  RewriteInv'
<1> DEFINE t == text.target
           o == text.output
           name == AcrossOutputs(WithoutSibling(OntoSplits(text.name), o, text.dir), o, text.dir)
<1>1. text.form = "script" /\ ~text.done /\ UNCHANGED splitVars
  BY DEF RewriteLinkerScript
<1>2. /\ text # NoText /\ phase = "placed" /\ AsRead /\ Placed
      /\ text = [form |-> text.form, output |-> text.output, dir |-> text.dir, target |-> text.target,
                 name |-> text.name, prefix |-> text.prefix, done |-> text.done]
      /\ o \in Nat /\ text.dir \in Path /\ t \in DOMAIN staged /\ t \in Path
      /\ SplitTyped /\ SplitDisjoint(splitPaths)
  BY <1>1, BeforeRewrite
<1>3. text' = [text EXCEPT !.done = TRUE, !.name = name]
  BY DEF RewriteLinkerScript
<1> HIDE DEF name
<1>4. text' = [form |-> text.form, output |-> text.output, dir |-> text.dir, target |-> text.target,
               name |-> name, prefix |-> text.prefix, done |-> TRUE]
  BY <1>2, <1>3
<1>5. ASSUME ~IsDir(staged, t)
      PROVE  Leads(name, o, text.dir, text.prefix) = <<Owner(t)>> \o t
  <2>1. t \in InstalledFiles
    BY <1>2, <1>5 DEF InstalledFiles
  <2>2. OntoSplits(text.name) = Absolute(Owner(t), t)
    BY <1>1, <1>2, <2>1, OntoOwner DEF AsRead
  <2>3. Owner(t) \in Nat
    BY <1>2, OwnerOf, SplitsAssumption DEF Primary
  <2> DEFINE r == Owner(t)
             dir == text.dir
  <2> HIDE DEF r, dir, o, t
  <2>4. Leads(AcrossOutputs(WithoutSibling(Absolute(r, t), o, dir), o, dir), o, dir, text.prefix) = <<r>> \o t
    BY <1>2, <2>3, ScriptLeads DEF r, dir, t
  <2> QED BY <2>2, <2>4 DEF name, r, dir, o, t
<1>6. NamesFollowFiles'
  <2>1. /\ text'.form = "script" /\ text'.target = t /\ text'.name = name /\ text'.output = o
        /\ text'.dir = text.dir /\ text'.prefix = text.prefix
    BY <1>1, <1>4
  <2>2. Resolved' = Leads(name, o, text.dir, text.prefix)
    <3> HIDE DEF name, o
    <3> QED BY <2>1 DEF Resolved, Leads
  <2>3. Owner(text.target)' = Owner(t) /\ staged' = staged
    BY <1>1, <2>1 DEF Owner, splitVars
  <2> QED BY <1>5, <2>1, <2>2, <2>3 DEF NamesFollowFiles
<1> QED BY <1>1, <1>2, <1>4, <1>6, AfterRewrite

\* A directory variable names the new place of its directory.
LEMMA VariableHolds ==
  ASSUME RewriteInv, NEW relocate \in BOOLEAN, RewriteVariable(relocate)
  PROVE  RewriteInv'
<1> DEFINE t == text.target
           o == text.output
           dir == OutputForDir(SubSeq(t, 1, 1))
           name == IF dir # Primary THEN Absolute(dir, SubSeq(t, 1, 1)) ELSE text.name
           prefix == IF relocate THEN o ELSE text.prefix
<1>1. text.form = "variable" /\ ~text.done /\ UNCHANGED splitVars
  BY DEF RewriteVariable
<1>2. /\ text # NoText /\ phase = "placed" /\ AsRead /\ Placed
      /\ text = [form |-> text.form, output |-> text.output, dir |-> text.dir, target |-> text.target,
                 name |-> text.name, prefix |-> text.prefix, done |-> text.done]
      /\ t \in Path /\ SplitTyped /\ SplitDisjoint(splitPaths)
  BY <1>1, BeforeRewrite
<1>3. text' = [text EXCEPT !.done = TRUE, !.prefix = prefix, !.name = name]
  BY DEF RewriteVariable
<1> HIDE DEF name, prefix
<1>4. text' = [form |-> text.form, output |-> text.output, dir |-> text.dir, target |-> text.target,
               name |-> name, prefix |-> prefix, done |-> TRUE]
  BY <1>2, <1>3
<1>5. ASSUME Len(t) = 1, prefix = Primary
      PROVE  Leads(name, o, text.dir, prefix) = <<Owner(t)>> \o t
  <2>1. SubSeq(t, 1, 1) = t
    BY <1>2, <1>5, SubSeqFull DEF Path
  <2>2. dir = Owner(t)
    BY <1>2, <2>1, DirOwner
  <2>3. CASE dir # Primary
    <3>1. name = Absolute(Owner(t), t)
      BY <2>1, <2>2, <2>3 DEF name
    <3>2. name.form = "absolute" /\ name.names = <<Owner(t)>> \o t
      BY <3>1, AbsoluteFields
    <3> QED BY <3>2 DEF Leads
  <2>4. CASE dir = Primary /\ text.name = Absolute(Primary, t)
    <3>1. name = Absolute(Primary, t)
      BY <2>4 DEF name
    <3>2. name.form = "absolute" /\ name.names = <<Primary>> \o t
      BY <3>1, AbsoluteFields
    <3> HIDE DEF t, o, dir
    <3> QED BY <2>2, <2>4, <3>2 DEF Leads
  <2>5. CASE dir = Primary /\ text.name = Written("prefixed", 0, t)
    <3>1. name = Written("prefixed", 0, t)
      BY <2>5 DEF name
    <3>2. name.form = "prefixed" /\ name.names = t
      BY <3>1, NameFields
    <3> HIDE DEF t, o, dir
    <3> QED BY <1>5, <2>2, <2>5, <3>2 DEF Leads
  <2> QED BY <1>1, <1>2, <2>3, <2>4, <2>5 DEF AsRead
<1>6. NamesFollowFiles'
  <2>1. /\ text'.form = "variable" /\ text'.target = t /\ text'.name = name /\ text'.output = o
        /\ text'.dir = text.dir /\ text'.prefix = prefix
    BY <1>1, <1>4
  <2>2. Resolved' = Leads(name, o, text.dir, prefix)
    <3> HIDE DEF o, t
    <3> QED BY <2>1 DEF Resolved, Leads
  <2>3. Owner(text.target)' = Owner(t)
    BY <1>1, <2>1 DEF Owner, splitVars
  <2> QED BY <1>5, <2>1, <2>2, <2>3 DEF NamesFollowFiles
<1> QED BY <1>1, <1>2, <1>4, <1>6, AfterRewrite

\* A relocated archive names the library directory of its output.
LEMMA LibdirHolds ==
  ASSUME RewriteInv, NEW relocate \in BOOLEAN, RewriteLibdir(relocate)
  PROVE  RewriteInv'
<1> DEFINE o == text.output
           name == IF relocate /\ text.name = Absolute(Primary, Lib) THEN Absolute(o, Lib) ELSE text.name
           prefix == IF relocate THEN o ELSE text.prefix
<1>1. text.form = "libdir" /\ ~text.done /\ UNCHANGED splitVars
  BY DEF RewriteLibdir
<1>2. /\ text # NoText /\ AsRead
      /\ text = [form |-> text.form, output |-> text.output, dir |-> text.dir, target |-> text.target,
                 name |-> text.name, prefix |-> text.prefix, done |-> text.done]
  BY <1>1, BeforeRewrite
<1>3. text' = [text EXCEPT !.done = TRUE, !.prefix = prefix, !.name = name]
  BY DEF RewriteLibdir
<1> HIDE DEF name, prefix
<1>4. text' = [form |-> text.form, output |-> text.output, dir |-> text.dir, target |-> text.target,
               name |-> name, prefix |-> prefix, done |-> TRUE]
  BY <1>2, <1>3
<1>5. ASSUME prefix = o
      PROVE  Leads(name, o, text.dir, prefix) = <<o>> \o Lib
  <2>1. name = Absolute(o, Lib)
    BY <1>1, <1>2, <1>5 DEF name, prefix, AsRead
  <2>2. name.form = "absolute" /\ name.names = <<o>> \o Lib
    BY <2>1, AbsoluteFields
  <2> HIDE DEF o
  <2> QED BY <2>2 DEF Leads
<1>6. NamesFollowFiles'
  <2>1. /\ text'.form = "libdir" /\ text'.name = name /\ text'.output = o
        /\ text'.dir = text.dir /\ text'.prefix = prefix
    BY <1>1, <1>4
  <2>2. Resolved' = Leads(name, o, text.dir, prefix)
    <3> HIDE DEF o
    <3> QED BY <2>1 DEF Resolved, Leads
  <2> HIDE DEF o
  <2> QED BY <1>5, <2>1, <2>2 DEF NamesFollowFiles
<1> QED BY <1>1, <1>2, <1>4, <1>6, AfterRewrite

\* A search path into the work directory is dropped.
LEMMA SearchHolds ==
  ASSUME RewriteInv, SanitizeSearchPath
  PROVE  RewriteInv'
<1> DEFINE name == IF text.name.form = "work" THEN Written("none", 0, << >>) ELSE text.name
<1>1. text.form = "search" /\ ~text.done /\ UNCHANGED splitVars
  BY DEF SanitizeSearchPath
<1>2. /\ text # NoText
      /\ text = [form |-> text.form, output |-> text.output, dir |-> text.dir, target |-> text.target,
                 name |-> text.name, prefix |-> text.prefix, done |-> text.done]
  BY <1>1, BeforeRewrite
<1>3. text' = [text EXCEPT !.done = TRUE, !.name = name]
  BY DEF SanitizeSearchPath
<1>4. name.form # "work"
  BY DEF Written
<1> HIDE DEF name
<1>5. text' = [form |-> text.form, output |-> text.output, dir |-> text.dir, target |-> text.target,
               name |-> name, prefix |-> text.prefix, done |-> TRUE]
  BY <1>2, <1>3
<1>6. text'.form = "search" /\ text'.name = name
  BY <1>1, <1>5
<1>7. NamesFollowFiles'
  BY <1>4, <1>6 DEF NamesFollowFiles
<1> QED BY <1>1, <1>2, <1>5, <1>7, AfterRewrite

\* The invariant of the rewriting passes holds throughout.
LEMMA RewriteInvariance == RewriteSpec => []RewriteInv
<1>1. RewriteInit => RewriteInv
  BY PlacedStart DEF RewriteInit, RewriteInv, TextKnown, NamesFollowFiles
<1>2. RewriteInv /\ [RewriteNext]_rewriteVars => RewriteInv'
  <2> SUFFICES ASSUME RewriteInv, [RewriteNext]_rewriteVars PROVE RewriteInv'
    OBVIOUS
  <2>1. CASE SplitNext /\ text = NoText /\ UNCHANGED text
    <3>1. SplitInv'
      BY <2>1, SplitStep DEF RewriteInv, Placed
    <3>2. Placed'
      BY <2>1, <3>1, PlacedStep DEF RewriteInv
    <3> QED BY <2>1, <3>2 DEF RewriteInv, TextKnown, NamesFollowFiles
  <2>2. ASSUME NEW o \in Outputs, NEW p \in DOMAIN out[o], NEW target \in DOMAIN staged,
               \/ ReadText("script", o, p, target, Absolute(Primary, target))
               \/ ReadText("variable", o, p, target, Absolute(Primary, target))
               \/ ReadText("variable", o, p, target, Written("prefixed", 0, target))
        PROVE  RewriteInv'
    <3>1. "script" # "variable" /\ "script" # "libdir" /\ "variable" # "libdir"
      OBVIOUS
    <3> QED BY <2>2, <3>1, ReadHolds
  <2>3. ASSUME NEW o \in Outputs, NEW p \in DOMAIN out[o],
               \/ ReadText("libdir", o, p, Lib, Absolute(Primary, Lib))
               \/ ReadText("search", o, p, Root, Absolute(Primary, p))
               \/ ReadText("search", o, p, Root, Written("work", 0, p))
        PROVE  RewriteInv'
    <3>1. /\ "libdir" # "script" /\ "libdir" # "variable"
          /\ "search" # "script" /\ "search" # "variable" /\ "search" # "libdir"
      OBVIOUS
    <3> QED BY <2>3, <3>1, ReadHolds
  <2>4. CASE RewriteLinkerScript \/ SanitizeSearchPath
    BY <2>4, ScriptHolds, SearchHolds
  <2>5. CASE \E relocate \in BOOLEAN : RewriteVariable(relocate) \/ RewriteLibdir(relocate)
    BY <2>5, VariableHolds, LibdirHolds
  <2>6. CASE UNCHANGED rewriteVars
    <3>1. UNCHANGED text /\ UNCHANGED splitVars
      BY <2>6 DEF rewriteVars
    <3>2. Placed' /\ \A x : (Kept(x)' <=> Kept(x)) /\ Owner(x)' = Owner(x)
      BY <3>1, PlacedStays DEF RewriteInv
    <3>3. staged' = staged /\ phase' = phase
      BY <3>1 DEF splitVars
    <3>4. TextKnown'
      BY <3>1, <3>3 DEF RewriteInv, TextKnown, AsRead
    <3>5. NamesFollowFiles'
      <4>1. Resolved' = Resolved
        BY <3>1 DEF Resolved
      <4> QED BY <3>1, <3>2, <3>3, <4>1 DEF RewriteInv, NamesFollowFiles
    <3> QED BY <3>2, <3>4, <3>5 DEF RewriteInv
  <2> QED BY <2>1, <2>2, <2>3, <2>4, <2>5, <2>6 DEF RewriteNext
<1> QED BY <1>1, <1>2, PTL DEF RewriteSpec

\* Wherever the split puts a file or directory, the texts that were rewritten
\* lead to it.
THEOREM TextsFollowTheSplit == RewriteSpec => []NamesFollowFiles
<1>1. RewriteInv => NamesFollowFiles
  BY DEF RewriteInv
<1> QED BY <1>1, RewriteInvariance, PTL

-----------------------------------------------------------------------------
\* A word that starts at i, byte by byte.
LEMMA StartsPositions ==
  ASSUME NEW data \in Seq(Nat), NEW word \in Seq(Nat), NEW i \in Nat \ {0}
  PROVE  StartsAt(data, i, word)
           <=> i + Len(word) - 1 <= Len(data) /\ \A m \in 1 .. Len(word) : data[i + m - 1] = word[m]
<1> DEFINE j == i + Len(word) - 1
           part == SubSeq(data, i, j)
<1>1. Len(data) \in Nat /\ Len(word) \in Nat /\ j \in Int /\ \A m \in 1 .. Len(data) : data[m] \in Nat
  OBVIOUS
<1>2. ASSUME j <= Len(data)
      PROVE  (part = word) <=> \A m \in 1 .. Len(word) : data[i + m - 1] = word[m]
  <2>1. \A m \in i .. j : data[m] \in Nat
    <3>1. \A m \in i .. j : m \in 1 .. Len(data)
      BY <1>1, <1>2
    <3> QED BY <1>1, <3>1
  <2>2. /\ part \in Seq(Nat)
        /\ Len(part) = IF i <= j THEN j - i + 1 ELSE 0
        /\ \A m \in 1 .. j - i + 1 : part[m] = data[i + m - 1]
    BY <1>1, <2>1, SubSeqProperties
  <2>3. j - i + 1 = Len(word) /\ (i <= j <=> Len(word) >= 1)
    BY <1>1
  <2> HIDE DEF part, j
  <2>4. Len(part) = Len(word)
    BY <1>1, <2>2, <2>3
  <2>5. \A m \in 1 .. Len(word) : part[m] = data[i + m - 1]
    BY <2>2, <2>3
  <2>6. (\A m \in 1 .. Len(word) : part[m] = word[m]) => part = word
    BY <2>2, <2>4, SeqEqual
  <2> QED BY <2>5, <2>6
<1> QED BY <1>2 DEF StartsAt

\* Words that agree in their first n bytes.
LEMMA AgreePositions ==
  ASSUME NEW v \in Seq(Nat), NEW w \in Seq(Nat), NEW n \in Nat
  PROVE  Agree(v, w, n) <=> n <= Len(v) /\ n <= Len(w) /\ \A m \in 1 .. n : v[m] = w[m]
<1>1. Len(v) \in Nat /\ Len(w) \in Nat
  OBVIOUS
<1>2. ASSUME NEW u \in Seq(Nat), n <= Len(u)
      PROVE  /\ SubSeq(u, 1, n) \in Seq(Nat) /\ Len(SubSeq(u, 1, n)) = n
             /\ \A m \in 1 .. n : SubSeq(u, 1, n)[m] = u[m]
  <2>1. \A m \in 1 .. n : u[m] \in Nat
    BY <1>2
  <2>2. /\ SubSeq(u, 1, n) \in Seq(Nat)
        /\ Len(SubSeq(u, 1, n)) = IF 1 <= n THEN n - 1 + 1 ELSE 0
        /\ \A m \in 1 .. n - 1 + 1 : SubSeq(u, 1, n)[m] = u[1 + m - 1]
    BY <2>1, SubSeqProperties
  <2> QED BY <2>2
<1>3. ASSUME n <= Len(v), n <= Len(w)
      PROVE  (SubSeq(v, 1, n) = SubSeq(w, 1, n)) <=> \A m \in 1 .. n : v[m] = w[m]
  <2> DEFINE a == SubSeq(v, 1, n)
             b == SubSeq(w, 1, n)
  <2>1. a \in Seq(Nat) /\ Len(a) = n /\ \A m \in 1 .. n : a[m] = v[m]
    BY <1>2, <1>3
  <2>2. b \in Seq(Nat) /\ Len(b) = n /\ \A m \in 1 .. n : b[m] = w[m]
    BY <1>2, <1>3
  <2> HIDE DEF a, b
  <2>3. (\A m \in 1 .. n : a[m] = b[m]) => a = b
    BY <2>1, <2>2, SeqEqual
  <2>4. (a = b) <=> \A m \in 1 .. n : v[m] = w[m]
    BY <2>1, <2>2, <2>3
  <2> QED BY <2>4 DEF a, b
<1> QED BY <1>3 DEF Agree

\* A set of lengths up to n has a greatest one.
LEMMA MaxLength ==
  ASSUME NEW n \in Nat, NEW T \in SUBSET (0 .. n), T # {}
  PROVE  Max(T) \in T /\ \A x \in T : x <= Max(T)
<1> DEFINE S == {n - x : x \in T}
<1>1. S \in SUBSET Nat /\ S # {}
  <2>1. \A x \in T : n - x \in Nat
    OBVIOUS
  <2> QED BY <2>1
<1>2. PICK m \in S : \A y \in S : m <= y
  BY <1>1, LeastNat
<1>3. PICK x \in T : m = n - x
  BY <1>2
<1>4. \A y \in T : y <= x
  <2> TAKE y \in T
  <2>1. m <= n - y
    BY <1>2
  <2> QED BY <1>3, <2>1
<1> QED BY <1>4 DEF Max

\* The least of a set of numbers.
LEMMA MinIs ==
  ASSUME NEW S \in SUBSET Nat, NEW m \in S, \A x \in S : m <= x
  PROVE  Min(S) = m
<1>1. \A x \in S : (\A y \in S : x <= y) => x = m
  OBVIOUS
<1> QED BY <1>1 DEF Min

\* It is there.
LEMMA MinOf ==
  ASSUME NEW S \in SUBSET Nat, S # {}
  PROVE  Min(S) \in S /\ \A x \in S : Min(S) <= x
<1>1. PICK m \in S : \A x \in S : m <= x
  BY LeastNat
<1>2. Min(S) = m
  BY <1>1, MinIs
<1> QED BY <1>1, <1>2

-----------------------------------------------------------------------------
\* What a word shares with the first one, at most n bytes.
Shared(first, w, n) == Max({k \in 0 .. n : Agree(first, w, k)})

\* It is the longest such part.
LEMMA SharedAgrees ==
  ASSUME NEW first \in Seq(Nat), NEW w \in Seq(Nat), NEW n \in Nat
  PROVE  Shared(first, w, n) \in 0 .. n /\ Agree(first, w, Shared(first, w, n))
<1> DEFINE T == {k \in 0 .. n : Agree(first, w, k)}
<1>1. Agree(first, w, 0)
  BY AgreePositions
<1>2. T \in SUBSET (0 .. n) /\ 0 \in T
  BY <1>1
<1>3. Max(T) \in T
  <2> HIDE DEF T
  <2> QED BY <1>2, MaxLength
<1> QED BY <1>3 DEF Shared

\* common_prefix as a loop.
Shortens(f, first, rest) ==
  /\ f \in [0 .. Len(rest) -> Nat]
  /\ f[0] = Len(first)
  /\ \A k \in 1 .. Len(rest) : f[k] = Shared(first, rest[k], f[k - 1])

\* The fold is that loop.
LEMMA CommonPrefixSteps ==
  ASSUME NEW words \in Seq(Seq(Nat)), words # << >>
  PROVE  \E f : /\ Shortens(f, Head(words), Tail(words))
                /\ CommonPrefix(words) = SubSeq(Head(words), 1, f[Len(Tail(words))])
<1> DEFINE rest == Tail(words)
           first == Head(words)
           n == Len(rest)
<1>1. first \in Seq(Nat) /\ rest \in Seq(Seq(Nat)) /\ Len(first) \in Nat
  BY HeadAndTail
<1>2. n \in Nat /\ DOMAIN rest = 1 .. n /\ \A k \in 1 .. n : rest[k] \in Seq(Nat)
  BY <1>1
<1> DEFINE base == Len(first)
           trim == [p \in (1 .. n) \X Nat |-> Shared(first, rest[p[1]], p[2])]
           iter == CHOOSE it : it = [s \in SUBSET DOMAIN rest |->
                     IF s = {} THEN base
                     ELSE Max({k \in 0 .. it[s \ {Max(s)}] : Agree(first, rest[Max(s)], k)})]
<1>3. CommonPrefix(words) = SubSeq(first, 1, iter[DOMAIN rest])
  BY SMT DEF CommonPrefix, FoldLeft, MapThenFoldSet
<1> HIDE DEF first, rest
<1>4. trim \in [(1 .. n) \X Nat -> Nat]
  <2>1. ASSUME NEW k \in 1 .. n, NEW m \in Nat PROVE Shared(first, rest[k], m) \in Nat
    <3>1. rest[k] \in Seq(Nat)
      BY <1>2
    <3>2. Shared(first, rest[k], m) \in 0 .. m
      BY <1>1, <3>1, SharedAgrees
    <3> QED BY <3>2
  <2> QED BY <2>1
<1>5. PICK g : IsFold(g, n, Nat, base, trim)
  <2>1. n \in Nat /\ base \in Nat
    BY <1>1, <1>2
  <2> HIDE DEF trim, n, base
  <2> QED BY <1>4, <2>1, FoldExists
<1>6. ASSUME NEW T \in SUBSET (1 .. n), T # {}
      PROVE  g[T] = Shared(first, rest[Max(T)], g[T \ {Max(T)}])
  <2>1. Max(T) \in 1 .. n
    <3>1. Max(T) \in T
      BY <1>2, <1>6, MaxOf
    <3> QED BY <3>1
  <2>2. g[T \ {Max(T)}] \in Nat
    BY <1>5 DEF IsFold
  <2> QED BY <1>5, <1>6, <2>1, <2>2 DEF IsFold
<1>7. g = [s \in SUBSET DOMAIN rest |->
             IF s = {} THEN base
             ELSE Max({k \in 0 .. g[s \ {Max(s)}] : Agree(first, rest[Max(s)], k)})]
  <2>1. \A T \in SUBSET (1 .. n) : T = {} => g[T] = base
    BY <1>5 DEF IsFold
  <2>2. g \in [SUBSET (1 .. n) -> Nat]
    BY <1>5 DEF IsFold
  <2> HIDE DEF trim, n, base
  <2> QED BY <1>2, <1>6, <2>1, <2>2 DEF Shared
<1>8. iter = [s \in SUBSET DOMAIN rest |->
                IF s = {} THEN base
                ELSE Max({k \in 0 .. iter[s \ {Max(s)}] : Agree(first, rest[Max(s)], k)})]
  BY <1>7
<1>9. \A s \in SUBSET (1 .. n) :
        iter[s] = IF s = {} THEN base ELSE Shared(first, rest[Max(s)], iter[s \ {Max(s)}])
  <2> HIDE DEF iter, n, base
  <2> QED BY <1>2, <1>8 DEF Shared
<1> DEFINE f == [k \in 0 .. n |-> iter[1 .. k]]
<1>10. Folded(f, n, Nat, base, trim)
  <2>1. iter[{}] = base
    BY <1>9
  <2>2. ASSUME NEW T \in SUBSET (1 .. n), T # {}, iter[T \ {Max(T)}] \in Nat
        PROVE  iter[T] = trim[<<Max(T), iter[T \ {Max(T)}]>>]
    <3>1. Max(T) \in 1 .. n
      <4>1. Max(T) \in T
        BY <1>2, <2>2, MaxOf
      <4> QED BY <4>1
    <3> HIDE DEF iter
    <3> QED BY <1>9, <2>2, <3>1
  <2>3. n \in Nat /\ base \in Nat
    BY <1>1, <1>2
  <2> HIDE DEF iter, trim, n, base
  <2>4. Iterates(iter, n, Nat, base, trim)
    BY <2>1, <2>2 DEF Iterates
  <2> QED BY <1>4, <2>3, <2>4, FoldSteps
<1>11. f[n] = iter[DOMAIN rest]
  <2>1. n \in 0 .. n
    BY <1>2
  <2> HIDE DEF iter
  <2> QED BY <1>2, <2>1
<1> HIDE DEF f
<1>12. f \in [0 .. n -> Nat] /\ f[0] = base
  BY <1>10 DEF Folded
<1>13. ASSUME NEW k \in 1 .. n PROVE f[k] = Shared(first, rest[k], f[k - 1])
  <2>1. f[k - 1] \in Nat
    <3>1. k - 1 \in 0 .. n
      BY <1>2
    <3> QED BY <1>12, <3>1
  <2>2. f[k] = trim[<<k, f[k - 1]>>]
    BY <1>10 DEF Folded
  <2> QED BY <2>1, <2>2
<1>14. Shortens(f, first, rest)
  BY <1>12, <1>13 DEF Shortens
<1>15. CommonPrefix(words) = SubSeq(first, 1, f[n])
  BY <1>3, <1>11
<1> HIDE DEF n
<1> QED BY <1>14, <1>15 DEF first, rest, n

\* Every word begins with the common prefix.
LEMMA CommonPrefixAgrees ==
  ASSUME NEW words \in Seq(Seq(Nat)), words # << >>
  PROVE  \E n \in 0 .. Len(Head(words)) :
           /\ CommonPrefix(words) = SubSeq(Head(words), 1, n)
           /\ \A w \in ToSet(words) : Agree(Head(words), w, n)
<1> DEFINE rest == Tail(words)
           first == Head(words)
           m == Len(rest)
<1>1. /\ first \in Seq(Nat) /\ rest \in Seq(Seq(Nat)) /\ Len(first) \in Nat
      /\ ToSet(words) = {first} \cup ToSet(rest)
  BY HeadAndTail
<1>2. m \in Nat /\ DOMAIN rest = 1 .. m /\ \A k \in 1 .. m : rest[k] \in Seq(Nat)
  BY <1>1
<1>3. PICK f : Shortens(f, first, rest) /\ CommonPrefix(words) = SubSeq(first, 1, f[m])
  BY CommonPrefixSteps
<1> HIDE DEF first, rest, m
<1>4. /\ f \in [0 .. m -> Nat] /\ f[0] = Len(first)
      /\ \A k \in 1 .. m : f[k] = Shared(first, rest[k], f[k - 1])
  BY <1>3 DEF Shortens, m
<1> DEFINE Good(k) == f[k] <= Len(first) /\ \A j \in 1 .. k : Agree(first, rest[j], f[k])
           S == {k \in Nat : k <= m => Good(k)}
<1>5. 0 \in S
  BY <1>1, <1>4
<1>6. ASSUME NEW k \in Nat, k \in S PROVE k + 1 \in S
  <2> SUFFICES ASSUME k + 1 <= m PROVE Good(k + 1)
    OBVIOUS
  <2>1. /\ k + 1 \in 1 .. m /\ (k + 1) - 1 = k /\ k \in 0 .. m /\ k + 1 \in 0 .. m /\ Good(k)
    BY <1>2, <1>6
  <2>2. f[k] \in Nat /\ f[k + 1] \in Nat /\ f[k + 1] = Shared(first, rest[k + 1], f[k])
    BY <1>4, <2>1
  <2>3. f[k + 1] <= f[k] /\ Agree(first, rest[k + 1], f[k + 1])
    <3>1. rest[k + 1] \in Seq(Nat)
      BY <1>2, <2>1
    <3>2. /\ Shared(first, rest[k + 1], f[k]) \in 0 .. f[k]
          /\ Agree(first, rest[k + 1], Shared(first, rest[k + 1], f[k]))
      BY <1>1, <2>2, <3>1, SharedAgrees
    <3> QED BY <2>2, <3>2
  <2>4. f[k + 1] <= Len(first)
    BY <1>1, <2>1, <2>2, <2>3
  <2>5. ASSUME NEW j \in 1 .. k PROVE Agree(first, rest[j], f[k + 1])
    <3>1. Agree(first, rest[j], f[k]) /\ rest[j] \in Seq(Nat)
      BY <1>2, <2>1
    <3> HIDE DEF Good, S
    <3>2. /\ f[k] <= Len(first) /\ f[k] <= Len(rest[j]) /\ \A i \in 1 .. f[k] : first[i] = rest[j][i]
      BY <1>1, <2>2, <3>1, AgreePositions
    <3>3. /\ f[k + 1] <= Len(first) /\ f[k + 1] <= Len(rest[j])
          /\ \A i \in 1 .. f[k + 1] : first[i] = rest[j][i]
      <4> DEFINE old == f[k]
                 new == f[k + 1]
                 m1 == Len(first)
                 m2 == Len(rest[j])
      <4>1. old \in Nat /\ new \in Nat /\ m1 \in Nat /\ m2 \in Nat
        BY <1>1, <2>2, <3>1
      <4>2. new <= old /\ old <= m1 /\ old <= m2
        BY <2>3, <3>2
      <4>3. \A i \in 1 .. old : first[i] = rest[j][i]
        BY <3>2
      <4> HIDE DEF old, new, m1, m2
      <4>4. new <= m1 /\ new <= m2 /\ \A i \in 1 .. new : i \in 1 .. old
        BY ONLY <4>1, <4>2
      <4>5. \A i \in 1 .. new : first[i] = rest[j][i]
        BY ONLY <4>3, <4>4
      <4> QED BY ONLY <4>4, <4>5 DEF new, m1, m2
    <3> QED BY <1>1, <2>2, <3>1, <3>3, AgreePositions
  <2>6. \A j \in 1 .. k + 1 : j \in 1 .. k \/ j = k + 1
    OBVIOUS
  <2> QED BY <2>3, <2>4, <2>5, <2>6
<1>7. Good(m)
  <2>1. Nat \subseteq S
    <3> HIDE DEF S
    <3> QED BY <1>5, <1>6, Induction
  <2> HIDE DEF Good
  <2> QED BY <1>2, <2>1
<1>8. f[m] \in 0 .. Len(first)
  BY <1>1, <1>2, <1>4, <1>7
<1>9. Agree(first, first, f[m])
  BY <1>1, <1>8, AgreePositions
<1>10. \A w \in ToSet(rest) : Agree(first, w, f[m])
  BY <1>2, <1>7 DEF ToSet
<1> QED BY <1>1, <1>3, <1>8, <1>9, <1>10 DEF first

\* find_forbidden_ref finds every forbidden word, wherever it is.
LEMMA ForbiddenRefs ==
  ASSUME NEW data \in Seq(Nat), NEW words \in Seq(Seq(Nat))
  PROVE  HasForbiddenRef(data, words)
           <=> \E w \in ToSet(words) : w # << >> /\ \E i \in DOMAIN data : StartsAt(data, i, w)
<1>1. CASE words = << >>
  BY <1>1 DEF HasForbiddenRef, ToSet
<1>2. CASE words # << >> /\ CommonPrefix(words) = << >>
  BY <1>2 DEF HasForbiddenRef, ContainsSubslice
<1>3. CASE words # << >> /\ CommonPrefix(words) # << >>
  <2> DEFINE first == Head(words)
             c == CommonPrefix(words)
  <2>1. /\ first \in Seq(Nat) /\ Len(first) \in Nat
        /\ \A w \in ToSet(words) : w \in Seq(Nat) /\ Len(w) \in Nat
    <3>1. \A w \in ToSet(words) : w \in Seq(Nat)
      BY DEF ToSet
    <3> QED BY <1>3, <3>1, HeadAndTail
  <2>2. PICK n \in 0 .. Len(first) :
          c = SubSeq(first, 1, n) /\ \A w \in ToSet(words) : Agree(first, w, n)
    BY <1>3, CommonPrefixAgrees
  <2> HIDE DEF first, c
  <2>3. n \in Nat /\ n <= Len(first)
    BY <2>1, <2>2
  <2>4. c \in Seq(Nat) /\ Len(c) = n /\ \A m \in 1 .. n : c[m] = first[m]
    <3>1. \A m \in 1 .. n : first[m] \in Nat
      BY <2>1, <2>3
    <3>2. /\ c \in Seq(Nat) /\ Len(c) = IF 1 <= n THEN n - 1 + 1 ELSE 0
          /\ \A m \in 1 .. n - 1 + 1 : c[m] = first[1 + m - 1]
      BY <2>2, <2>3, <3>1, SubSeqProperties
    <3> QED BY <2>3, <3>2
  <2>5. n # 0
    BY <1>3, <2>4 DEF c
  <2>6. ASSUME NEW w \in ToSet(words)
        PROVE  w # << >> /\ n <= Len(w) /\ \A m \in 1 .. n : c[m] = w[m]
    <3>1. n <= Len(w) /\ \A m \in 1 .. n : first[m] = w[m]
      BY <2>1, <2>2, <2>3, AgreePositions
    <3>2. w \in Seq(Nat) /\ Len(w) \in Nat
      BY <2>1
    <3>3. Len(w) >= 1
      BY <2>3, <2>5, <3>1, <3>2
    <3>4. w # << >>
      BY <3>3
    <3> QED BY <2>4, <3>1, <3>4
  <2>7. ASSUME NEW w \in ToSet(words), NEW i \in DOMAIN data, StartsAt(data, i, w)
        PROVE  StartsAt(data, i, c)
    <3>1. i \in Nat \ {0} /\ Len(data) \in Nat
      OBVIOUS
    <3>2. i + Len(w) - 1 <= Len(data) /\ \A m \in 1 .. Len(w) : data[i + m - 1] = w[m]
      BY <2>1, <2>7, <3>1, StartsPositions
    <3>3. i + Len(c) - 1 <= Len(data) /\ \A m \in 1 .. Len(c) : data[i + m - 1] = c[m]
      <4>1. Len(w) \in Nat /\ n <= Len(w) /\ \A m \in 1 .. n : c[m] = w[m]
        BY <2>1, <2>6
      <4>2. i + n - 1 <= Len(data)
        BY <2>3, <3>1, <3>2, <4>1
      <4>3. ASSUME NEW m \in 1 .. n PROVE data[i + m - 1] = c[m]
        <5>1. m \in 1 .. Len(w)
          BY <2>3, <4>1
        <5> QED BY <3>2, <4>1, <5>1
      <4> QED BY <2>4, <4>2, <4>3
    <3> QED BY <2>4, <3>1, <3>3, StartsPositions
  <2>8. HasForbiddenRef(data, words)
          <=> \E i \in DOMAIN data : StartsAt(data, i, c) /\ \E w \in ToSet(words) : StartsAt(data, i, w)
    BY <1>3 DEF HasForbiddenRef, c
  <2> QED BY <2>6, <2>7, <2>8
<1> QED BY <1>1, <1>2, <1>3

-----------------------------------------------------------------------------
\* A declared root ends where the name of the entry ends exactly if it is the
\* name that stands there.
LEMMA RootAtIs ==
  ASSUME NEW data \in Seq(Nat), NEW i \in DOMAIN data, StartsAt(data, i, StorePrefix),
         NEW r, IsStoreRoot(r)
  PROVE  StartsWithRoot(data, i, r) <=> RootAt(data, i) = r
<1> DEFINE L == Len(StorePrefix)
           n == Len(data)
           Ends == {n + 1} \cup {j \in DOMAIN data : j >= i + L /\ data[j] \notin EntryBytes}
           end == Min(Ends)
<1>1. /\ n \in Nat /\ DOMAIN data = 1 .. n /\ i \in Nat \ {0} /\ L \in Nat /\ L >= 1
      /\ StorePrefix \in Seq(Nat)
  BY VerifierBytes
<1>2. i + L - 1 <= n
  BY <1>1, StartsPositions
<1>3. /\ r \in Seq(Nat) /\ Len(r) \in Nat /\ StartsAt(r, 1, StorePrefix)
      /\ \A k \in L + 1 .. Len(r) : r[k] \in EntryBytes
  BY DEF IsStoreRoot
<1>4. L <= Len(r)
  <2>1. 1 + L - 1 <= Len(r)
    BY <1>1, <1>3, StartsPositions
  <2> QED BY <1>1, <1>3, <2>1
<1>5. StartsAt(data, i, r)
        <=> i + Len(r) - 1 <= n /\ \A m \in 1 .. Len(r) : data[i + m - 1] = r[m]
  BY <1>1, <1>3, StartsPositions
<1>6. Ends \in SUBSET Nat /\ n + 1 \in Ends
  BY <1>1
<1>7. RootAt(data, i) = SubSeq(data, i, end - 1)
  BY DEF RootAt
<1> HIDE DEF L, n, Ends, end
<1>8. ASSUME StartsWithRoot(data, i, r) PROVE RootAt(data, i) = r
  <2>1. /\ i + Len(r) - 1 <= n /\ \A m \in 1 .. Len(r) : data[i + m - 1] = r[m]
        /\ i + Len(r) \in DOMAIN data => data[i + Len(r)] \notin EntryBytes
        /\ SubSeq(data, i, i + Len(r) - 1) = r
    BY <1>5, <1>8 DEF StartsWithRoot, StartsAt, n
  <2>2. i + Len(r) \in Ends
    <3> DEFINE e == i + Len(r)
    <3>1. e \in Nat /\ 1 <= e /\ e <= n + 1 /\ e >= i + L
      BY <1>1, <1>3, <1>4, <2>1
    <3>2. e \in 1 .. n \/ e = n + 1
      BY <1>1, <3>1
    <3>3. e \in DOMAIN data => data[e] \notin EntryBytes
      BY <2>1
    <3> HIDE DEF e
    <3>4. e \in Ends
      BY <1>1, <3>1, <3>2, <3>3 DEF Ends
    <3> QED BY <3>4 DEF e
  <2>3. ASSUME NEW j \in Ends PROVE i + Len(r) <= j
    <3>1. CASE j = n + 1
      BY <1>1, <1>3, <2>1, <3>1
    <3>2. CASE j \in 1 .. n /\ j >= i + L /\ data[j] \notin EntryBytes
      <4>1. SUFFICES ASSUME j < i + Len(r) PROVE FALSE
        BY <1>1, <1>3, <3>2
      <4> DEFINE q == j - i + 1
      <4>2. j \in Int /\ j >= i + L
        BY <1>1, <3>2
      <4>3. q \in Int /\ q >= L + 1 /\ q <= Len(r) /\ i + q - 1 = j
        <5> DEFINE m == Len(r)
        <5>1. i \in Int /\ j \in Int /\ L \in Int /\ m \in Int /\ j >= i + L /\ j < i + m
          BY <1>1, <1>3, <4>1, <4>2
        <5> HIDE DEF m
        <5>2. q \in Int /\ q >= L + 1 /\ q <= m /\ i + q - 1 = j
          BY ONLY <5>1
        <5> QED BY <5>2 DEF m
      <4> HIDE DEF q
      <4>4. q \in 1 .. Len(r) /\ q \in L + 1 .. Len(r)
        BY <1>1, <1>3, <4>3
      <4>5. data[i + q - 1] = r[q] /\ r[q] \in EntryBytes
        BY <1>3, <2>1, <4>4
      <4>6. data[j] = r[q] /\ r[q] \in EntryBytes
        BY <4>3, <4>5
      <4> QED BY <3>2, <4>6
    <3> QED BY <1>1, <3>1, <3>2 DEF Ends
  <2>4. end = i + Len(r)
    BY <1>6, <2>2, <2>3, MinIs DEF end
  <2> QED BY <1>7, <2>1, <2>4
<1>9. ASSUME RootAt(data, i) = r PROVE StartsWithRoot(data, i, r)
  <2>1. end \in Ends
    BY <1>6, MinOf DEF end
  <2>2. end \in Nat /\ end <= n + 1 /\ end >= i + L
    BY <1>1, <1>2, <2>1 DEF Ends
  <2>3. Len(SubSeq(data, i, end - 1)) = end - i
    <3>1. \A m \in i .. end - 1 : data[m] \in Nat
      <4>1. \A m \in i .. end - 1 : m \in 1 .. n
        BY <1>1, <2>2
      <4> QED BY <1>1, <4>1
    <3>2. Len(SubSeq(data, i, end - 1)) = IF i <= end - 1 THEN (end - 1) - i + 1 ELSE 0
      BY <1>1, <2>2, <3>1, SubSeqProperties
    <3>3. L >= 1 /\ i <= end - 1 /\ (end - 1) - i + 1 = end - i
      BY <1>1, <2>2
    <3> QED BY <3>2, <3>3
  <2>4. Len(r) = end - i
    BY <1>7, <1>9, <2>3
  <2>5. end - 1 = i + Len(r) - 1 /\ i + Len(r) = end
    BY <1>1, <1>3, <2>2, <2>4
  <2>6. StartsAt(data, i, r)
    <3>1. SubSeq(data, i, i + Len(r) - 1) = r
      BY <1>7, <1>9, <2>5
    <3>2. i + Len(r) - 1 <= Len(data)
      BY <1>1, <2>2, <2>5 DEF n
    <3> QED BY <3>1, <3>2 DEF StartsAt
  <2>7. end \in DOMAIN data => data[end] \notin EntryBytes
    BY <1>1, <2>1 DEF Ends
  <2> QED BY <2>5, <2>6, <2>7 DEF StartsWithRoot
<1> QED BY <1>8, <1>9

\* From i on, every store path is a declared one.
DeclaredFrom(data, known, i) ==
  \A j \in i .. Len(data) : StartsAt(data, j, StorePrefix) => RootAt(data, j) \in known

\* verify_bytes goes on behind the prefix of a declared path, and misses none.
LEMMA DeclaredStep ==
  ASSUME NEW data \in Seq(Nat), NEW known, \A r \in known : IsStoreRoot(r), NEW i \in 1 .. Len(data) + 1,
         NEW found, found = {j \in i .. Len(data) : StartsAt(data, j, StorePrefix)}
  PROVE  /\ DeclaredFrom(data, known, i)
              <=> (found # {} => /\ \E r \in known : StartsWithRoot(data, Min(found), r)
                                 /\ DeclaredFrom(data, known, Min(found) + Len(StorePrefix)))
         /\ found # {} => Min(found) + Len(StorePrefix) \in i + 1 .. Len(data) + 1
<1> DEFINE n == Len(data)
           L == Len(StorePrefix)
           j == Min(found)
<1>1. /\ n \in Nat /\ DOMAIN data = 1 .. n /\ i \in Nat /\ i >= 1 /\ L \in Nat /\ L >= 1
      /\ StorePrefix \in Seq(Nat)
  BY VerifierBytes
<1>2. CASE found = {}
  BY <1>2 DEF DeclaredFrom
<1>3. CASE found # {}
  <2>1. found \in SUBSET Nat
    BY <1>1
  <2>2. j \in found /\ \A k \in found : j <= k
    BY <1>3, <2>1, MinOf
  <2> HIDE DEF j
  <2>3. /\ j \in Nat \ {0} /\ j >= i /\ j <= n /\ StartsAt(data, j, StorePrefix) /\ j \in DOMAIN data
    BY <1>1, <2>2
  <2>4. j + L - 1 <= n
    BY <1>1, <2>3, StartsPositions
  <2>5. \A r \in known : StartsWithRoot(data, j, r) <=> RootAt(data, j) = r
    BY <2>3, RootAtIs
  <2>6. ASSUME DeclaredFrom(data, known, i)
        PROVE  (\E r \in known : StartsWithRoot(data, j, r)) /\ DeclaredFrom(data, known, j + L)
    <3>1. RootAt(data, j) \in known
      BY <1>1, <2>3, <2>6 DEF DeclaredFrom
    <3>2. \A k \in j + L .. n : k \in i .. n
      BY <1>1, <2>3
    <3> QED BY <2>5, <2>6, <3>1, <3>2 DEF DeclaredFrom
  <2>7. ASSUME NEW r \in known, StartsWithRoot(data, j, r), DeclaredFrom(data, known, j + L),
               NEW k \in i .. n, StartsAt(data, k, StorePrefix)
        PROVE  RootAt(data, k) \in known
    <3>1. k \in found /\ j <= k /\ k \in Nat \ {0}
      BY <1>1, <2>2, <2>7
    <3>2. CASE k = j
      BY <2>5, <2>7, <3>2
    <3>3. CASE k >= j + L
      <4>1. k \in j + L .. n
        BY <1>1, <2>3, <3>3
      <4> QED BY <2>7, <4>1 DEF DeclaredFrom
    <3>4. CASE j < k /\ k < j + L
      <4> DEFINE q == k - j + 1
      <4>1. q \in 2 .. L /\ q \in Nat
        BY <1>1, <2>3, <3>1, <3>4
      <4> HIDE DEF q
      <4>2. /\ r \in Seq(Nat)
            /\ \E m \in 1 .. L : q + m - 1 <= Len(r) /\ r[q + m - 1] # StorePrefix[m]
        BY <4>1 DEF IsStoreRoot
      <4>3. PICK m \in 1 .. L : q + m - 1 <= Len(r) /\ r[q + m - 1] # StorePrefix[m]
        BY <4>2
      <4>4. \A x \in 1 .. Len(r) : data[j + x - 1] = r[x]
        BY <2>3, <2>7, <4>2, StartsPositions DEF StartsWithRoot
      <4>5. data[k + m - 1] = StorePrefix[m]
        BY <1>1, <2>7, <3>1, StartsPositions
      <4>6. q + m - 1 \in 1 .. Len(r) /\ j + (q + m - 1) - 1 = k + m - 1
        <5>1. Len(r) \in Nat
          BY <4>2
        <5>2. q = k - j + 1 /\ k \in Int /\ m \in Int /\ m >= 1 /\ q >= 2
          BY <1>1, <3>1, <4>1 DEF q
        <5>3. q + m - 1 \in Int /\ q + m - 1 >= 1
          BY <4>1, <5>2
        <5>4. j + (q + m - 1) - 1 = k + m - 1
          BY <2>3, <4>1, <5>2
        <5> QED BY <4>3, <5>1, <5>3, <5>4
      <4>7. data[k + m - 1] = r[q + m - 1]
        BY <4>4, <4>6
      <4> QED BY <4>3, <4>5, <4>7
    <3> QED BY <1>1, <2>3, <3>1, <3>2, <3>3, <3>4
  <2>8. (\E r \in known : StartsWithRoot(data, j, r)) /\ DeclaredFrom(data, known, j + L)
          => DeclaredFrom(data, known, i)
    BY <2>7 DEF DeclaredFrom
  <2>9. j + L \in i + 1 .. n + 1
    BY <1>1, <2>3, <2>4
  <2> QED BY <1>3, <2>6, <2>8, <2>9 DEF j
<1> QED BY <1>2, <1>3

\* verify_declared_refs accepts exactly the texts with declared store paths only.
LEMMA DeclaredRefs ==
  ASSUME NEW data \in Seq(Nat), NEW known, \A r \in known : IsStoreRoot(r)
  PROVE  OnlyDeclaredRefs(data, known)
           <=> \A i \in DOMAIN data : StartsAt(data, i, StorePrefix) => RootAt(data, i) \in known
<1> DEFINE n == Len(data)
           Found(i) == {j \in i .. n : StartsAt(data, j, StorePrefix)}
           from == CHOOSE f : f = [i \in 1 .. n + 1 |->
                     (Found(i) # {} => /\ \E r \in known : StartsWithRoot(data, Min(Found(i)), r)
                                       /\ f[Min(Found(i)) + Len(StorePrefix)])]
           g == [i \in 1 .. n + 1 |-> DeclaredFrom(data, known, i)]
<1>1. n \in Nat /\ DOMAIN data = 1 .. n
  OBVIOUS
<1>2. OnlyDeclaredRefs(data, known) <=> from[1]
  BY DEF OnlyDeclaredRefs
<1>3. ASSUME NEW i \in 1 .. n + 1
      PROVE  /\ DeclaredFrom(data, known, i)
                  <=> (Found(i) # {} => /\ \E r \in known : StartsWithRoot(data, Min(Found(i)), r)
                                        /\ DeclaredFrom(data, known, Min(Found(i)) + Len(StorePrefix)))
             /\ Found(i) # {} => Min(Found(i)) + Len(StorePrefix) \in i + 1 .. n + 1
  <2> DEFINE found == Found(i)
  <2>1. found = {j \in i .. Len(data) : StartsAt(data, j, StorePrefix)}
    OBVIOUS
  <2> HIDE DEF found
  <2>2. /\ DeclaredFrom(data, known, i)
              <=> (found # {} => /\ \E r \in known : StartsWithRoot(data, Min(found), r)
                                 /\ DeclaredFrom(data, known, Min(found) + Len(StorePrefix)))
        /\ found # {} => Min(found) + Len(StorePrefix) \in i + 1 .. Len(data) + 1
    BY <2>1, DeclaredStep
  <2> QED BY <2>2 DEF found
<1> HIDE DEF Found
<1>4. \A i \in 1 .. n + 1 :
        g[i] = (Found(i) # {} => /\ \E r \in known : StartsWithRoot(data, Min(Found(i)), r)
                                 /\ g[Min(Found(i)) + Len(StorePrefix)])
  <2> TAKE i \in 1 .. n + 1
  <2>1. g[i] = DeclaredFrom(data, known, i)
    OBVIOUS
  <2>2. Found(i) # {} =>
          g[Min(Found(i)) + Len(StorePrefix)] = DeclaredFrom(data, known, Min(Found(i)) + Len(StorePrefix))
    <3>1. Found(i) # {} => Min(Found(i)) + Len(StorePrefix) \in 1 .. n + 1
      BY <1>1, <1>3
    <3> QED BY <3>1
  <2> DEFINE here == Found(i)
             next == Min(Found(i)) + Len(StorePrefix)
  <2>3. /\ DeclaredFrom(data, known, i)
             <=> (here # {} => /\ \E r \in known : StartsWithRoot(data, Min(here), r)
                               /\ DeclaredFrom(data, known, next))
        /\ DeclaredFrom(data, known, i) \in BOOLEAN
    BY <1>3 DEF DeclaredFrom
  <2> HIDE DEF g, Found
  <2>4. CASE here = {}
    BY <2>1, <2>3, <2>4
  <2>5. CASE here # {}
    <3>1. g[next] = DeclaredFrom(data, known, next)
      BY <2>2, <2>5
    <3> QED BY <2>1, <2>3, <2>5, <3>1
  <2> QED BY <2>4, <2>5
<1>5. g = [i \in 1 .. n + 1 |->
             (Found(i) # {} => /\ \E r \in known : StartsWithRoot(data, Min(Found(i)), r)
                               /\ g[Min(Found(i)) + Len(StorePrefix)])]
  BY <1>4
<1>6. from = [i \in 1 .. n + 1 |->
                (Found(i) # {} => /\ \E r \in known : StartsWithRoot(data, Min(Found(i)), r)
                                  /\ from[Min(Found(i)) + Len(StorePrefix)])]
  <2> HIDE DEF g
  <2> QED BY <1>5
<1> HIDE DEF from, g
<1>7. \A i \in 1 .. n + 1 :
        from[i] <=> (Found(i) # {} => /\ \E r \in known : StartsWithRoot(data, Min(Found(i)), r)
                                      /\ from[Min(Found(i)) + Len(StorePrefix)])
  BY <1>6
<1> DEFINE Same(i) == from[i] <=> DeclaredFrom(data, known, i)
           S == {k \in Nat : \A i \in 1 .. n + 1 : i + k >= n + 1 => Same(i)}
<1>8. 0 \in S
  <2> SUFFICES ASSUME NEW i \in 1 .. n + 1, i + 0 >= n + 1 PROVE Same(i)
    OBVIOUS
  <2>1. i = n + 1
    BY <1>1
  <2>2. Found(i) # {} => FALSE
    BY <1>1, <1>3, <2>1
  <2> QED BY <1>3, <1>7, <2>2
<1>9. ASSUME NEW k \in Nat, k \in S PROVE k + 1 \in S
  <2> SUFFICES ASSUME NEW i \in 1 .. n + 1, i + (k + 1) >= n + 1 PROVE Same(i)
    OBVIOUS
  <2>1. CASE Found(i) = {}
    BY <1>3, <1>7, <2>1
  <2>2. CASE Found(i) # {}
    <3> DEFINE e == Min(Found(i)) + Len(StorePrefix)
    <3>1. e \in i + 1 .. n + 1
      BY <1>3, <2>2
    <3> HIDE DEF e
    <3>2. e \in 1 .. n + 1 /\ e + k >= n + 1
      BY <1>1, <3>1
    <3>3. Same(e)
      BY <1>9, <3>2
    <3> QED BY <1>3, <1>7, <2>2, <3>3 DEF e
  <2> QED BY <2>1, <2>2
<1>10. Same(1)
  <2>1. Nat \subseteq S
    <3> HIDE DEF S
    <3> QED BY <1>8, <1>9, Induction
  <2>2. n \in S
    <3> HIDE DEF S
    <3> QED BY <1>1, <2>1
  <2>3. 1 \in 1 .. n + 1 /\ 1 + n >= n + 1
    BY <1>1
  <2> HIDE DEF Same
  <2> QED BY <2>2, <2>3
<1> QED BY <1>1, <1>2, <1>10 DEF DeclaredFrom

-----------------------------------------------------------------------------
\* A list of headers that tile the cells from i on.
Tiles(cells, i, starts) ==
  /\ starts \in SUBSET (i .. Len(cells)) /\ i <= Len(cells) => i \in starts
  /\ \A k \in starts : /\ CanonicalHeader(cells, k)
                       /\ Min({Len(cells) + 1} \cup {j \in starts : j > k}) = MemberEnd(cells, k)
TiledFrom(cells, i) == \E starts \in SUBSET (i .. Len(cells)) : Tiles(cells, i, starts)

\* A member ends behind its header.
LEMMA MemberEnds ==
  ASSUME NEW cells, IsAr(cells), NEW i \in 1 .. Len(cells), CanonicalHeader(cells, i)
  PROVE  MemberEnd(cells, i) \in Nat /\ MemberEnd(cells, i) >= i + 2
<1>1. cells[i] \in ToSet(cells) /\ Len(cells) \in Nat
  BY DEF IsAr, ToSet
<1>2. cells[i].size \in Nat
  BY <1>1 DEF IsAr, CanonicalHeader
<1> DEFINE s == cells[i].size
<1>3. s \in Nat /\ s % 2 \in 0 .. 1
  BY <1>2
<1>4. MemberEnd(cells, i) = i + 2 + s + (s % 2)
  BY DEF MemberEnd
<1> HIDE DEF s
<1> QED BY <1>1, <1>3, <1>4

\* The headers tile the cells from i on if the first is one and the others
\* tile them from where its member ends.
LEMMA TiledStep ==
  ASSUME NEW cells, IsAr(cells), NEW i \in 1 .. Len(cells) + 1
  PROVE  TiledFrom(cells, i)
           <=> (i <= Len(cells) => /\ CanonicalHeader(cells, i)
                                   /\ MemberEnd(cells, i) <= Len(cells) + 1
                                   /\ TiledFrom(cells, MemberEnd(cells, i)))
<1> DEFINE n == Len(cells)
           e == MemberEnd(cells, i)
<1>1. n \in Nat /\ i \in Nat /\ i >= 1 /\ i <= n + 1
  BY DEF IsAr
<1>2. CASE i = n + 1
  <2>1. Tiles(cells, i, {})
    BY <1>1, <1>2 DEF Tiles
  <2>2. TiledFrom(cells, i)
    BY <2>1 DEF TiledFrom
  <2> QED BY <1>1, <1>2, <2>2
<1>3. CASE i <= n
  <2>1. ASSUME TiledFrom(cells, i)
        PROVE  CanonicalHeader(cells, i) /\ e <= n + 1 /\ TiledFrom(cells, e)
    <3>1. PICK starts \in SUBSET (i .. n) : Tiles(cells, i, starts)
      BY <2>1 DEF TiledFrom
    <3>2. /\ i \in starts /\ CanonicalHeader(cells, i)
          /\ \A k \in starts : k \in Nat /\ k >= i /\ k <= n
      <4>1. \A k \in starts : k \in i .. n
        OBVIOUS
      <4>2. i \in starts
        BY <1>3, <3>1 DEF Tiles
      <4>3. CanonicalHeader(cells, i)
        BY <3>1, <4>2 DEF Tiles
      <4> HIDE DEF n
      <4>4. \A k \in starts : k \in Nat /\ k >= i /\ k <= n
        BY <1>1, <4>1
      <4> QED BY <4>2, <4>3, <4>4
    <3>3. e = Min({n + 1} \cup {j \in starts : j > i})
      BY <3>1, <3>2 DEF Tiles
    <3> DEFINE E == {n + 1} \cup {j \in starts : j > i}
    <3>4. E \in SUBSET Nat /\ E # {}
      <4> HIDE DEF n
      <4>1. n + 1 \in Nat
        BY <1>1
      <4> QED BY <3>2, <4>1
    <3>5. e \in E /\ \A x \in E : e <= x
      <4> HIDE DEF E, e
      <4>1. e = Min(E)
        BY <3>3 DEF E
      <4> QED BY <3>4, <4>1, MinOf
    <3> HIDE DEF e
    <3>6. e \in Nat /\ e <= n + 1 /\ e > i
      BY <1>1, <1>3, <3>4, <3>5
    <3> DEFINE later == {k \in starts : k >= e}
    <3>7. later \in SUBSET (e .. n)
      <4> HIDE DEF n
      <4>1. \A k \in later : k \in e .. n
        BY <1>1, <3>2, <3>6
      <4> QED BY <4>1
    <3>8. e <= n => e \in later
      BY <1>1, <3>5, <3>6
    <3>9. ASSUME NEW k \in later
          PROVE  {j \in starts : j > k} = {j \in later : j > k}
      <4>1. k \in Nat /\ k >= e
        BY <3>2, <3>9
      <4>2. \A j \in starts : j > k => j >= e
        BY <3>2, <3>6, <4>1
      <4> QED BY <4>2
    <3>10. Tiles(cells, e, later)
      <4> SUFFICES ASSUME NEW k \in later
                   PROVE  /\ CanonicalHeader(cells, k)
                          /\ Min({n + 1} \cup {j \in later : j > k}) = MemberEnd(cells, k)
        BY <3>7, <3>8 DEF Tiles
      <4>1. k \in starts
        OBVIOUS
      <4>2. /\ CanonicalHeader(cells, k)
            /\ Min({n + 1} \cup {j \in starts : j > k}) = MemberEnd(cells, k)
        BY <3>1, <4>1 DEF Tiles
      <4>3. {j \in starts : j > k} = {j \in later : j > k}
        BY <3>9
      <4> QED BY <4>2, <4>3
    <3> QED BY <3>2, <3>6, <3>7, <3>10 DEF TiledFrom
  <2>2. ASSUME CanonicalHeader(cells, i), e <= n + 1, TiledFrom(cells, e)
        PROVE  TiledFrom(cells, i)
    <3>1. e \in Nat /\ e >= i + 2
      BY <1>1, <1>3, <2>2, MemberEnds
    <3>2. PICK later \in SUBSET (e .. n) : Tiles(cells, e, later)
      BY <2>2 DEF TiledFrom
    <3> HIDE DEF e
    <3> DEFINE starts == {i} \cup later
    <3>3. starts \in SUBSET (i .. n) /\ i \in starts
      BY <1>1, <1>3, <3>1
    <3>4. e <= n => e \in later
      BY <3>2 DEF Tiles
    <3>5. {j \in starts : j > i} = later /\ \A j \in later : j \in Nat /\ j >= e /\ j > i
      <4>1. \A j \in later : j \in e .. n
        OBVIOUS
      <4> HIDE DEF n
      <4>2. \A j \in later : j \in Nat /\ j >= e /\ j > i
        BY <1>1, <3>1, <4>1
      <4>3. ~(i > i)
        BY <1>1
      <4> QED BY <4>2, <4>3
    <3>6. Min({n + 1} \cup later) = e
      <4>1. e \in {n + 1} \cup later
        BY <1>1, <2>2, <3>1, <3>4
      <4>2. \A x \in {n + 1} \cup later : e <= x
        BY <1>1, <2>2, <3>1, <3>5
      <4>3. {n + 1} \cup later \in SUBSET Nat
        <5> HIDE DEF n
        <5>1. n + 1 \in Nat
          BY <1>1
        <5> QED BY <3>5, <5>1
      <4> QED BY <4>1, <4>2, <4>3, MinIs
    <3>7. ASSUME NEW k \in starts
          PROVE  /\ CanonicalHeader(cells, k)
                 /\ Min({n + 1} \cup {j \in starts : j > k}) = MemberEnd(cells, k)
      <4>1. CASE k = i
        BY <2>2, <3>5, <3>6, <4>1 DEF e
      <4>2. CASE k \in later
        <5>1. {j \in starts : j > k} = {j \in later : j > k}
          BY <1>1, <3>1, <4>2
        <5>2. /\ CanonicalHeader(cells, k)
              /\ Min({n + 1} \cup {j \in later : j > k}) = MemberEnd(cells, k)
          BY <3>2, <4>2 DEF Tiles
        <5> QED BY <5>1, <5>2
      <4> QED BY <4>1, <4>2
    <3>8. Tiles(cells, i, starts)
      BY <3>3, <3>7 DEF Tiles
    <3> QED BY <3>3, <3>8 DEF TiledFrom
  <2> QED BY <1>3, <2>1, <2>2
<1> QED BY <1>1, <1>2, <1>3

\* verify_ar_archive accepts exactly the archives that clean members tile.
LEMMA ArchivesTiled ==
  ASSUME NEW cells, IsAr(cells)
  PROVE  ArAccepted(cells) <=> Tiled(cells)
<1> DEFINE n == Len(cells)
           Step(f, i) == i <= n => /\ CanonicalHeader(cells, i)
                                   /\ MemberEnd(cells, i) <= n + 1
                                   /\ f[MemberEnd(cells, i)]
           from == CHOOSE f : f = [i \in 1 .. n + 1 |->
                     (i <= n => /\ CanonicalHeader(cells, i)
                                /\ MemberEnd(cells, i) <= n + 1
                                /\ f[MemberEnd(cells, i)])]
           g == [i \in 1 .. n + 1 |-> TiledFrom(cells, i)]
<1>1. n \in Nat /\ DOMAIN cells = 1 .. n /\ (cells # << >> <=> n >= 1)
  BY DEF IsAr
<1>2. ArAccepted(cells) <=> from[1]
  BY DEF ArAccepted
<1>3. ASSUME NEW i \in 1 .. n + 1
      PROVE  /\ TiledFrom(cells, i)
                  <=> (i <= n => /\ CanonicalHeader(cells, i)
                                 /\ MemberEnd(cells, i) <= n + 1
                                 /\ TiledFrom(cells, MemberEnd(cells, i)))
             /\ TiledFrom(cells, i) \in BOOLEAN
  BY TiledStep DEF TiledFrom
<1>4. ASSUME NEW i \in 1 .. n + 1, i <= n, CanonicalHeader(cells, i)
      PROVE  /\ MemberEnd(cells, i) \in Nat /\ MemberEnd(cells, i) >= i + 2
             /\ MemberEnd(cells, i) <= n + 1 => MemberEnd(cells, i) \in i + 1 .. n + 1
  <2>1. i \in 1 .. n
    BY <1>1, <1>4
  <2>2. MemberEnd(cells, i) \in Nat /\ MemberEnd(cells, i) >= i + 2
    BY <1>4, <2>1, MemberEnds
  <2> QED BY <1>1, <2>2
<1>5. \A i \in 1 .. n + 1 : g[i] = (i <= n => /\ CanonicalHeader(cells, i)
                                              /\ MemberEnd(cells, i) <= n + 1
                                              /\ g[MemberEnd(cells, i)])
  <2> TAKE i \in 1 .. n + 1
  <2> DEFINE next == MemberEnd(cells, i)
  <2>1. g[i] = TiledFrom(cells, i)
    OBVIOUS
  <2>2. CASE i <= n /\ CanonicalHeader(cells, i) /\ next <= n + 1
    <3>1. next \in 1 .. n + 1
      BY <1>1, <1>4, <2>2
    <3>2. g[next] = TiledFrom(cells, next)
      BY <3>1
    <3> HIDE DEF g, next
    <3> QED BY <1>3, <2>1, <2>2, <3>2 DEF next
  <2>3. CASE ~(i <= n /\ CanonicalHeader(cells, i) /\ next <= n + 1)
    <3> HIDE DEF g
    <3> QED BY <1>3, <2>1, <2>3
  <2> QED BY <2>2, <2>3
<1>6. g = [i \in 1 .. n + 1 |-> (i <= n => /\ CanonicalHeader(cells, i)
                                           /\ MemberEnd(cells, i) <= n + 1
                                           /\ g[MemberEnd(cells, i)])]
  BY <1>5
<1>7. from = [i \in 1 .. n + 1 |-> (i <= n => /\ CanonicalHeader(cells, i)
                                              /\ MemberEnd(cells, i) <= n + 1
                                              /\ from[MemberEnd(cells, i)])]
  <2> HIDE DEF g
  <2> QED BY <1>6
<1> HIDE DEF from, g
<1>8. \A i \in 1 .. n + 1 : from[i] <=> Step(from, i)
  BY <1>7
<1> DEFINE Same(i) == from[i] <=> TiledFrom(cells, i)
           S == {k \in Nat : \A i \in 1 .. n + 1 : i + k >= n + 1 => Same(i)}
<1>9. 0 \in S
  <2> SUFFICES ASSUME NEW i \in 1 .. n + 1, i + 0 >= n + 1 PROVE Same(i)
    OBVIOUS
  <2>1. ~(i <= n)
    BY <1>1
  <2> QED BY <1>3, <1>8, <2>1
<1>10. ASSUME NEW k \in Nat, k \in S PROVE k + 1 \in S
  <2> SUFFICES ASSUME NEW i \in 1 .. n + 1, i + (k + 1) >= n + 1 PROVE Same(i)
    OBVIOUS
  <2>1. CASE i <= n /\ CanonicalHeader(cells, i) /\ MemberEnd(cells, i) <= n + 1
    <3> DEFINE e == MemberEnd(cells, i)
    <3>1. e \in i + 1 .. n + 1
      BY <1>4, <2>1
    <3> HIDE DEF e
    <3>2. e \in 1 .. n + 1 /\ e + k >= n + 1
      BY <1>1, <3>1
    <3>3. Same(e)
      BY <1>10, <3>2
    <3> QED BY <1>3, <1>8, <2>1, <3>3 DEF e
  <2>2. CASE ~(i <= n /\ CanonicalHeader(cells, i) /\ MemberEnd(cells, i) <= n + 1)
    BY <1>3, <1>8, <2>2
  <2> QED BY <2>1, <2>2
<1>11. Same(1)
  <2>1. Nat \subseteq S
    <3> HIDE DEF S
    <3> QED BY <1>9, <1>10, Induction
  <2>2. n \in S
    <3> HIDE DEF S
    <3> QED BY <1>1, <2>1
  <2>3. 1 \in 1 .. n + 1 /\ 1 + n >= n + 1
    BY <1>1
  <2> HIDE DEF Same
  <2> QED BY <2>2, <2>3
<1>12. TiledFrom(cells, 1) <=> Tiled(cells)
  <2>1. \A starts \in SUBSET (1 .. n) :
          Tiles(cells, 1, starts)
            <=> /\ cells # << >> => 1 \in starts
                /\ \A k \in starts : /\ CanonicalHeader(cells, k)
                                     /\ Min({n + 1} \cup {j \in starts : j > k}) = MemberEnd(cells, k)
    BY <1>1 DEF Tiles
  <2> QED BY <1>1, <2>1 DEF TiledFrom, Tiled
<1> QED BY <1>2, <1>11, <1>12

-----------------------------------------------------------------------------
\* The positions between two.
LEMMA Between ==
  ASSUME NEW i \in Nat, NEW j \in Nat
  PROVE  /\ i <= j => Min({i, j}) = i /\ Max({i, j}) = j
         /\ j <= i => Min({i, j}) = j /\ Max({i, j}) = i
<1>1. {i, j} \in SUBSET Nat
  OBVIOUS
<1>2. Max({i, j}) \in {i, j} /\ \A x \in {i, j} : x <= Max({i, j})
  <2>1. \E x \in {i, j} : \A y \in {i, j} : y <= x
    <3>1. i <= j \/ j <= i
      OBVIOUS
    <3> QED BY <3>1
  <2> QED BY <2>1 DEF Max
<1>3. Min({i, j}) \in {i, j} /\ \A x \in {i, j} : Min({i, j}) <= x
  BY <1>1, MinOf
<1> QED BY <1>2, <1>3

\* A path is at or below a prefix exactly if its names begin with the names of
\* the prefix.
LEMMA PrefixesAreBelow ==
  ASSUME NEW path \in Seq(Nat), path # << >>, path[1] = Slash,
         NEW prefix \in Seq(Nat), prefix # << >> => Last(prefix) # Slash
  PROVE  IsUnderPrefix(path, prefix) <=> Below(path, prefix)
<1> DEFINE n == Len(prefix)
           N == Len(path)
           long == Append(prefix, Slash)
<1>1. /\ n \in Nat /\ N \in Nat /\ N >= 1 /\ DOMAIN path = 1 .. N /\ DOMAIN prefix = 1 .. n
      /\ (n = 0 <=> prefix = << >>) /\ Slash \in Nat /\ (n # 0 => prefix[n] # Slash)
  BY VerifierBytes DEF Last
<1>2. /\ long \in Seq(Nat) /\ Len(long) = n + 1 /\ long[n + 1] = Slash
      /\ \A m \in 1 .. n : long[m] = prefix[m]
  BY <1>1, AppendProperties
<1>3. StartsAt(path, 1, long) <=> n + 1 <= N /\ path[n + 1] = Slash /\ \A m \in 1 .. n : path[m] = prefix[m]
  <2> HIDE DEF long, n, N
  <2>1. StartsAt(path, 1, long) <=> 1 + (n + 1) - 1 <= N /\ \A m \in 1 .. n + 1 : path[1 + m - 1] = long[m]
    <3>1. 1 \in Nat \ {0}
      OBVIOUS
    <3>2. StartsAt(path, 1, long)
            <=> 1 + Len(long) - 1 <= Len(path) /\ \A m \in 1 .. Len(long) : path[1 + m - 1] = long[m]
      BY ONLY <1>2, <3>1, path \in Seq(Nat), StartsPositions
    <3> QED BY <1>2, <3>2 DEF N
  <2>2. \A m \in 1 .. n + 1 : 1 + m - 1 = m /\ (m \in 1 .. n \/ m = n + 1)
    BY <1>1
  <2>3. n + 1 \in 1 .. n + 1 /\ 1 .. n \subseteq 1 .. n + 1 /\ 1 + (n + 1) - 1 = n + 1
    BY <1>1
  <2>4. (\A m \in 1 .. n + 1 : path[1 + m - 1] = long[m])
           <=> path[n + 1] = Slash /\ \A m \in 1 .. n : path[m] = prefix[m]
    BY <1>2, <2>2, <2>3
  <2> QED BY <2>1, <2>3, <2>4
<1>4. Agree(path, prefix, n) <=> n <= N /\ \A m \in 1 .. n : path[m] = prefix[m]
  <2>1. Agree(path, prefix, n) <=> n <= Len(path) /\ n <= Len(prefix) /\ \A m \in 1 .. n : path[m] = prefix[m]
    <3> HIDE DEF n
    <3> QED BY <1>1, AgreePositions
  <2> QED BY <1>1, <2>1
<1>5. n = N /\ (\A m \in 1 .. n : path[m] = prefix[m]) => path = prefix
  BY SeqEqual
<1> HIDE DEF n, N, long
<1>6. ASSUME IsUnderPrefix(path, prefix) PROVE Below(path, prefix)
  <2>1. CASE path = prefix
    <3>1. Agree(path, prefix, n)
      BY <1>1, <1>4, <2>1 DEF n, N
    <3> QED BY <2>1, <3>1 DEF Below, n
  <2>2. CASE n + 1 <= N /\ path[n + 1] = Slash /\ \A m \in 1 .. n : path[m] = prefix[m]
    <3>1. Agree(path, prefix, n)
      BY <1>1, <1>4, <2>2
    <3>2. ASSUME NEW i \in 1 .. n PROVE NameAt(path, i) = NameAt(prefix, i)
      <4>1. ASSUME NEW j \in NameAt(path, i) PROVE j \in NameAt(prefix, i)
        <5>1. j \in 1 .. N /\ \A k \in Min({i, j}) .. Max({i, j}) : path[k] # Slash
          BY <1>1, <4>1 DEF NameAt
        <5>2. j <= n
          <6>1. SUFFICES ASSUME j > n PROVE FALSE
            BY <1>1, <5>1
          <6>2. Min({i, j}) = i /\ Max({i, j}) = j
            <7>1. i \in Nat /\ j \in Nat /\ i <= j
              BY <1>1, <5>1, <6>1
            <7> QED BY <7>1, Between
          <6>3. n + 1 \in i .. j
            BY <1>1, <5>1, <6>1
          <6> QED BY <2>2, <5>1, <6>2, <6>3
        <5>3. Min({i, j}) .. Max({i, j}) \subseteq 1 .. n
          <6>1. i \in Nat /\ j \in Nat /\ i >= 1 /\ j >= 1 /\ i <= n
            BY <1>1, <5>1
          <6>2. Min({i, j}) \in {i, j} /\ Max({i, j}) \in {i, j}
            <7>1. i <= j \/ j <= i
              BY <6>1
            <7> QED BY <6>1, <7>1, Between
          <6> QED BY <1>1, <5>2, <6>1, <6>2
        <5>4. \A k \in Min({i, j}) .. Max({i, j}) : prefix[k] # Slash
          BY <2>2, <5>1, <5>3
        <5>5. j \in 1 .. n
          BY <1>1, <5>1, <5>2
        <5> QED BY <1>1, <5>4, <5>5 DEF NameAt
      <4>2. ASSUME NEW j \in NameAt(prefix, i) PROVE j \in NameAt(path, i)
        <5>1. j \in 1 .. n /\ \A k \in Min({i, j}) .. Max({i, j}) : prefix[k] # Slash
          BY <1>1, <4>2 DEF NameAt
        <5>2. Min({i, j}) .. Max({i, j}) \subseteq 1 .. n
          <6>1. i \in Nat /\ j \in Nat /\ i >= 1 /\ j >= 1 /\ i <= n /\ j <= n
            BY <1>1, <5>1
          <6>2. Min({i, j}) \in {i, j} /\ Max({i, j}) \in {i, j}
            <7>1. i <= j \/ j <= i
              BY <6>1
            <7> QED BY <6>1, <7>1, Between
          <6> QED BY <1>1, <6>1, <6>2
        <5>3. \A k \in Min({i, j}) .. Max({i, j}) : path[k] # Slash
          BY <2>2, <5>1, <5>2
        <5>4. j \in 1 .. N
          BY <1>1, <2>2, <5>1
        <5> QED BY <1>1, <5>3, <5>4 DEF NameAt
      <4> QED BY <4>1, <4>2
    <3> QED BY <1>1, <3>1, <3>2 DEF Below, n
  <2> QED BY <1>3, <1>6, <2>1, <2>2 DEF IsUnderPrefix, long
<1>7. ASSUME Below(path, prefix) PROVE IsUnderPrefix(path, prefix)
  <2>1. n <= N /\ \A m \in 1 .. n : path[m] = prefix[m]
    BY <1>4, <1>7 DEF Below, n
  <2>2. CASE n = N
    BY <1>5, <2>1, <2>2 DEF IsUnderPrefix
  <2>3. CASE n + 1 <= N
    <3>1. path[n + 1] = Slash
      <4>1. CASE n = 0
        BY <4>1
      <4>2. CASE n # 0
        <5>1. SUFFICES ASSUME path[n + 1] # Slash PROVE FALSE
          OBVIOUS
        <5>2. n \in 1 .. n /\ n \in DOMAIN prefix /\ prefix[n] # Slash /\ path[n] = prefix[n]
          BY <1>1, <2>1, <4>2
        <5>3. NameAt(path, n) = NameAt(prefix, n)
          BY <1>7, <5>2 DEF Below
        <5>4. Min({n, n + 1}) = n /\ Max({n, n + 1}) = n + 1
          <6>1. n + 1 \in Nat /\ n <= n + 1
            BY <1>1
          <6> QED BY <1>1, <6>1, Between
        <5>5. \A k \in n .. n + 1 : path[k] # Slash
          <6>1. \A k \in n .. n + 1 : k = n \/ k = n + 1
            BY <1>1
          <6> QED BY <5>1, <5>2, <6>1
        <5>6. n + 1 \in NameAt(path, n)
          <6>1. n + 1 \in DOMAIN path
            BY <1>1, <2>3
          <6> QED BY <5>4, <5>5, <6>1 DEF NameAt
        <5>7. n + 1 \in 1 .. n
          BY <1>1, <5>3, <5>6 DEF NameAt
        <5> QED BY <1>1, <5>7
      <4> QED BY <4>1, <4>2
    <3>2. StartsAt(path, 1, long)
      BY <1>3, <2>1, <2>3, <3>1
    <3> QED BY <3>2 DEF IsUnderPrefix, long
  <2> QED BY <1>1, <2>1, <2>2, <2>3
<1> QED BY <1>6, <1>7

\* dynamic_strings reads what the loader reads.
LEMMA StringsAreLoaded ==
  ASSUME NEW elf, IsElf(elf), NEW tags
  PROVE  DynamicStrings(elf, tags) = Loaded(elf, tags)
<1>1. CASE elf.dynamic = << >>
  BY <1>1 DEF DynamicStrings, Loaded, ToSet
<1>2. CASE elf.dynamic # << >>
  <2> DEFINE table == elf.dynamic[1]
             n == Len(table)
             nulls == {i \in DOMAIN table : table[i].tag = "null"}
             end == Min({n + 1} \cup nulls)
             named == \E i \in 1 .. end - 1 : table[i].tag = "strtab"
  <2>1. Head(elf.dynamic) = table /\ table \in ToSet(elf.dynamic) /\ 1 \in DOMAIN elf.dynamic
    <3>1. elf.dynamic \in Seq(ToSet(elf.dynamic))
      BY DEF IsElf
    <3>2. Head(elf.dynamic) = table /\ 1 \in DOMAIN elf.dynamic
      BY <1>2, <3>1
    <3> QED BY <3>2 DEF ToSet
  <2>2. n \in Nat /\ DOMAIN table = 1 .. n
    <3>1. table \in Seq(ToSet(table))
      BY <2>1 DEF IsElf
    <3> QED BY <3>1
  <2>3. end \in {n + 1} \cup nulls /\ \A x \in {n + 1} \cup nulls : end <= x
    <3>1. {n + 1} \cup nulls \in SUBSET Nat /\ {n + 1} \cup nulls # {}
      BY <2>2
    <3> HIDE DEF n, nulls
    <3> QED BY <3>1, MinOf
  <2>4. end \in Nat /\ end <= n + 1 /\ end >= 1
    BY <2>2, <2>3
  <2>5. ASSUME NEW i \in 1 .. n
        PROVE  i \in 1 .. end - 1 <=> \A j \in 1 .. i : table[j].tag # "null"
    <3>1. ASSUME i \in 1 .. end - 1, NEW j \in 1 .. i PROVE table[j].tag # "null"
      <4>1. j \in 1 .. n /\ ~(end <= j)
        BY <2>2, <2>4, <3>1
      <4> HIDE DEF end
      <4> QED BY <2>2, <2>3, <4>1
    <3>2. ASSUME ~(i \in 1 .. end - 1) PROVE \E j \in 1 .. i : table[j].tag = "null"
      <4>1. end <= i /\ end # n + 1
        BY <2>2, <2>4, <3>2
      <4>2. end \in 1 .. i /\ end \in nulls
        BY <2>3, <2>4, <4>1
      <4> HIDE DEF end
      <4> QED BY <4>2
    <3> QED BY <3>1, <3>2
  <2>6. 1 .. end - 1 \subseteq 1 .. n
    <3> HIDE DEF n, end
    <3> QED BY <2>2, <2>4
  <2>7. DynamicStrings(elf, tags)
          = IF elf.loaded /\ named
            THEN {table[i].value : i \in {j \in 1 .. end - 1 : table[j].tag \in tags}}
            ELSE {}
    BY <1>2, <2>1 DEF DynamicStrings
  <2> HIDE DEF n, nulls, end
  <2>8. named <=> \E j \in DOMAIN table :
                    table[j].tag = "strtab" /\ \A k \in 1 .. j : table[k].tag # "null"
    BY <2>2, <2>5, <2>6
  <2> HIDE DEF named
  <2> DEFINE Found(v) == \E i \in DOMAIN table :
                           /\ elf.loaded
                           /\ table[i].tag \in tags /\ table[i].value = v
                           /\ \A j \in 1 .. i : table[j].tag # "null"
                           /\ named
             Values == UNION {{e.value : e \in ToSet(t)} : t \in ToSet(elf.dynamic)}
  <2>9. Loaded(elf, tags) = {v \in Values : Found(v)}
    BY <2>8 DEF Loaded
  <2>10. ASSUME NEW v, Found(v) PROVE v \in Values
    <3>1. PICK i \in DOMAIN table : table[i].value = v
      BY <2>10
    <3>2. table[i] \in ToSet(table)
      BY DEF ToSet
    <3> HIDE DEF table
    <3> QED BY <2>1, <3>1, <3>2
  <2>11. ASSUME NEW v
         PROVE  v \in DynamicStrings(elf, tags) <=> Found(v)
    <3>1. v \in DynamicStrings(elf, tags)
            <=> /\ elf.loaded /\ named
                /\ \E i \in 1 .. end - 1 : table[i].tag \in tags /\ table[i].value = v
      BY <2>7
    <3> HIDE DEF table
    <3> QED BY <2>2, <2>5, <2>6, <3>1
  <2> HIDE DEF Found, Values
  <2> QED BY <2>9, <2>10, <2>11
<1> QED BY <1>1, <1>2

\* verify_elf_interpreters judges the loader's strings, path by path.
LEMMA ElfJudged ==
  ASSUME NEW elf, IsElf(elf), NEW p, IsPolicy("elf", p)
  PROVE  ElfAccepted(elf, p)
           <=> /\ elf.interpreters # << >> =>
                    /\ elf.interpreters[1] = p.interpreter
                    /\ \A n \in p.required : n \in Loaded(elf, {"needed"})
                    /\ \A n \in p.forbidden : n \notin Loaded(elf, {"needed"})
               /\ \A v \in Loaded(elf, {"rpath", "runpath"}) : \A i \in DOMAIN v :
                    p.prefixes # {} /\ v[i] # << >> /\ v[i][1] = Slash => \E q \in p.prefixes : Below(v[i], q)
<1> DEFINE needed == Loaded(elf, {"needed"})
           paths == Loaded(elf, {"rpath", "runpath"})
<1>1. DynamicStrings(elf, {"needed"}) = needed /\ DynamicStrings(elf, {"rpath", "runpath"}) = paths
  BY StringsAreLoaded
<1>2. elf.interpreters # << >> => Head(elf.interpreters) = elf.interpreters[1]
  BY DEF IsElf
<1>3. \A v \in paths : v \in Seq(Seq(Nat))
  <2> SUFFICES ASSUME NEW v \in paths PROVE v \in Seq(Seq(Nat))
    OBVIOUS
  <2>1. PICK i \in DOMAIN elf.dynamic[1] :
          elf.dynamic[1][i].tag \in {"rpath", "runpath"} /\ elf.dynamic[1][i].value = v
    BY DEF Loaded
  <2>2. elf.dynamic # << >>
    BY DEF Loaded, ToSet
  <2>3. elf.dynamic[1] \in ToSet(elf.dynamic)
    <3>1. elf.dynamic \in Seq(ToSet(elf.dynamic))
      BY DEF IsElf
    <3>2. 1 \in DOMAIN elf.dynamic
      BY <2>2, <3>1
    <3> QED BY <3>2 DEF ToSet
  <2>4. elf.dynamic[1][i] \in ToSet(elf.dynamic[1])
    BY DEF ToSet
  <2> QED BY <2>1, <2>3, <2>4 DEF IsElf
<1> HIDE DEF needed, paths
<1>4. \A q \in p.prefixes : q \in Seq(Nat) /\ (q # << >> => Last(q) # Slash)
  BY DEF IsPolicy
<1>5. ASSUME NEW path \in Seq(Nat)
      PROVE  /\ StartsAt(path, 1, <<Slash>>) <=> path # << >> /\ path[1] = Slash
             /\ path # << >> /\ path[1] = Slash =>
                  ((\E q \in p.prefixes : IsUnderPrefix(path, q)) <=> \E q \in p.prefixes : Below(path, q))
  <2>1. <<Slash>> \in Seq(Nat) /\ Len(<<Slash>>) = 1 /\ <<Slash>>[1] = Slash
    BY VerifierBytes
  <2>2. StartsAt(path, 1, <<Slash>>)
          <=> 1 + Len(<<Slash>>) - 1 <= Len(path)
              /\ \A m \in 1 .. Len(<<Slash>>) : path[1 + m - 1] = <<Slash>>[m]
    <3>1. 1 \in Nat \ {0}
      OBVIOUS
    <3> DEFINE word == <<Slash>>
    <3>2. word \in Seq(Nat)
      BY <2>1
    <3> HIDE DEF word
    <3>3. StartsAt(path, 1, word)
            <=> 1 + Len(word) - 1 <= Len(path) /\ \A m \in 1 .. Len(word) : path[1 + m - 1] = word[m]
      BY <3>1, <3>2, StartsPositions
    <3> QED BY <3>3 DEF word
  <2>3. StartsAt(path, 1, <<Slash>>) <=> 1 <= Len(path) /\ path[1] = Slash
    BY <2>1, <2>2
  <2>4. Len(path) \in Nat /\ (1 <= Len(path) <=> path # << >>)
    OBVIOUS
  <2> QED BY <1>4, <2>3, <2>4, PrefixesAreBelow
<1>6. (p.prefixes # {} =>
         \A path \in UNION {ToSet(v) : v \in paths} :
           StartsAt(path, 1, <<Slash>>) => \E q \in p.prefixes : IsUnderPrefix(path, q))
        <=> \A v \in paths : \A i \in DOMAIN v :
              p.prefixes # {} /\ v[i] # << >> /\ v[i][1] = Slash => \E q \in p.prefixes : Below(v[i], q)
  <2> DEFINE Good(path) == p.prefixes # {} /\ path # << >> /\ path[1] = Slash => \E q \in p.prefixes : Below(path, q)
             Judged(path) == p.prefixes # {} /\ StartsAt(path, 1, <<Slash>>) => \E q \in p.prefixes : IsUnderPrefix(path, q)
  <2>1. ASSUME NEW v \in paths, NEW path \in ToSet(v) PROVE path \in Seq(Nat)
    <3>1. v \in Seq(Seq(Nat))
      BY <1>3
    <3> QED BY <3>1 DEF ToSet
  <2>2. \A path \in Seq(Nat) : Good(path) <=> Judged(path)
    BY <1>5
  <2>3. (\A path \in UNION {ToSet(v) : v \in paths} : Judged(path))
          <=> \A v \in paths : \A path \in ToSet(v) : Judged(path)
    BY Zenon
  <2>4. (\A v \in paths : \A path \in ToSet(v) : Judged(path))
          <=> \A v \in paths : \A path \in ToSet(v) : Good(path)
    <3> HIDE DEF Good, Judged
    <3> QED BY <2>1, <2>2
  <2>5. ASSUME NEW v \in paths
        PROVE  (\A path \in ToSet(v) : Good(path)) <=> \A i \in DOMAIN v : Good(v[i])
    <3> HIDE DEF Good
    <3> QED BY DEF ToSet
  <2>6. (\A path \in UNION {ToSet(v) : v \in paths} : Judged(path))
          <=> \A v \in paths : \A i \in DOMAIN v : Good(v[i])
    <3> HIDE DEF Good, Judged
    <3> QED BY <2>3, <2>4, <2>5
  <2> QED BY <2>6
<1>7. ElfAccepted(elf, p)
        <=> /\ elf.interpreters # << >> =>
                 /\ Head(elf.interpreters) = p.interpreter
                 /\ p.required \subseteq needed /\ p.forbidden \cap needed = {}
            /\ p.prefixes # {} =>
                 \A path \in UNION {ToSet(v) : v \in paths} :
                   StartsAt(path, 1, <<Slash>>) => \E q \in p.prefixes : IsUnderPrefix(path, q)
  BY <1>1 DEF ElfAccepted
<1> DEFINE Searched == p.prefixes # {} =>
                 \A path \in UNION {ToSet(v) : v \in paths} :
                   StartsAt(path, 1, <<Slash>>) => \E q \in p.prefixes : IsUnderPrefix(path, q)
           Clear == \A v \in paths : \A i \in DOMAIN v :
                      p.prefixes # {} /\ v[i] # << >> /\ v[i][1] = Slash => \E q \in p.prefixes : Below(v[i], q)
<1>8. Searched <=> Clear
  BY <1>6
<1>9. ElfAccepted(elf, p)
        <=> /\ elf.interpreters # << >> =>
                 /\ Head(elf.interpreters) = p.interpreter
                 /\ p.required \subseteq needed /\ p.forbidden \cap needed = {}
            /\ Searched
  BY <1>7
<1> HIDE DEF Searched, Clear
<1>10. p.forbidden \cap needed = {} <=> \A n \in p.forbidden : n \notin needed
  OBVIOUS
<1>11. ElfAccepted(elf, p)
        <=> /\ elf.interpreters # << >> =>
                 /\ elf.interpreters[1] = p.interpreter
                 /\ \A n \in p.required : n \in needed
                 /\ \A n \in p.forbidden : n \notin needed
            /\ Clear
  BY <1>2, <1>8, <1>9, <1>10
<1> QED BY <1>11 DEF Clear, needed, paths

-----------------------------------------------------------------------------
\* What is below the directory n is what begins with that name.
LEMMA FirstName ==
  ASSUME NEW p \in Path, NEW n \in Nat
  PROVE  Under(<<n>>, p) <=> p # Root /\ Head(p) = n
<1>1. <<n>> \in Path /\ Len(<<n>>) = 1 /\ <<n>>[1] = n
  BY DEF Path
<1>2. Under(<<n>>, p) <=> Len(<<n>>) <= Len(p) /\ \A i \in 1 .. Len(<<n>>) : <<n>>[i] = p[i]
  BY <1>1, UnderPositions
<1>3. Under(<<n>>, p) <=> 1 <= Len(p) /\ p[1] = n
  BY <1>1, <1>2
<1>4. Len(p) \in Nat /\ (p # Root <=> 1 <= Len(p)) /\ (p # Root => Head(p) = p[1])
  BY DEF Path, Root
<1> QED BY <1>3, <1>4

\* The verifier that runs accepts an entry exactly if it is clean.
LEMMA AcceptedIsClean ==
  ASSUME NEW p \in Path, NEW node, IsPolicy(verifier, policy), IsEntry(verifier, node)
  PROVE  Accepted(p, node) <=> Clean(p, node)
<1>1. node.kind \in {"file", "link"}
  BY DEF IsEntry
<1>2. CASE verifier = "no_refs"
  <2>1. policy \in Seq(Seq(Nat)) /\ (node.kind = "file" => node.data \in Seq(Nat))
    BY <1>2 DEF IsPolicy, IsEntry
  <2>2. node.kind = "file" =>
          (HasForbiddenRef(node.data, policy)
             <=> \E w \in ToSet(policy) : w # << >> /\ \E i \in DOMAIN node.data : StartsAt(node.data, i, w))
    BY <2>1, ForbiddenRefs
  <2> QED BY <1>1, <1>2, <2>2 DEF Accepted, Clean
<1>3. CASE verifier = "declared_refs"
  <2>1. node.data \in Seq(Nat) /\ \A r \in policy : IsStoreRoot(r)
    BY <1>3 DEF IsPolicy, IsEntry
  <2>2. OnlyDeclaredRefs(node.data, policy)
          <=> \A i \in DOMAIN node.data : StartsAt(node.data, i, StorePrefix) => RootAt(node.data, i) \in policy
    BY <2>1, DeclaredRefs
  <2> QED BY <1>3, <2>2 DEF Accepted, Clean
<1>4. CASE verifier = "output_policy"
  <2>1. p # Root /\ Head(p) \in DataNames <=> \E n \in DataNames : Under(<<n>>, p)
    <3>1. \A n \in DataNames : Under(<<n>>, p) <=> p # Root /\ Head(p) = n
      BY FirstName, VerifierBytes
    <3> QED BY <3>1
  <2> QED BY <1>4, <2>1 DEF Accepted, Clean
<1>5. CASE verifier = "elf"
  <2>1. IsPolicy("elf", policy)
    BY <1>5
  <2>2. CASE node.kind = "file" /\ node.data.format = "elf"
    <3> DEFINE elf == node.data
    <3>1. IsElf(elf)
      BY <1>5, <2>2 DEF IsEntry
    <3>2. ElfAccepted(elf, policy)
            <=> /\ elf.interpreters # << >> =>
                     /\ elf.interpreters[1] = policy.interpreter
                     /\ \A n \in policy.required : n \in Loaded(elf, {"needed"})
                     /\ \A n \in policy.forbidden : n \notin Loaded(elf, {"needed"})
                /\ \A v \in Loaded(elf, {"rpath", "runpath"}) : \A i \in DOMAIN v :
                     policy.prefixes # {} /\ v[i] # << >> /\ v[i][1] = Slash =>
                       \E q \in policy.prefixes : Below(v[i], q)
      <4> HIDE DEF elf
      <4> QED BY <2>1, <3>1, ElfJudged
    <3>3. Accepted(p, node) <=> ElfAccepted(elf, policy)
      BY <1>5, <2>2 DEF Accepted
    <3>4. Clean(p, node)
            <=> /\ elf.interpreters # << >> =>
                     /\ elf.interpreters[1] = policy.interpreter
                     /\ \A n \in policy.required : n \in Loaded(elf, {"needed"})
                     /\ \A n \in policy.forbidden : n \notin Loaded(elf, {"needed"})
                /\ \A v \in Loaded(elf, {"rpath", "runpath"}) : \A i \in DOMAIN v :
                     policy.prefixes # {} /\ v[i] # << >> /\ v[i][1] = Slash =>
                       \E q \in policy.prefixes : Below(v[i], q)
      BY <1>5, <2>2 DEF Clean
    <3> HIDE DEF elf
    <3> QED BY <3>2, <3>3, <3>4
  <2>3. CASE node.kind = "link" \/ node.data.format # "elf"
    BY <1>1, <1>5, <2>3 DEF Accepted, Clean
  <2> QED BY <1>1, <2>2, <2>3
<1>6. CASE verifier = "archive"
  <2>1. node.kind = "file" /\ node.data.format = "ar" => (ArAccepted(node.data.cells) <=> Tiled(node.data.cells))
    BY <1>6, ArchivesTiled DEF IsEntry
  <2>2. Accepted(p, node) <=> node.kind = "link" \/ ArchiveAccepted(node.data)
    BY <1>6 DEF Accepted
  <2>3. Clean(p, node)
          <=> (node.kind = "file" =>
                 /\ node.data.format = "ar" => Tiled(node.data.cells)
                 /\ node.data.format = "gzip" => GzipAccepted(node.data))
    BY <1>6 DEF Clean
  <2>4. ArchiveAccepted(node.data)
          <=> /\ node.data.format = "ar" => ArAccepted(node.data.cells)
              /\ node.data.format = "gzip" => GzipAccepted(node.data)
    BY DEF ArchiveAccepted
  <2> QED BY <1>1, <2>1, <2>2, <2>3, <2>4
<1> QED BY <1>2, <1>3, <1>4, <1>5, <1>6 DEF IsPolicy

-----------------------------------------------------------------------------
\* An entry that is no directory.
IsLeaf(i, p) == i \in DOMAIN inputs /\ p \in DOMAIN inputs[i] /\ inputs[i][p].kind # "dir"

\* A directory or file still to visit is there; every entry is accepted or at
\* or below one of them; a refusal has an entry as its reason.
StillToVisit(i, p) == \E k \in DOMAIN visits : visits[k][1] = i /\ Under(visits[k][2], p)
VisitsIn(places, trees) == {v \in places \X Path : v[2] \in DOMAIN trees[v[1]]}
VisitsOf(trees) == VisitsIn(DOMAIN trees, trees)
Visits == visits \in Seq(VisitsOf(inputs))
VerifyInv ==
  /\ stamped \in {"none", "refused", "ok"}
  /\ verifier = "none" => visits = << >> /\ stamped = "none"
  /\ verifier # "none" =>
       /\ verifier \in DOMAIN Policies /\ policy \in Policies[verifier] /\ inputs \in InputLists[verifier]
       /\ Visits
       /\ stamped = "none" => \A i, p : IsLeaf(i, p) => Accepted(p, inputs[i][p]) \/ StillToVisit(i, p)
       /\ stamped = "ok" => \A i, p : IsLeaf(i, p) => Accepted(p, inputs[i][p])
       /\ stamped = "refused" =>
            \/ verifier = "output_policy" /\ Root \in policy
            \/ \E i, p : IsLeaf(i, p) /\ ~Accepted(p, inputs[i][p])

\* What a verifier is run on.
LEMMA InputsAreTrees ==
  ASSUME NEW v \in DOMAIN Policies, NEW trees \in InputLists[v]
  PROVE  /\ trees \in Seq(ToSet(trees))
         /\ \A i \in DOMAIN trees :
              /\ FiniteTree(trees[i]) /\ Root \in DOMAIN trees[i] /\ DOMAIN trees[i] \subseteq Path
              /\ \A p \in DOMAIN trees[i] : trees[i][p].kind # "dir" => IsEntry(v, trees[i][p])
<1>1. /\ trees \in Seq(ToSet(trees))
      /\ \A t \in ToSet(trees) :
           FiniteTree(t) /\ \A p \in DOMAIN t : t[p].kind # "dir" => IsEntry(v, t[p])
  BY PoliciesAssumption
<1>2. \A i \in DOMAIN trees : trees[i] \in ToSet(trees)
  BY DEF ToSet
<1>3. \A t : FiniteTree(t) => Root \in DOMAIN t /\ DOMAIN t \subseteq Path
  BY DEF FiniteTree, IsTree
<1> QED BY <1>1, <1>2, <1>3

\* A visit is a path of a tree.
LEMMA VisitIsPath ==
  ASSUME NEW trees, NEW i, NEW p \in Path
  PROVE  <<i, p>> \in VisitsOf(trees) <=> i \in DOMAIN trees /\ p \in DOMAIN trees[i]
<1>1. ASSUME NEW D PROVE <<i, p>> \in VisitsIn(D, trees) <=> i \in D /\ p \in DOMAIN trees[i]
  BY DEF VisitsIn
<1> QED BY <1>1 DEF VisitsOf

\* And nothing else is one.
LEMMA VisitHasPath ==
  ASSUME NEW trees, NEW v \in VisitsOf(trees)
  PROVE  v[1] \in DOMAIN trees /\ v[2] \in Path /\ v[2] \in DOMAIN trees[v[1]]
<1>1. ASSUME NEW D, v \in VisitsIn(D, trees) PROVE v[1] \in D /\ v[2] \in Path /\ v[2] \in DOMAIN trees[v[1]]
  BY <1>1 DEF VisitsIn
<1> QED BY <1>1 DEF VisitsOf

\* The next visit and the others.
LEMMA NextVisit ==
  ASSUME NEW S, NEW s \in Seq(S), s # << >>
  PROVE  /\ Head(s) \in S /\ Tail(s) \in Seq(S)
         /\ \A k \in DOMAIN s : s[k] = Head(s) \/ \E m \in DOMAIN Tail(s) : Tail(s)[m] = s[k]
         /\ \A m \in DOMAIN Tail(s) : \E k \in DOMAIN s : s[k] = Tail(s)[m]
<1>1. Head(s) \in S /\ Tail(s) \in Seq(S) /\ ToSet(s) = {Head(s)} \cup ToSet(Tail(s))
  BY HeadAndTail
<1> QED BY <1>1 DEF ToSet

\* verify starts with every tree at its root.
LEMMA VerifyStarts ==
  ASSUME VerifyInv, NEW v \in DOMAIN Policies, NEW p \in Policies[v], NEW trees \in InputLists[v],
         Verify(v, p, trees), v # "none"
  PROVE  VerifyInv'
<1>1. /\ verifier' = v /\ policy' = p /\ inputs' = trees /\ visits = << >> /\ stamped = "none"
  BY DEF Verify, VerifyInv
<1>2. /\ trees \in Seq(ToSet(trees))
      /\ \A i \in DOMAIN trees : Root \in DOMAIN trees[i] /\ DOMAIN trees[i] \subseteq Path
  BY InputsAreTrees
<1> DEFINE V == VisitsOf(trees)
<1>3. CASE v = "output_policy" /\ Root \in p
  <2>1. stamped' = "refused" /\ visits' = << >>
    BY <1>1, <1>3 DEF Verify
  <2>2. Visits'
    BY <2>1 DEF Visits
  <2> QED BY <1>1, <1>3, <2>1, <2>2 DEF VerifyInv
<1>4. CASE ~(v = "output_policy" /\ Root \in p)
  <2>1. stamped' = "none" /\ visits' = [i \in DOMAIN trees |-> <<i, Root>>]
    BY <1>1, <1>4 DEF Verify
  <2>2. Root \in Path
    BY DEF Root, Path
  <2>3. \A i \in DOMAIN trees : <<i, Root>> \in V
    BY <1>2, <2>2, VisitIsPath
  <2>4. visits' \in Seq(V)
    <3>1. DOMAIN trees = 1 .. Len(trees) /\ Len(trees) \in Nat
      BY <1>2
    <3>2. [i \in DOMAIN trees |-> <<i, Root>>] \in [1 .. Len(trees) -> V]
      BY <2>3, <3>1
    <3> HIDE DEF V
    <3> QED BY <2>1, <3>1, <3>2, SeqDef
  <2>5. Visits'
    BY <1>1, <2>4 DEF Visits
  <2>6. ASSUME NEW i, NEW q, IsLeaf(i, q)' PROVE StillToVisit(i, q)'
    <3>1. i \in DOMAIN trees /\ q \in DOMAIN trees[i]
      BY <1>1, <2>6 DEF IsLeaf
    <3>2. q \in Path
      BY <1>2, <3>1
    <3>3. Under(Root, q)
      BY <2>2, <3>2, UnderOrder
    <3>4. i \in DOMAIN visits' /\ visits'[i][1] = i /\ visits'[i][2] = Root
      BY <2>1, <3>1
    <3> QED BY <3>3, <3>4 DEF StillToVisit
  <2>7. (\A i, q : IsLeaf(i, q) => Accepted(q, inputs[i][q]) \/ StillToVisit(i, q))'
    BY <2>6
  <2> QED BY <1>1, <2>1, <2>5, <2>7 DEF VerifyInv
<1> QED BY <1>3, <1>4

\* A directory is replaced by what is in it: nothing below it is lost.
LEMMA DirectoryVisited ==
  ASSUME VerifyInv, VisitDirectory
  PROVE  VerifyInv'
<1> DEFINE i0 == Head(visits)[1]
           d == Head(visits)[2]
           below == Entries(inputs[i0], d)
           next == [k \in DOMAIN below |-> <<i0, below[k]>>]
           V == VisitsOf(inputs)
<1>1. /\ visits # << >> /\ stamped = "none" /\ inputs[i0][d].kind = "dir"
      /\ visits' = next \o Tail(visits) /\ UNCHANGED <<verifier, policy, inputs, stamped>>
  BY DEF VisitDirectory, Visited, At1
<1>2. /\ verifier # "none" /\ verifier \in DOMAIN Policies /\ policy \in Policies[verifier]
      /\ inputs \in InputLists[verifier] /\ visits \in Seq(V)
      /\ \A i, p : IsLeaf(i, p) => Accepted(p, inputs[i][p]) \/ StillToVisit(i, p)
  BY <1>1 DEF VerifyInv, Visits
<1>3. /\ Head(visits) \in V /\ Tail(visits) \in Seq(V)
      /\ \A k \in DOMAIN visits :
           visits[k] = Head(visits) \/ \E m \in DOMAIN Tail(visits) : Tail(visits)[m] = visits[k]
  <2> HIDE DEF V
  <2> QED BY <1>1, <1>2, NextVisit
<1>4. i0 \in DOMAIN inputs /\ d \in Path /\ d \in DOMAIN inputs[i0]
  BY <1>3, VisitHasPath
<1>5. FiniteTree(inputs[i0]) /\ DOMAIN inputs[i0] \subseteq Path
  BY <1>2, <1>4, InputsAreTrees
<1> HIDE DEF i0, d
<1>6. below \in Seq(Path) /\ ToSet(below) = Children(inputs[i0], d)
  BY <1>4, <1>5, EntriesAreChildren
<1> HIDE DEF below
<1>7. \A k \in DOMAIN below : below[k] \in Path /\ below[k] \in DOMAIN inputs[i0]
  BY <1>6 DEF ToSet, Children
<1>8. next \in Seq(V) /\ DOMAIN next = DOMAIN below
  <2>1. \A k \in DOMAIN below : <<i0, below[k]>> \in V
    BY <1>4, <1>7, VisitIsPath
  <2>2. DOMAIN below = 1 .. Len(below) /\ Len(below) \in Nat
    BY <1>6
  <2>3. next \in [1 .. Len(below) -> V]
    BY <2>1, <2>2
  <2> HIDE DEF V, next
  <2>4. next \in Seq(V)
    BY <2>2, <2>3, SeqDef
  <2> QED BY <2>4 DEF next
<1> DEFINE rest == Tail(visits)
           m == Len(next)
           n == Len(rest)
<1>9. /\ m \in Nat /\ n \in Nat /\ DOMAIN next = 1 .. m /\ DOMAIN rest = 1 .. n
      /\ visits' \in Seq(V) /\ DOMAIN visits' = 1 .. m + n
      /\ \A k \in 1 .. m : visits'[k] = next[k]
      /\ \A k \in 1 .. n : visits'[k + m] = rest[k]
  <2> HIDE DEF V, next, rest
  <2>1. rest \in Seq(V) /\ next \in Seq(V) /\ visits' = next \o rest
    BY <1>1, <1>3, <1>8 DEF rest
  <2>2. /\ m \in Nat /\ n \in Nat /\ DOMAIN next = 1 .. m /\ DOMAIN rest = 1 .. n
    BY <2>1
  <2>3. /\ next \o rest \in Seq(V) /\ Len(next \o rest) = m + n
        /\ \A k \in 1 .. m + n : (next \o rest)[k] = IF k <= m THEN next[k] ELSE rest[k - m]
    BY <2>1, ConcatProperties
  <2> HIDE DEF m, n
  <2>4. DOMAIN (next \o rest) = 1 .. m + n
    BY <2>3
  <2>5. \A k \in 1 .. m : k \in 1 .. m + n /\ k <= m
    BY <2>2
  <2>6. \A k \in 1 .. n : k + m \in 1 .. m + n /\ ~(k + m <= m) /\ (k + m) - m = k
    BY <2>2
  <2> QED BY <2>1, <2>2, <2>3, <2>4, <2>5, <2>6
<1> HIDE DEF m, n, rest, next, V
<1>10. Visits'
  BY <1>1, <1>9 DEF Visits, V
<1>11. ASSUME NEW i, NEW p, IsLeaf(i, p), StillToVisit(i, p)
       PROVE  StillToVisit(i, p)'
  <2>1. PICK k \in DOMAIN visits : visits[k][1] = i /\ Under(visits[k][2], p)
    BY <1>11 DEF StillToVisit
  <2>2. CASE visits[k] = Head(visits)
    <3>1. i = i0 /\ Under(d, p)
      BY <2>1, <2>2 DEF i0, d
    <3>2. p \in DOMAIN inputs[i0] /\ d # p
      BY <1>1, <1>11, <3>1 DEF IsLeaf
    <3>3. PICK c \in Children(inputs[i0], d) : Under(c, p)
      BY <1>4, <1>5, <3>1, <3>2, BelowChild
    <3>4. PICK j \in DOMAIN below : below[j] = c
      BY <1>6, <3>3 DEF ToSet
    <3>5. j \in 1 .. m /\ next[j] = <<i0, c>>
      BY <1>8, <1>9, <3>4 DEF next
    <3>6. j \in DOMAIN visits' /\ visits'[j] = <<i0, c>>
      BY <1>9, <3>5
    <3>7. visits'[j][1] = i /\ Under(visits'[j][2], p)
      BY <3>1, <3>3, <3>6
    <3> QED BY <3>6, <3>7 DEF StillToVisit
  <2>3. CASE \E j \in DOMAIN Tail(visits) : Tail(visits)[j] = visits[k]
    <3>1. PICK j \in 1 .. n : rest[j] = visits[k]
      BY <1>9, <2>3 DEF rest
    <3>2. j + m \in DOMAIN visits' /\ visits'[j + m] = visits[k]
      BY <1>9, <3>1
    <3> QED BY <2>1, <3>2 DEF StillToVisit
  <2> QED BY <1>3, <2>2, <2>3
<1>12. ASSUME NEW i, NEW p, IsLeaf(i, p)'
       PROVE  (Accepted(p, inputs[i][p]) \/ StillToVisit(i, p))'
  <2>1. IsLeaf(i, p)
    BY <1>1, <1>12 DEF IsLeaf
  <2>2. CASE StillToVisit(i, p)
    BY <1>11, <2>1, <2>2
  <2>3. CASE Accepted(p, inputs[i][p])
    BY <1>1, <2>3 DEF Accepted
  <2> QED BY <1>2, <2>1, <2>2, <2>3
<1>13. (\A i, p : IsLeaf(i, p) => Accepted(p, inputs[i][p]) \/ StillToVisit(i, p))'
  BY <1>12
<1> QED BY <1>1, <1>2, <1>10, <1>13 DEF VerifyInv

\* Another entry is accepted, and then nothing below it is left.
LEMMA EntryVisited ==
  ASSUME VerifyInv, VisitEntry
  PROVE  VerifyInv'
<1> DEFINE i0 == Head(visits)[1]
           d == Head(visits)[2]
           V == VisitsOf(inputs)
<1>1. /\ visits # << >> /\ stamped = "none" /\ inputs[i0][d].kind # "dir"
      /\ UNCHANGED <<verifier, policy, inputs>>
  BY DEF VisitEntry, Visited, At1
<1>2. /\ verifier # "none" /\ verifier \in DOMAIN Policies /\ policy \in Policies[verifier]
      /\ inputs \in InputLists[verifier] /\ visits \in Seq(V)
      /\ \A i, p : IsLeaf(i, p) => Accepted(p, inputs[i][p]) \/ StillToVisit(i, p)
  BY <1>1 DEF VerifyInv, Visits
<1>3. /\ Head(visits) \in V /\ Tail(visits) \in Seq(V)
      /\ \A k \in DOMAIN visits :
           visits[k] = Head(visits) \/ \E m \in DOMAIN Tail(visits) : Tail(visits)[m] = visits[k]
  <2> HIDE DEF V
  <2> QED BY <1>1, <1>2, NextVisit
<1>4. i0 \in DOMAIN inputs /\ d \in Path /\ d \in DOMAIN inputs[i0]
  BY <1>3, VisitHasPath
<1>5. FiniteTree(inputs[i0]) /\ DOMAIN inputs[i0] \subseteq Path
  BY <1>2, <1>4, InputsAreTrees
<1>6. CASE Accepted(d, inputs[i0][d])
  <2>1. visits' = Tail(visits) /\ stamped' = "none"
    BY <1>1, <1>6 DEF VisitEntry, At1
  <2>2. Visits'
    BY <1>1, <1>3, <2>1 DEF Visits
  <2>3. ASSUME NEW i, NEW p, IsLeaf(i, p)'
        PROVE  (Accepted(p, inputs[i][p]) \/ StillToVisit(i, p))'
    <3>1. IsLeaf(i, p)
      BY <1>1, <2>3 DEF IsLeaf
    <3>2. CASE StillToVisit(i, p)
      <4>1. PICK k \in DOMAIN visits : visits[k][1] = i /\ Under(visits[k][2], p)
        BY <3>2 DEF StillToVisit
      <4>2. CASE visits[k] = Head(visits)
        <5>1. i = i0 /\ Under(d, p) /\ p \in DOMAIN inputs[i0]
          BY <3>1, <4>1, <4>2 DEF IsLeaf
        <5>2. d = p
          <6> HIDE DEF d, i0
          <6>1. SUFFICES ASSUME d # p PROVE FALSE
            OBVIOUS
          <6>2. IsDir(inputs[i0], d)
            BY <1>4, <1>5, <5>1, <6>1, BelowChild
          <6> QED BY <1>1, <6>2 DEF IsDir
        <5>3. Accepted(p, inputs[i][p])
          BY <1>6, <5>1, <5>2
        <5> QED BY <1>1, <5>3 DEF Accepted
      <4>3. CASE \E j \in DOMAIN Tail(visits) : Tail(visits)[j] = visits[k]
        <5>1. PICK j \in DOMAIN visits' : visits'[j] = visits[k]
          BY <2>1, <4>3
        <5> QED BY <4>1, <5>1 DEF StillToVisit
      <4> QED BY <1>3, <4>2, <4>3
    <3>3. CASE Accepted(p, inputs[i][p])
      BY <1>1, <3>3 DEF Accepted
    <3> QED BY <1>2, <3>1, <3>2, <3>3
  <2>4. (\A i, p : IsLeaf(i, p) => Accepted(p, inputs[i][p]) \/ StillToVisit(i, p))'
    BY <2>3
  <2> QED BY <1>1, <1>2, <2>1, <2>2, <2>4 DEF VerifyInv
<1>7. CASE ~Accepted(d, inputs[i0][d])
  <2>1. visits' = visits /\ stamped' = "refused"
    BY <1>1, <1>7 DEF VisitEntry, At1
  <2>2. Visits'
    BY <1>1, <1>2, <2>1 DEF Visits
  <2>3. IsLeaf(i0, d)
    BY <1>1, <1>4 DEF IsLeaf
  <2> HIDE DEF i0, d
  <2> DEFINE Unclean(i, p) == IsLeaf(i, p) /\ ~Accepted(p, inputs[i][p])
  <2>4. \E i, p : Unclean(i, p)
    BY <1>7, <2>3
  <2>5. (\E i, p : Unclean(i, p))'
    BY <1>1, <2>4 DEF IsLeaf, Accepted
  <2> QED BY <1>1, <1>2, <2>1, <2>2, <2>5 DEF VerifyInv
<1> QED BY <1>6, <1>7

\* Every step of a walk.
LEMMA WalkStep ==
  ASSUME VerifyInv, [VerifyNext]_verifierVars
  PROVE  VerifyInv'
<1>1. ASSUME NEW v \in DOMAIN Policies, NEW p \in Policies[v], NEW trees \in InputLists[v], Verify(v, p, trees)
      PROVE  VerifyInv'
  <2>1. v # "none"
    <3>1. IsPolicy(v, p)
      BY PoliciesAssumption
    <3> QED BY <3>1 DEF IsPolicy
  <2> QED BY <1>1, <2>1, VerifyStarts
<1>2. CASE StampVerified
  <2>1. /\ verifier # "none" /\ visits = << >> /\ stamped = "none" /\ stamped' = "ok"
        /\ UNCHANGED <<verifier, policy, inputs, visits>>
    BY <1>2 DEF StampVerified
  <2>2. \A i, p : ~StillToVisit(i, p)
    BY <2>1 DEF StillToVisit
  <2>3. \A i, p : IsLeaf(i, p) => Accepted(p, inputs[i][p])
    BY <2>1, <2>2 DEF VerifyInv
  <2>4. (\A i, p : IsLeaf(i, p) => Accepted(p, inputs[i][p]))'
    BY <2>1, <2>3 DEF IsLeaf, Accepted
  <2>5. Visits'
    BY <2>1 DEF Visits, VerifyInv
  <2> QED BY <2>1, <2>4, <2>5 DEF VerifyInv
<1>3. CASE UNCHANGED verifierVars
  <2>1. UNCHANGED <<verifier, policy, inputs, visits, stamped>>
    BY <1>3 DEF verifierVars
  <2>2. ASSUME NEW i, NEW p
        PROVE  /\ (IsLeaf(i, p)' <=> IsLeaf(i, p)) /\ (StillToVisit(i, p)' <=> StillToVisit(i, p))
               /\ (Accepted(p, inputs[i][p])' <=> Accepted(p, inputs[i][p]))
    <3>1. IsLeaf(i, p)' <=> IsLeaf(i, p)
      BY <2>1 DEF IsLeaf
    <3>2. StillToVisit(i, p)' <=> StillToVisit(i, p)
      BY <2>1 DEF StillToVisit
    <3>3. Accepted(p, inputs[i][p])' <=> Accepted(p, inputs[i][p])
      BY <2>1 DEF Accepted
    <3> QED BY <3>1, <3>2, <3>3
  <2>3. Visits' <=> Visits
    BY <2>1 DEF Visits
  <2> QED BY <2>1, <2>2, <2>3 DEF VerifyInv
<1> QED BY <1>1, <1>2, <1>3, DirectoryVisited, EntryVisited DEF VerifyNext

\* At the end of a walk, its verdict.
LEMMA WalkDecides ==
  ASSUME VerifyInv
  PROVE  VerdictsExact
<1> SUFFICES ASSUME stamped # "none", ~(verifier = "output_policy" /\ Root \in policy)
             PROVE  (stamped = "ok") <=>
                      \A i \in DOMAIN inputs : \A p \in DOMAIN inputs[i] :
                        inputs[i][p].kind # "dir" => Clean(p, inputs[i][p])
  BY DEF VerdictsExact
<1>1. /\ verifier \in DOMAIN Policies /\ policy \in Policies[verifier] /\ inputs \in InputLists[verifier]
      /\ stamped \in {"refused", "ok"}
      /\ stamped = "ok" => \A i, p : IsLeaf(i, p) => Accepted(p, inputs[i][p])
      /\ stamped = "refused" => \E i, p : IsLeaf(i, p) /\ ~Accepted(p, inputs[i][p])
  BY DEF VerifyInv
<1>2. ASSUME NEW i, NEW p, IsLeaf(i, p)
      PROVE  Accepted(p, inputs[i][p]) <=> Clean(p, inputs[i][p])
  <2>1. p \in Path /\ IsEntry(verifier, inputs[i][p])
    BY <1>1, <1>2, InputsAreTrees DEF IsLeaf
  <2>2. IsPolicy(verifier, policy)
    BY <1>1, PoliciesAssumption
  <2> QED BY <2>1, <2>2, AcceptedIsClean
<1>3. (\A i, p : IsLeaf(i, p) => Accepted(p, inputs[i][p])) <=> stamped = "ok"
  BY <1>1
<1>4. (\A i, p : IsLeaf(i, p) => Accepted(p, inputs[i][p]))
        <=> \A i, p : IsLeaf(i, p) => Clean(p, inputs[i][p])
  BY <1>2
<1>5. (\A i, p : IsLeaf(i, p) => Clean(p, inputs[i][p]))
        <=> \A i \in DOMAIN inputs : \A p \in DOMAIN inputs[i] :
              inputs[i][p].kind # "dir" => Clean(p, inputs[i][p])
  BY DEF IsLeaf
<1> QED BY <1>3, <1>4, <1>5

\* The verifiers write their stamp exactly if no input holds what the policy
\* forbids.
THEOREM VerdictsAreExact == VerifySpec => []VerdictsExact
<1>1. VerifyInit => VerifyInv
  BY DEF VerifyInit, VerifyInv
<1>2. VerifyInv /\ [VerifyNext]_verifierVars => VerifyInv'
  BY WalkStep
<1>3. VerifyInv => VerdictsExact
  BY WalkDecides
<1> QED BY <1>1, <1>2, <1>3, PTL DEF VerifySpec
=============================================================================
