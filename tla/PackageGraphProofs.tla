------------------------- MODULE PackageGraphProofs -------------------------
(****************************************************************************)
(* Theorems about PackageGraph, for any number of targets and entries.      *)
(*                                                                          *)
(* A step either analyses one more target or leaves the providers alone. A  *)
(* new provider either realizes a fresh entry, or repeats the closures of a *)
(* provider that is there: itself under a wrapper, or the producer of the   *)
(* manifest that an import pins. The invariant that carries this says that  *)
(* closures hold realized entries only, and that each published manifest    *)
(* has a producer. The second part follows foreign paths: none of a build   *)
(* closure is lost from sight, and what the tree of a verified target       *)
(* mentions is named by the target or came through a known gap.             *)
(****************************************************************************)
EXTENDS PackageGraph, TLAPS

\* The closures of a provider nest and start at its own entry.
Nested(p) == p.entry \in p.runtime /\ p.runtime \subseteq p.tool /\ p.tool \subseteq p.reference

Closures(p) ==
  [entry |-> p.entry, runtime |-> p.runtime, tool |-> p.tool, reference |-> p.reference]

\* A closure holds only entries that some target provides.
ClosuresRealized == \A t \in Analysed : info[t].reference \subseteq Realized

InputsAnalysed == \A t \in Analysed : info[t].inputs \subseteq Analysed

\* The entry e is provided by a target whose references are among those given.
ClosedBy(e, references) ==
  \E u \in Analysed : info[u].entry = e /\ info[u].reference \subseteq references

ForeignRealized == foreign \subseteq Realized

\* A published manifest is that of a target.
PublishedProduced == \A m \in published : \E t \in Analysed : manifestOf(t) = m

\* ForeignRuntimeTracked of one provider: what it names, and where the rest of
\* the foreign entries of its runtime closure came from.
RuntimeNamed(p) == p.foreignRuntime \subseteq p.runtime \cap foreign

RuntimeKnown(p, f) ==
  f \in p.foreignRuntime \/ \E m \in published : m.entry \in p.runtime /\ f \in m.runtime

IInv ==
  /\ TypeOK
  /\ ClosuresNested
  /\ ClosuresRealized
  /\ InputsAnalysed
  /\ ForeignRealized
  /\ ForeignRuntimeTracked
  /\ EntryDeterminesClosures
  /\ ReferencesClosed
  /\ PublishedProduced

\* What holds of a provider whose entry is realized for the first time.
Fresh(p) ==
  /\ p.entry \notin Realized
  /\ foreign' \in {foreign, foreign \cup {p.entry}}

\* What holds of a provider that repeats the closures of another.
Again(p) ==
  /\ \E u \in Analysed : Closures(p) = manifestOf(u)
  /\ foreign' = foreign

\* Analysis of one more target, in the terms the invariant needs.
Grows(t, p) ==
  /\ t \in Upcoming
  /\ p \in Provider
  /\ p.inputs \subseteq Analysed
  /\ info' = [info EXCEPT ![t] = p]
  /\ bytes' \in [Entries -> SUBSET Entries]
  /\ linked' \in [Entries -> SUBSET Entries]
  /\ foreign' \subseteq Entries
  /\ published' = published
  /\ Nested(p)
  /\ p.reference \subseteq Realized \cup {p.entry}
  /\ \A e \in p.reference \ {p.entry} : ClosedBy(e, p.reference)
  /\ p.foreignRuntime \subseteq p.runtime \cap foreign'
  /\ \A f \in p.runtime \cap foreign' : RuntimeKnown(p, f)
  /\ Fresh(p) \/ Again(p)

-----------------------------------------------------------------------------
\* _package_metadata: what the closures of a package are, given those of its
\* inputs.
LEMMA MetadataTyped ==
  ASSUME TypeOK,
         NEW e \in Entries, NEW package \in Targets \cup {None},
         NEW inputs \in SUBSET Analysed, NEW runtime \in SUBSET Analysed,
         NEW tool \in SUBSET Analysed, NEW reference \in SUBSET Analysed,
         NEW isForeign \in BOOLEAN
  PROVE  Metadata(e, package, inputs, runtime, tool, reference, isForeign) \in Provider
<1>1. \A d \in Analysed : info[d] \in Provider /\ d \in Targets
  BY DEF TypeOK, Analysed
<1>2. \A ds \in SUBSET Analysed :
        /\ Runtime(ds) \subseteq Entries
        /\ Tool(ds) \subseteq Entries
        /\ Reference(ds) \subseteq Entries
        /\ Build(ds) \subseteq Entries
        /\ ForeignRuntime(ds) \subseteq Entries
        /\ ForeignBuild(ds) \subseteq Entries
        /\ Checks(ds) \subseteq Check
  BY <1>1 DEF Runtime, Tool, Reference, Build, ForeignRuntime, ForeignBuild, Checks, Provider
<1>3. inputs \subseteq Targets
  BY <1>1
<1> QED
  BY <1>2, <1>3 DEF Metadata, Provider

\* The closures computed from nested ones nest.
LEMMA MetadataNested ==
  ASSUME ClosuresNested,
         NEW e \in Entries, NEW package,
         NEW inputs, NEW runtime \in SUBSET Analysed,
         NEW tool \in SUBSET Analysed, NEW reference \in SUBSET Analysed,
         NEW isForeign \in BOOLEAN
  PROVE  Nested(Metadata(e, package, inputs, runtime, tool, reference, isForeign))
<1> DEFINE p == Metadata(e, package, inputs, runtime, tool, reference, isForeign)
<1>1. /\ p.entry = e
      /\ p.runtime = {e} \cup Runtime(runtime)
      /\ p.tool = {e} \cup Tool(runtime \cup tool)
      /\ p.reference = {e} \cup Reference(runtime \cup tool \cup reference)
  BY DEF Metadata
<1>2. Runtime(runtime) \subseteq Tool(runtime \cup tool)
  BY DEF Runtime, Tool, ClosuresNested
<1>3. Tool(runtime \cup tool) \subseteq Reference(runtime \cup tool \cup reference)
  BY DEF Tool, Reference, ClosuresNested
<1> HIDE DEF p
<1>4. Nested(p)
  BY <1>1, <1>2, <1>3 DEF Nested
<1> QED
  BY <1>4 DEF p

\* They hold realized entries only.
LEMMA MetadataRealized ==
  ASSUME ClosuresRealized,
         NEW e \in Entries, NEW package,
         NEW inputs, NEW runtime \in SUBSET Analysed,
         NEW tool \in SUBSET Analysed, NEW reference \in SUBSET Analysed,
         NEW isForeign \in BOOLEAN
  PROVE  Metadata(e, package, inputs, runtime, tool, reference, isForeign).reference
           \subseteq Realized \cup {e}
<1>1. Reference(runtime \cup tool \cup reference) \subseteq Realized
  BY DEF Reference, ClosuresRealized
<1> QED
  BY <1>1 DEF Metadata

\* They are closed under references.
LEMMA MetadataClosed ==
  ASSUME ReferencesClosed,
         NEW e \in Entries, NEW package,
         NEW inputs, NEW runtime \in SUBSET Analysed,
         NEW tool \in SUBSET Analysed, NEW reference \in SUBSET Analysed,
         NEW isForeign \in BOOLEAN,
         NEW f \in Metadata(e, package, inputs, runtime, tool, reference, isForeign).reference,
         f # e
  PROVE  ClosedBy(f, Metadata(e, package, inputs, runtime, tool, reference, isForeign).reference)
<1> DEFINE references == Metadata(e, package, inputs, runtime, tool, reference, isForeign).reference
           ds == runtime \cup tool \cup reference
<1>1. references = {e} \cup Reference(ds)
  BY DEF Metadata
<1>2. PICK d \in ds : f \in info[d].reference
  BY <1>1 DEF Reference
<1>3. info[d].reference \subseteq references
  BY <1>1 DEF Reference
<1>4. PICK u \in Analysed : info[u].entry = f /\ info[u].reference \subseteq info[d].reference
  BY <1>2 DEF ReferencesClosed
<1> QED
  BY <1>3, <1>4 DEF ClosedBy

\* The provider p takes its runtime closure from the targets given; self is
\* what it adds to the foreign entries: its own fresh entry or nothing.
LEMMA MetadataForeign ==
  ASSUME ForeignRuntimeTracked, ForeignRealized,
         NEW e \in Entries, e \notin Realized, NEW runtime \in SUBSET Analysed,
         NEW self \in {{}, {e}}, foreign' = foreign \cup self,
         NEW p,
         p.runtime = {e} \cup Runtime(runtime),
         p.foreignRuntime = self \cup ForeignRuntime(runtime)
  PROVE  /\ p.foreignRuntime \subseteq p.runtime \cap foreign'
         /\ \A f \in p.runtime \cap foreign' : RuntimeKnown(p, f)
<1>1. ForeignRuntime(runtime) \subseteq Runtime(runtime) \cap foreign
  BY DEF Runtime, ForeignRuntime, ForeignRuntimeTracked
<1>2. p.foreignRuntime \subseteq p.runtime \cap foreign'
  BY <1>1
<1>3. ASSUME NEW f \in p.runtime \cap foreign'
      PROVE  RuntimeKnown(p, f)
  <2>1. CASE f = e
    <3>1. f \in self
      BY <1>3, <2>1 DEF ForeignRealized
    <3> QED BY <3>1 DEF RuntimeKnown
  <2>2. CASE f # e
    <3>1. PICK d \in runtime : f \in info[d].runtime
      BY <1>3, <2>2 DEF Runtime
    <3>2. f \in foreign
      BY <1>3, <2>2
    <3>3. info[d].runtime \subseteq p.runtime /\ info[d].foreignRuntime \subseteq p.foreignRuntime
      BY DEF Runtime, ForeignRuntime
    <3> QED BY <3>1, <3>2, <3>3 DEF ForeignRuntimeTracked, RuntimeKnown
  <2> QED BY <2>1, <2>2
<1> QED BY <1>2, <1>3

-----------------------------------------------------------------------------
\* A build changes the tree of its own entry.
LEMMA BuildsTyped ==
  ASSUME TypeOK, NEW e \in Entries, NEW mentioned, NEW links, Builds(e, mentioned, links)
  PROVE  /\ bytes' \in [Entries -> SUBSET Entries]
         /\ linked' \in [Entries -> SUBSET Entries]
         /\ bytes'[e] \subseteq Realized
         /\ \A x \in Entries \ {e} : bytes'[x] = bytes[x] /\ linked'[x] = linked[x]
<1>1. Realized \subseteq Entries
  BY DEF Realized, TypeOK, Analysed, Provider
<1> QED BY <1>1 DEF Builds, TypeOK

\* A package realizes a fresh entry.
LEMMA PackageGrows ==
  ASSUME IInv, NEW t \in Targets, NEW e \in Entries,
         NEW runtime \in SUBSET Analysed, NEW tool \in SUBSET Analysed,
         NEW reference \in SUBSET Analysed, NEW build \in SUBSET Analysed,
         NEW isForeign \in BOOLEAN, NEW mentioned, NEW links,
         Package(t, e, runtime, tool, reference, build, isForeign, mentioned, links)
  PROVE  \E p : Grows(t, p)
<1> DEFINE inputs == runtime \cup tool \cup reference \cup build
           p == Metadata(e, t, inputs, runtime, tool, reference, isForeign)
<1>1. /\ e \notin Realized
      /\ t \in Upcoming
      /\ info' = [info EXCEPT ![t] = p]
      /\ Builds(e, mentioned, links)
      /\ foreign' = IF isForeign THEN foreign \cup {e} ELSE foreign
      /\ published' = published
  BY DEF Package, Define
<1>2. p \in Provider
  BY MetadataTyped DEF IInv
<1>3. Nested(p)
  BY MetadataNested DEF IInv
<1>4. p.reference \subseteq Realized \cup {p.entry} /\ p.entry = e
  <2>1. p.entry = e
    BY DEF Metadata
  <2> QED
    BY <2>1, MetadataRealized DEF IInv
<1>5. /\ p.foreignRuntime \subseteq p.runtime \cap foreign'
      /\ \A f \in p.runtime \cap foreign' : RuntimeKnown(p, f)
  <2> DEFINE self == IF isForeign THEN {e} ELSE {}
  <2>1. self \in {{}, {e}} /\ foreign' = foreign \cup self
    BY <1>1
  <2>2. p.runtime = {e} \cup Runtime(runtime) /\ p.foreignRuntime = self \cup ForeignRuntime(runtime)
    BY DEF Metadata
  <2> HIDE DEF self, p
  <2> QED
    BY <1>1, <2>1, <2>2, MetadataForeign DEF IInv
<1>6. /\ bytes' \in [Entries -> SUBSET Entries]
      /\ linked' \in [Entries -> SUBSET Entries]
      /\ foreign' \subseteq Entries
  BY <1>1, BuildsTyped DEF IInv, TypeOK
<1>7. Fresh(p)
  BY <1>1, <1>4 DEF Fresh
<1>8. p.inputs \subseteq Analysed
  BY DEF Metadata
<1>9. \A f \in p.reference \ {p.entry} : ClosedBy(f, p.reference)
  BY <1>4, MetadataClosed DEF IInv
<1> HIDE DEF p
<1> QED
  BY <1>1, <1>2, <1>3, <1>4, <1>5, <1>6, <1>7, <1>8, <1>9 DEF Grows

\* So does a split output.
LEMMA SplitOutputGrows ==
  ASSUME IInv, NEW t \in Targets, NEW q \in Analysed, NEW e \in Entries,
         NEW runtime \in SUBSET Analysed, NEW tool \in SUBSET Analysed,
         NEW reference \in SUBSET Analysed, NEW mentioned, NEW links,
         SplitOutput(t, q, e, runtime, tool, reference, mentioned, links)
  PROVE  \E p : Grows(t, p)
<1> DEFINE p == Metadata(e, q, info[q].inputs, runtime, tool, reference, FALSE)
<1>1. /\ e \notin Realized
      /\ t \in Upcoming
      /\ info' = [info EXCEPT ![t] = p]
      /\ Builds(e, mentioned, links)
      /\ foreign' = foreign
      /\ published' = published
  BY DEF SplitOutput, Define
<1>2. p \in Provider
  <2>1. info[q] \in Provider /\ q \in Targets
    BY DEF IInv, TypeOK, Analysed
  <2>2. info[q].inputs \subseteq Analysed
    BY DEF IInv, InputsAnalysed
  <2> QED
    BY <2>1, <2>2, MetadataTyped DEF IInv
<1>3. Nested(p)
  BY MetadataNested DEF IInv
<1>4. p.reference \subseteq Realized \cup {p.entry} /\ p.entry = e
  <2>1. p.entry = e
    BY DEF Metadata
  <2> QED
    BY <2>1, MetadataRealized DEF IInv
<1>5. /\ p.foreignRuntime \subseteq p.runtime \cap foreign'
      /\ \A f \in p.runtime \cap foreign' : RuntimeKnown(p, f)
  <2> DEFINE self == {}
  <2>1. self \in {{}, {e}} /\ foreign' = foreign \cup self
    BY <1>1
  <2>2. p.runtime = {e} \cup Runtime(runtime) /\ p.foreignRuntime = self \cup ForeignRuntime(runtime)
    BY DEF Metadata
  <2> HIDE DEF self, p
  <2> QED
    BY <1>1, <2>1, <2>2, MetadataForeign DEF IInv
<1>6. /\ bytes' \in [Entries -> SUBSET Entries]
      /\ linked' \in [Entries -> SUBSET Entries]
      /\ foreign' \subseteq Entries
  BY <1>1, BuildsTyped DEF IInv, TypeOK
<1>7. Fresh(p)
  BY <1>1, <1>4 DEF Fresh
<1>8. p.inputs \subseteq Analysed
  BY DEF Metadata, IInv, InputsAnalysed
<1>9. \A f \in p.reference \ {p.entry} : ClosedBy(f, p.reference)
  BY <1>4, MetadataClosed DEF IInv
<1> HIDE DEF p
<1> QED
  BY <1>1, <1>2, <1>3, <1>4, <1>5, <1>6, <1>7, <1>8, <1>9 DEF Grows

\* A wrapper hands on every closure of the package it wraps.
LEMMA WrapperGrows ==
  ASSUME IInv, NEW t \in Targets, NEW q \in Analysed,
         NEW p, p \in Provider, t \in Upcoming,
         info' = [info EXCEPT ![t] = p],
         Closures(p) = manifestOf(q), p.inputs = info[q].inputs,
         p.foreignRuntime = info[q].foreignRuntime,
         UNCHANGED <<bytes, linked, foreign, published>>
  PROVE  Grows(t, p)
<1>1. /\ p.entry = info[q].entry
      /\ p.runtime = info[q].runtime
      /\ p.tool = info[q].tool
      /\ p.reference = info[q].reference
  BY DEF Closures, manifestOf
<1>2. Nested(p)
  BY <1>1 DEF Nested, IInv, ClosuresNested
<1>3. p.reference \subseteq Realized \cup {p.entry}
  BY <1>1 DEF IInv, ClosuresRealized
<1>4. /\ p.foreignRuntime \subseteq p.runtime \cap foreign'
      /\ \A f \in p.runtime \cap foreign' : RuntimeKnown(p, f)
  BY <1>1 DEF IInv, ForeignRuntimeTracked, RuntimeKnown
<1>5. Again(p)
  BY DEF Again
<1>6. p.inputs \subseteq Analysed
  BY DEF IInv, InputsAnalysed
<1>7. /\ bytes' \in [Entries -> SUBSET Entries] /\ linked' \in [Entries -> SUBSET Entries]
      /\ foreign' \subseteq Entries
  BY DEF IInv, TypeOK
<1>8. \A f \in p.reference : ClosedBy(f, p.reference)
  BY <1>1 DEF ClosedBy, IInv, ReferencesClosed
<1> QED
  BY <1>2, <1>3, <1>4, <1>5, <1>6, <1>7, <1>8 DEF Grows

\* A seed cut repeats the closures of the package it wraps.
LEMMA SeedCutGrows ==
  ASSUME IInv, NEW t \in Targets, NEW q \in Analysed, SeedCut(t, q)
  PROVE  \E p : Grows(t, p)
<1> DEFINE scan == [kind |-> "cut", tree |-> info[q].entry, entries |-> info[q].foreignBuild]
           p == [info[q] EXCEPT !.foreignBuild = {}, !.checks = @ \cup {scan},
                                !.package = None]
<1>1. info[q] \in Provider
  BY DEF IInv, TypeOK, Analysed
<1>2. /\ t \in Upcoming
      /\ info' = [info EXCEPT ![t] = p]
      /\ UNCHANGED <<bytes, linked, foreign, published>>
  BY DEF SeedCut, Define
<1>3. scan \in Check
  BY <1>1 DEF Provider, Check
<1> HIDE DEF scan
<1>4. /\ p \in Provider
      /\ Closures(p) = manifestOf(q)
      /\ p.inputs = info[q].inputs
      /\ p.foreignRuntime = info[q].foreignRuntime
  BY <1>1, <1>3 DEF Provider, Closures, manifestOf
<1> HIDE DEF p
<1> QED
  BY <1>2, <1>4, WrapperGrows

\* So does a validated output.
LEMMA ValidatedOutputGrows ==
  ASSUME IInv, NEW t \in Targets, NEW q \in Analysed, ValidatedOutput(t, q)
  PROVE  \E p : Grows(t, p)
<1> DEFINE scan == [kind |-> "declared", tree |-> info[q].entry, entries |-> info[q].reference]
           p == [info[q] EXCEPT !.checks = @ \cup {scan}, !.package = None]
<1>1. info[q] \in Provider
  BY DEF IInv, TypeOK, Analysed
<1>2. /\ t \in Upcoming
      /\ info' = [info EXCEPT ![t] = p]
      /\ UNCHANGED <<bytes, linked, foreign, published>>
  BY DEF ValidatedOutput, Define
<1>3. scan \in Check
  BY <1>1 DEF Provider, Check
<1> HIDE DEF scan
<1>4. /\ p \in Provider
      /\ Closures(p) = manifestOf(q)
      /\ p.inputs = info[q].inputs
      /\ p.foreignRuntime = info[q].foreignRuntime
  BY <1>1, <1>3 DEF Provider, Closures, manifestOf
<1> HIDE DEF p
<1> QED
  BY <1>2, <1>4, WrapperGrows

\* The producer of the pinned manifest has the closures the import computes.
LEMMA PinnedImportGrows ==
  ASSUME IInv, NEW t \in Targets, NEW m \in published,
         NEW runtime \in SUBSET Analysed, NEW tool \in SUBSET Analysed,
         NEW reference \in SUBSET Analysed,
         PinnedImport(t, m, runtime, tool, reference)
  PROVE  \E p : Grows(t, p)
<1> DEFINE inputs == runtime \cup tool \cup reference
           r == Metadata(m.entry, t, inputs, runtime, tool, reference, FALSE)
           p == Imported(t, m, runtime, tool, reference)
<1>1. PICK u \in Analysed : manifestOf(u) = m
  BY DEF IInv, PublishedProduced
<1>2. info[u] \in Provider /\ m \in Manifest
  BY DEF IInv, TypeOK, Analysed
<1>3. m.entry \in Entries
  BY <1>2 DEF Manifest
<1>4. r \in Provider
  BY <1>3, MetadataTyped DEF IInv
<1>5. /\ p = [r EXCEPT !.build = r.tool, !.foreignRuntime = {}, !.foreignBuild = {},
                       !.checks = {}, !.package = None]
      /\ r.inputs = inputs
      /\ r.entry = m.entry
  BY DEF Imported, Metadata
<1>6. /\ t \in Upcoming
      /\ p.runtime = m.runtime
      /\ p.tool = m.tool
      /\ p.reference = m.reference
      /\ info' = [info EXCEPT ![t] = p]
      /\ UNCHANGED <<bytes, linked, foreign, published>>
  BY DEF PinnedImport, Define
<1> HIDE DEF r, p
<1>7. /\ p \in Provider
      /\ p.entry = m.entry
      /\ p.inputs = inputs
      /\ p.foreignRuntime = {}
  BY <1>4, <1>5 DEF Provider
<1>8. Closures(p) = manifestOf(u)
  BY <1>1, <1>2, <1>6, <1>7 DEF Closures, manifestOf
<1>9. /\ p.entry = info[u].entry
      /\ p.runtime = info[u].runtime
      /\ p.tool = info[u].tool
      /\ p.reference = info[u].reference
  BY <1>8 DEF Closures, manifestOf
<1>10. Nested(p)
  BY <1>9 DEF Nested, IInv, ClosuresNested
<1>11. p.reference \subseteq Realized \cup {p.entry}
  BY <1>9 DEF IInv, ClosuresRealized
<1>12. /\ p.foreignRuntime \subseteq p.runtime \cap foreign'
       /\ \A f \in p.runtime \cap foreign' : RuntimeKnown(p, f)
  BY <1>6, <1>7, <1>10 DEF RuntimeKnown, Nested
<1>13. Again(p)
  BY <1>6, <1>8 DEF Again
<1>14. /\ bytes' \in [Entries -> SUBSET Entries] /\ linked' \in [Entries -> SUBSET Entries]
       /\ foreign' \subseteq Entries
  BY <1>6 DEF IInv, TypeOK
<1>15. p.inputs \subseteq Analysed
  BY <1>7
<1>16. \A f \in p.reference : ClosedBy(f, p.reference)
  BY <1>9 DEF ClosedBy, IInv, ReferencesClosed
<1> QED
  BY <1>6, <1>7, <1>10, <1>11, <1>12, <1>13, <1>14, <1>15, <1>16 DEF Grows

-----------------------------------------------------------------------------
\* Every step that analyses a target grows the graph.
LEMMA NextGrows ==
  ASSUME IInv, Next
  PROVE  (\E t \in Targets : \E p : Grows(t, p)) \/ (\E t \in Analysed : Publish(t))
<1>0. /\ Upcoming \subseteq Targets
      /\ \A role, r : In(role, r) \subseteq Analysed
  BY DEF Upcoming, In
<1>3. CASE \E t \in Upcoming, e \in Entries \ Realized, isForeign \in BOOLEAN :
             \E role \in Roles({"runtime", "tool", "reference", "build"}) :
             \E mentioned \in Mentions : \E links \in Links(mentioned) :
               Package(t, e, In(role, "runtime"), In(role, "tool"), In(role, "reference"),
                       In(role, "build"), isForeign, mentioned, links)
  BY <1>0, <1>3, PackageGrows
<1>4. CASE \E t \in Upcoming, q \in Analysed, e \in Entries \ Realized :
             \E role \in Roles({"runtime", "tool", "reference"}) :
             \E mentioned \in Mentions : \E links \in Links(mentioned) :
               SplitOutput(t, q, e, In(role, "runtime"), In(role, "tool"),
                           In(role, "reference"), mentioned, links)
  BY <1>0, <1>4, SplitOutputGrows
<1>5. CASE \E t \in Upcoming, q \in Analysed : SeedCut(t, q) \/ ValidatedOutput(t, q)
  BY <1>0, <1>5, SeedCutGrows, ValidatedOutputGrows
<1>6. CASE \E t \in Upcoming, m \in published, role \in Roles({"runtime", "tool", "reference"}) :
             PinnedImport(t, m, In(role, "runtime"), In(role, "tool"), In(role, "reference"))
  BY <1>0, <1>6, PinnedImportGrows
<1> QED
  BY <1>3, <1>4, <1>5, <1>6 DEF Next

\* What analysis of a target does to the graph.
LEMMA GrowsGraph ==
  ASSUME TypeOK, NEW t \in Targets, NEW p, Grows(t, p)
  PROVE  /\ t \notin Analysed
         /\ Analysed' = Analysed \cup {t}
         /\ info'[t] = p
         /\ \A u \in Analysed : info'[u] = info[u]
         /\ Realized' = Realized \cup {p.entry}
<1>1. t \notin Analysed /\ p # None
  BY NoneAssumption DEF Grows, Upcoming, Analysed
<1>2. info'[t] = p /\ \A u \in Targets \ {t} : info'[u] = info[u]
  BY DEF Grows, TypeOK
<1>3. Analysed' = Analysed \cup {t}
  BY <1>1, <1>2 DEF Analysed
<1>4. Analysed \subseteq Targets
  BY DEF Analysed
<1>5. \A u \in Analysed : info'[u] = info[u]
  BY <1>1, <1>2, <1>4
<1>6. Realized' = Realized \cup {p.entry}
  BY <1>2, <1>3, <1>5 DEF Realized
<1> QED
  BY <1>1, <1>2, <1>3, <1>5, <1>6

\* Every conjunct of the invariant survives the analysis of a target.
LEMMA GrowsInvariant ==
  ASSUME IInv, NEW t \in Targets, NEW p, Grows(t, p)
  PROVE  IInv'
<1>1. /\ t \notin Analysed
      /\ Analysed' = Analysed \cup {t}
      /\ info'[t] = p
      /\ \A u \in Analysed : info'[u] = info[u]
      /\ Realized' = Realized \cup {p.entry}
  BY GrowsGraph DEF IInv
<1>2. TypeOK'
  BY DEF IInv, TypeOK, Grows
<1>3. ClosuresNested'
  BY <1>1 DEF IInv, ClosuresNested, Grows, Nested
<1>4. ClosuresRealized'
  BY <1>1 DEF IInv, ClosuresRealized, Grows
<1>5. InputsAnalysed'
  BY <1>1 DEF IInv, InputsAnalysed, Grows
<1>6. ForeignRealized'
  BY <1>1 DEF IInv, ForeignRealized, Grows, Fresh, Again
<1>7. ForeignRuntimeTracked'
  <2>1. \A u \in Analysed : info[u].runtime \cap foreign' = info[u].runtime \cap foreign
    <3>1. CASE Fresh(p)
      <4>1. \A u \in Analysed : p.entry \notin info[u].runtime
        BY <3>1 DEF Fresh, IInv, ClosuresNested, ClosuresRealized
      <4> QED
        BY <3>1, <4>1 DEF Fresh
    <3>2. CASE Again(p)
      BY <3>2 DEF Again
    <3> QED
      BY <3>1, <3>2 DEF Grows
  <2>2. published' = published
    BY DEF Grows
  <2>3. ASSUME NEW u \in Analysed
        PROVE  /\ info'[u].foreignRuntime \subseteq info'[u].runtime \cap foreign'
               /\ \A f \in (info'[u].runtime \cap foreign') \ info'[u].foreignRuntime :
                    \E m \in published' : m.entry \in info'[u].runtime /\ f \in m.runtime
    BY <1>1, <2>1, <2>2 DEF IInv, ForeignRuntimeTracked
  <2>4. /\ info'[t].foreignRuntime \subseteq info'[t].runtime \cap foreign'
        /\ \A f \in (info'[t].runtime \cap foreign') \ info'[t].foreignRuntime :
             \E m \in published' : m.entry \in info'[t].runtime /\ f \in m.runtime
    BY <1>1, <2>2 DEF Grows, RuntimeKnown
  <2> QED
    BY <1>1, <2>3, <2>4 DEF ForeignRuntimeTracked
<1>8. EntryDeterminesClosures'
  <2>1. \A u \in Analysed : manifestOf(u)' = manifestOf(u)
    BY <1>1 DEF manifestOf
  <2>2. manifestOf(t)' = Closures(p)
    BY <1>1 DEF manifestOf, Closures
  <2>3. \A u \in Analysed : info[u].entry = p.entry => manifestOf(u) = Closures(p)
    <3>1. CASE Fresh(p)
      BY <3>1 DEF Fresh, Realized
    <3>2. CASE Again(p)
      <4>1. PICK v \in Analysed : Closures(p) = manifestOf(v)
        BY <3>2 DEF Again
      <4>2. info[v].entry = p.entry
        BY <4>1 DEF Closures, manifestOf
      <4> QED
        BY <4>1, <4>2 DEF IInv, EntryDeterminesClosures
    <3> QED
      BY <3>1, <3>2 DEF Grows
  <2> SUFFICES ASSUME NEW u \in Analysed', NEW v \in Analysed', (info[u].entry = info[v].entry)'
               PROVE  (manifestOf(u) = manifestOf(v))'
    BY DEF EntryDeterminesClosures
  <2>4. CASE u \in Analysed /\ v \in Analysed
    BY <1>1, <2>1, <2>4 DEF IInv, EntryDeterminesClosures
  <2>5. CASE u = t \/ v = t
    BY <1>1, <2>1, <2>2, <2>3, <2>5
  <2> QED
    BY <1>1, <2>4, <2>5
<1>9. PublishedProduced'
  <2>1. \A u \in Analysed : manifestOf(u)' = manifestOf(u)
    BY <1>1 DEF manifestOf
  <2>2. published' = published
    BY DEF Grows
  <2> QED
    BY <1>1, <2>1, <2>2 DEF IInv, PublishedProduced
<1>10. ReferencesClosed'
  <2>1. \A u \in Analysed : \A f \in info[u].reference :
          \E v \in Analysed : info[v].entry = f /\ info[v].reference \subseteq info[u].reference
    BY DEF IInv, ReferencesClosed
  <2>2. \A f \in p.reference \ {p.entry} :
          \E v \in Analysed : info[v].entry = f /\ info[v].reference \subseteq p.reference
    BY DEF Grows, ClosedBy
  <2> QED
    BY <1>1, <2>1, <2>2 DEF ReferencesClosed
<1> QED
  BY <1>2, <1>3, <1>4, <1>5, <1>6, <1>7, <1>8, <1>9, <1>10 DEF IInv

\* A manifest is published with a producer.
LEMMA PublishInvariant ==
  ASSUME IInv, NEW t \in Analysed, Publish(t)
  PROVE  IInv'
<1>1. published' = published \cup {manifestOf(t)} /\ UNCHANGED <<info, bytes, linked, foreign>>
  BY DEF Publish
<1>2. TypeOK'
  <2>1. info[t] \in Provider
    BY DEF IInv, TypeOK, Analysed
  <2>2. manifestOf(t) \in Manifest
    BY <2>1 DEF manifestOf, Manifest, Provider
  <2> QED
    BY <1>1, <2>2 DEF IInv, TypeOK
<1>3. Analysed' = Analysed /\ Realized' = Realized
  BY <1>1 DEF Analysed, Realized
<1>4. \A u \in Analysed : manifestOf(u)' = manifestOf(u)
  BY <1>1 DEF manifestOf
<1>5. PublishedProduced'
  BY <1>1, <1>3, <1>4 DEF IInv, PublishedProduced
<1>6. ClosuresNested' /\ ClosuresRealized' /\ InputsAnalysed' /\ ForeignRealized'
  BY <1>1, <1>3 DEF IInv, ClosuresNested, ClosuresRealized, InputsAnalysed, ForeignRealized
<1>7. ForeignRuntimeTracked' /\ EntryDeterminesClosures'
  BY <1>1, <1>3, <1>4 DEF IInv, ForeignRuntimeTracked, EntryDeterminesClosures
<1>8. ReferencesClosed'
  BY <1>1, <1>3 DEF IInv, ReferencesClosed
<1> QED
  BY <1>2, <1>5, <1>6, <1>7, <1>8 DEF IInv

\* Init establishes the invariant and every step keeps it.
THEOREM GraphInvariant == Spec => []IInv
<1>1. Init => IInv
  <2> SUFFICES ASSUME Init PROVE IInv
    OBVIOUS
  <2>1. Analysed = {}
    BY DEF Init, Analysed
  <2>2. TypeOK
    BY DEF Init, TypeOK
  <2> QED
    BY <2>1, <2>2 DEF IInv, Init, ClosuresNested, ClosuresRealized, InputsAnalysed,
       ForeignRealized, ForeignRuntimeTracked, EntryDeterminesClosures, ReferencesClosed,
       PublishedProduced
<1>2. IInv /\ [Next]_vars => IInv'
  <2> SUFFICES ASSUME IInv, [Next]_vars PROVE IInv'
    OBVIOUS
  <2>1. CASE Next
    BY <2>1, NextGrows, GrowsInvariant, PublishInvariant
  <2>2. CASE UNCHANGED vars
    <3>1. Analysed' = Analysed /\ Realized' = Realized /\ UNCHANGED <<info, foreign>>
      BY <2>2 DEF vars, Analysed, Realized
    <3>2. \A u \in Analysed : manifestOf(u)' = manifestOf(u)
      BY <3>1 DEF manifestOf
    <3>3. TypeOK' /\ PublishedProduced'
      BY <2>2, <3>1, <3>2 DEF vars, IInv, TypeOK, PublishedProduced
    <3>4. ClosuresNested' /\ ClosuresRealized' /\ InputsAnalysed' /\ ForeignRealized'
      BY <3>1 DEF IInv, ClosuresNested, ClosuresRealized, InputsAnalysed, ForeignRealized
    <3>5. ForeignRuntimeTracked' /\ EntryDeterminesClosures' /\ ReferencesClosed'
      BY <2>2, <3>1, <3>2 DEF vars, IInv, ForeignRuntimeTracked, EntryDeterminesClosures, ReferencesClosed
    <3> QED
      BY <3>3, <3>4, <3>5 DEF IInv
  <2> QED
    BY <2>1, <2>2
<1> QED
  BY <1>1, <1>2, PTL DEF Spec

\* Every reachable graph is well typed.
THEOREM GraphTyped == Spec => []TypeOK
<1>1. IInv => TypeOK
  BY DEF IInv
<1> QED
  BY <1>1, GraphInvariant, PTL

\* In every graph of packages, splits, cuts, validated outputs and imports, the
\* runtime closure is within the tool closure and that within the references.
THEOREM ClosuresAlwaysNested == Spec => []ClosuresNested
<1>1. IInv => ClosuresNested
  BY DEF IInv
<1> QED
  BY <1>1, GraphInvariant, PTL

\* No two targets give one entry different closures: a wrapper or an import
\* says of a realization what its producer says.
THEOREM ClosuresAgree == Spec => []EntryDeterminesClosures
<1>1. IInv => EntryDeterminesClosures
  BY DEF IInv
<1> QED
  BY <1>1, GraphInvariant, PTL

\* The objects an exported closure needs are the references of one provider:
\* whoever hydrates them finds every reference of each among them.
THEOREM ReferencesAlwaysClosed == Spec => []ReferencesClosed
<1>1. IInv => ReferencesClosed
  BY DEF IInv
<1> QED
  BY <1>1, GraphInvariant, PTL

\* A foreign entry of a runtime closure that foreign_runtime_entries no longer
\* names is one that an import brought in: the object imported is in the closure
\* too, and the manifest it is pinned to names the entry.
THEOREM ForeignRuntimeAlwaysTracked == Spec => []ForeignRuntimeTracked
<1>1. IInv => ForeignRuntimeTracked
  BY DEF IInv
<1> QED
  BY <1>1, GraphInvariant, PTL

-----------------------------------------------------------------------------
(* Foreign paths.                                                           *)

\* A build closure and the bytes of a tree hold realized entries only.
PastOnly(t) == info[t].build \subseteq Realized /\ bytes[info[t].entry] \subseteq Realized

ChecksKnown(t) == \A c \in info[t].checks : c.tree \in Realized

\* Foreign packages have no split outputs.
Unsplit(t) == info[t].entry \in foreign /\ info[t].package # None => info[t].package = t

\* What a native output of a package names and insists on comes from the inputs
\* of the package, so that the other outputs of it have that too.
FromInputs(t) ==
  info[t].package # None /\ info[t].entry \notin foreign =>
    /\ info[t].package \in Analysed
    /\ info[t].inputs = info[info[t].package].inputs
    /\ info[t].foreignBuild \subseteq ForeignBuild(info[t].inputs)
    /\ info[t].checks \subseteq Checks(info[t].inputs)

Accounted(t) ==
  \A f \in info[t].build \cap foreign :
    \/ f \in info[t].foreignBuild
    \/ \E c \in info[t].checks : c.kind = "cut" /\ f \in c.entries
    \/ \E m \in published : f \in m.tool

\* The foreign path f came to t through one of the three gaps.
Gap(t, f) == PastCut(t, f) \/ PastImport(f) \/ NamedOnly(f)

Followed(t, f) == f \in info[t].foreignBuild \/ Gap(t, f)

\* BytesTracked does not carry over to a user of t, who sees the whole tool
\* closure of t: all of that is followed.
ToolFollowed(t) ==
  Verified(t) => \A e \in info[t].tool : \A f \in ({e} \cup bytes[e]) \cap foreign : Followed(t, f)

TargetInv(t) ==
  /\ PastOnly(t) /\ ChecksKnown(t) /\ Unsplit(t) /\ FromInputs(t)
  /\ Accounted(t) /\ ToolFollowed(t)

ForeignInv == IInv /\ \A t \in Analysed : TargetInv(t)

\* A step that analyses t and touches no tree that is there.
Extends(t) ==
  /\ \E p : Grows(t, p)
  /\ \A e \in Realized : bytes'[e] = bytes[e] /\ linked'[e] = linked[e]

\* The graph before is a part of the graph after; an old entry is foreign
\* after exactly if it was before.
LEMMA ExtendsGraph ==
  ASSUME ForeignInv, NEW t \in Targets, Extends(t)
  PROVE  /\ t \notin Analysed /\ Analysed' = Analysed \cup {t}
         /\ \A u \in Analysed : info'[u] = info[u]
         /\ Realized' = Realized \cup {info'[t].entry}
         /\ published' = published
         /\ foreign \subseteq foreign' /\ foreign' \cap Realized \subseteq foreign
<1>1. PICK p : Grows(t, p)
  BY DEF Extends
<1>2. /\ t \notin Analysed /\ Analysed' = Analysed \cup {t} /\ info'[t] = p
      /\ \A u \in Analysed : info'[u] = info[u]
      /\ Realized' = Realized \cup {p.entry}
  BY <1>1, GrowsGraph DEF ForeignInv, IInv
<1>3. foreign \subseteq foreign' /\ foreign' \cap Realized \subseteq foreign
  BY <1>1 DEF Grows, Fresh, Again
<1> QED BY <1>1, <1>2, <1>3 DEF Grows

\* What an analysed target names is realized.
LEMMA OldRealized ==
  ASSUME ForeignInv, NEW u \in Analysed
  PROVE  /\ info[u].entry \in Realized /\ info[u].reference \subseteq Realized
         /\ info[u].entry \in info[u].tool /\ info[u].tool \subseteq info[u].reference
         /\ info[u].inputs \subseteq Analysed /\ info[u] \in Provider
         /\ info[u].tool \subseteq Realized
  BY DEF ForeignInv, IInv, ClosuresRealized, ClosuresNested, InputsAnalysed, Realized,
     TypeOK, Analysed

\* So is what a published manifest names.
LEMMA PublishedRealized ==
  ASSUME ForeignInv, NEW m \in published
  PROVE  \E u \in Analysed : m.tool = info[u].tool /\ m.tool \subseteq Realized
<1>1. PICK u \in Analysed : manifestOf(u) = m
  BY DEF ForeignInv, IInv, PublishedProduced
<1>2. m.tool = info[u].tool
  BY <1>1 DEF manifestOf
<1> QED BY <1>2, OldRealized

\* What a build could see it can still see, and no more.
LEMMA VisibleStays ==
  ASSUME ForeignInv, NEW t \in Targets, Extends(t), NEW inputs \in SUBSET Analysed
  PROVE  Visible(inputs)' = Visible(inputs)
<1>1. Tool(inputs)' = Tool(inputs)
  BY ExtendsGraph DEF Tool
<1>2. Tool(inputs) \subseteq Realized
  BY OldRealized DEF Tool
<1>3. \A e \in Tool(inputs) : bytes'[e] = bytes[e]
  BY <1>2 DEF Extends
<1> QED BY <1>1, <1>3 DEF Visible

\* A gap stays a gap, also for a target with more checks.
LEMMA GapStays ==
  ASSUME ForeignInv, NEW t \in Targets, Extends(t), NEW u \in Analysed, NEW v,
         info[u].checks \subseteq info'[v].checks, NEW f, Gap(u, f)
  PROVE  Gap(v, f)'
<1>1. /\ Analysed' = Analysed \cup {t} /\ \A w \in Analysed : info'[w] = info[w]
      /\ published' = published
  BY ExtendsGraph
<1>2. \A e \in Realized : bytes'[e] = bytes[e] /\ linked'[e] = linked[e]
  BY DEF Extends
<1>3. CASE PastCut(u, f)
  <2>1. PICK c \in info[u].checks :
          /\ c.kind = "cut" /\ f \in c.entries
          /\ \/ f \in linked[c.tree]
             \/ \E w \in Analysed : \E e \in info[w].tool :
                  info[w].entry = c.tree /\ (e = f \/ (e # c.tree /\ f \in bytes[e]))
    BY <1>3 DEF PastCut
  <2>2. c.tree \in Realized
    BY DEF ForeignInv, TargetInv, ChecksKnown
  <2>3. CASE f \in linked[c.tree]
    BY <1>2, <2>1, <2>2, <2>3 DEF Gap, PastCut
  <2>4. CASE \E w \in Analysed : \E e \in info[w].tool :
               info[w].entry = c.tree /\ (e = f \/ (e # c.tree /\ f \in bytes[e]))
    <3>0. PICK w \in Analysed : \E e \in info[w].tool :
            info[w].entry = c.tree /\ (e = f \/ (e # c.tree /\ f \in bytes[e]))
      BY <2>4
    <3>1. PICK e \in info[w].tool :
            info[w].entry = c.tree /\ (e = f \/ (e # c.tree /\ f \in bytes[e]))
      BY <3>0
    <3>2. bytes'[e] = bytes[e]
      BY <1>2, OldRealized
    <3>3. /\ w \in Analysed' /\ e \in info'[w].tool
          /\ info'[w].entry = c.tree /\ (e = f \/ (e # c.tree /\ f \in bytes'[e]))
      BY <1>1, <3>1, <3>2
    <3>4. c \in info'[v].checks /\ c.kind = "cut" /\ f \in c.entries
      BY <2>1
    <3> QED BY <3>3, <3>4 DEF Gap, PastCut
  <2> QED BY <2>1, <2>3, <2>4
<1>4. CASE PastImport(f)
  <2>1. PICK m \in published : \E e \in m.tool : e = f \/ f \in bytes[e]
    BY <1>4 DEF PastImport
  <2>2. \A e \in m.tool : bytes'[e] = bytes[e]
    BY <1>2, PublishedRealized
  <2> QED BY <1>1, <2>1, <2>2 DEF Gap, PastImport
<1>5. CASE NamedOnly(f)
  <2>1. PICK w \in Analysed :
          info[w].package # None /\ f \in bytes[info[w].entry] \ Visible(info[w].inputs)
    BY <1>5 DEF NamedOnly
  <2>2. w \in Analysed' /\ info'[w] = info[w] /\ bytes'[info[w].entry] = bytes[info[w].entry]
    BY <1>1, <1>2, OldRealized
  <2>3. Visible(info[w].inputs)' = Visible(info[w].inputs)
    <3> DEFINE inputs == info[w].inputs
    <3>1. inputs \in SUBSET Analysed
      BY OldRealized
    <3>2. /\ Tool(info[w].inputs)' = UNION {info'[d].tool : d \in info'[w].inputs}
          /\ Tool(inputs) = UNION {info[d].tool : d \in inputs}
      BY DEF Tool
    <3>3. Tool(info[w].inputs)' = Tool(inputs)
      BY <1>1, <2>2, <3>1, <3>2
    <3>4. \A e \in Tool(inputs) : bytes'[e] = bytes[e]
      BY <1>2, <3>1, OldRealized DEF Tool
    <3> QED BY <3>3, <3>4 DEF Visible
  <2> QED BY <2>1, <2>2, <2>3 DEF Gap, NamedOnly
<1> QED BY <1>3, <1>4, <1>5 DEF Gap

\* So does what is followed, for a target that names and insists on as much.
LEMMA FollowedStays ==
  ASSUME ForeignInv, NEW t \in Targets, Extends(t), NEW u \in Analysed, NEW v,
         info[u].foreignBuild \subseteq info'[v].foreignBuild,
         info[u].checks \subseteq info'[v].checks, NEW f, Followed(u, f)
  PROVE  Followed(v, f)'
<1>1. CASE f \in info[u].foreignBuild
  BY <1>1 DEF Followed
<1>2. CASE Gap(u, f)
  BY <1>2, GapStays DEF Followed
<1> QED BY <1>1, <1>2 DEF Followed

\* Checks of old trees keep their outcome.
LEMMA VerifiedBefore ==
  ASSUME ForeignInv, NEW t \in Targets, Extends(t), NEW u \in Analysed, NEW v,
         info[u].checks \subseteq info'[v].checks, Verified(v)'
  PROVE  Verified(u)
<1> SUFFICES ASSUME NEW c \in info[u].checks PROVE Passes(c)
  BY DEF Verified
<1>1. c \in info'[v].checks
  OBVIOUS
<1>2. Passes(c)'
  BY <1>1 DEF Verified
<1>3. bytes'[c.tree] = bytes[c.tree] /\ linked'[c.tree] = linked[c.tree]
  BY DEF Extends, ForeignInv, TargetInv, ChecksKnown
<1> QED BY <1>2, <1>3 DEF Passes, InFiles

\* What holds of a target goes on holding.
LEMMA OldTargets ==
  ASSUME ForeignInv, NEW t \in Targets, Extends(t), NEW u \in Analysed
  PROVE  TargetInv(u)'
<1>1. /\ Analysed' = Analysed \cup {t} /\ \A v \in Analysed : info'[v] = info[v]
      /\ Realized \subseteq Realized' /\ published' = published
      /\ foreign \subseteq foreign' /\ foreign' \cap Realized \subseteq foreign
  BY ExtendsGraph
<1>2. TargetInv(u) /\ bytes'[info[u].entry] = bytes[info[u].entry] /\ info'[u] = info[u]
  BY <1>1, OldRealized DEF ForeignInv, Extends
<1>3. PastOnly(u)'
  BY <1>1, <1>2 DEF TargetInv, PastOnly
<1>4. ChecksKnown(u)'
  BY <1>1, <1>2 DEF TargetInv, ChecksKnown
<1>5. Unsplit(u)'
  BY <1>1, <1>2, OldRealized DEF TargetInv, Unsplit
<1>6. FromInputs(u)'
  <2>1. /\ ForeignBuild(info[u].inputs)' = ForeignBuild(info[u].inputs)
        /\ Checks(info[u].inputs)' = Checks(info[u].inputs)
    BY <1>1, OldRealized DEF ForeignBuild, Checks
  <2>2. info[u].entry \in foreign' <=> info[u].entry \in foreign
    BY <1>1, OldRealized
  <2>3. FromInputs(u)
    BY <1>2 DEF TargetInv
  <2> QED BY <1>1, <1>2, <2>1, <2>2, <2>3 DEF FromInputs
<1>7. Accounted(u)'
  BY <1>1, <1>2 DEF TargetInv, Accounted, PastOnly
<1>8. ToolFollowed(u)'
  <2> SUFFICES ASSUME Verified(u)', NEW e \in info[u].tool,
                      NEW f \in ({e} \cup bytes'[e]) \cap foreign'
               PROVE  Followed(u, f)'
    BY <1>2 DEF ToolFollowed
  <2>1. Verified(u)
    BY <1>2, VerifiedBefore
  <2>2. e \in Realized /\ bytes'[e] = bytes[e]
    BY OldRealized DEF Extends
  <2>3. bytes[e] \subseteq Realized
    BY <2>2 DEF Realized, ForeignInv, TargetInv, PastOnly
  <2>4. f \in ({e} \cup bytes[e]) \cap foreign
    BY <1>1, <2>2, <2>3
  <2>5. Followed(u, f)
    BY <1>2, <2>1, <2>4 DEF TargetInv, ToolFollowed
  <2> QED BY <1>2, <2>5, FollowedStays
<1> QED BY <1>3, <1>4, <1>5, <1>6, <1>7, <1>8 DEF TargetInv

\* One more target keeps the invariant if its own part of it holds.
LEMMA ExtendsInvariant ==
  ASSUME ForeignInv, NEW t \in Targets, Extends(t), TargetInv(t)'
  PROVE  ForeignInv'
<1>1. IInv'
  BY GrowsInvariant DEF Extends, ForeignInv
<1> QED BY <1>1, ExtendsGraph, OldTargets DEF ForeignInv

-----------------------------------------------------------------------------
(* A new realization.                                                       *)

\* What a build sees and is foreign is followed by one of its inputs, when the
\* checks of the inputs pass.
LEMMA VisibleFollowed ==
  ASSUME ForeignInv, NEW inputs \in SUBSET Analysed,
         \A d \in inputs : Verified(d), NEW f \in Visible(inputs) \cap foreign
  PROVE  \E d \in inputs : Followed(d, f)
<1>0. PICK d \in inputs : \E e \in info[d].tool : f \in {e} \cup bytes[e]
  BY DEF Visible, Tool
<1>1. PICK e \in info[d].tool : f \in {e} \cup bytes[e]
  BY <1>0
<1>2. TargetInv(d) /\ Verified(d)
  BY DEF ForeignInv
<1> QED BY <1>1, <1>2 DEF TargetInv, ToolFollowed

\* The part of the invariant of a target that realizes a fresh entry from
\* inputs that are there. tools are the inputs its tool closure is made from.
LEMMA RealizedTarget ==
  ASSUME ForeignInv, NEW t \in Targets, Extends(t),
         NEW inputs \in SUBSET Analysed, NEW tools \in SUBSET Analysed, NEW e, NEW package,
         e \notin Realized, info'[t].entry = e, info'[t].inputs = inputs,
         info'[t].package = package, package \in Analysed \cup {t}, package # None,
         inputs = info'[package].inputs,
         bytes'[e] \subseteq Realized,
         info'[t].build = {e} \cup Build(inputs),
         info'[t].tool = {e} \cup Tool(tools),
         info'[t].checks = Checks(inputs),
         info'[t].foreignBuild = (foreign' \cap {e}) \cup ForeignBuild(inputs),
         e \in foreign' => package = t,
         \A v \in tools : /\ info[v].foreignBuild \subseteq ForeignBuild(inputs)
                          /\ info[v].checks \subseteq Checks(inputs)
  PROVE  TargetInv(t)'
<1>1. /\ t \notin Analysed /\ Analysed' = Analysed \cup {t}
      /\ \A v \in Analysed : info'[v] = info[v]
      /\ Realized \subseteq Realized' /\ e \in Realized' /\ published' = published
      /\ foreign \subseteq foreign' /\ foreign' \cap Realized \subseteq foreign
  BY ExtendsGraph
<1>2. ForeignBuild(info[t].inputs)' = ForeignBuild(inputs) /\ Checks(info[t].inputs)' = Checks(inputs)
  BY <1>1 DEF ForeignBuild, Checks
<1>3. Build(inputs) \subseteq Realized /\ Tool(tools) \subseteq Realized
  BY OldRealized DEF Build, Tool, ForeignInv, TargetInv, PastOnly
<1>4. PastOnly(t)'
  BY <1>1, <1>3 DEF PastOnly
<1>5. ChecksKnown(t)'
  <2>1. \A c \in Checks(inputs) : c.tree \in Realized
    BY DEF Checks, ForeignInv, TargetInv, ChecksKnown
  <2> QED BY <1>1, <2>1 DEF ChecksKnown
<1>6. Unsplit(t)'
  BY DEF Unsplit
<1>7. FromInputs(t)'
  <2>1. e \notin foreign' => info'[t].foreignBuild \subseteq ForeignBuild(inputs)
    OBVIOUS
  <2> QED BY <1>1, <1>2, <2>1 DEF FromInputs
<1>8. Accounted(t)'
  <2> SUFFICES ASSUME NEW f \in ({e} \cup Build(inputs)) \cap foreign'
               PROVE  \/ f \in info'[t].foreignBuild
                      \/ \E c \in info'[t].checks : c.kind = "cut" /\ f \in c.entries
                      \/ \E m \in published' : f \in m.tool
    BY DEF Accounted
  <2>1. CASE f = e
    BY <2>1
  <2>2. CASE f # e
    <3>1. PICK d \in inputs : f \in info[d].build
      BY <2>2 DEF Build
    <3>2. f \in foreign
      BY <1>1, <1>3, <2>2
    <3>3. \/ f \in info[d].foreignBuild
          \/ \E c \in info[d].checks : c.kind = "cut" /\ f \in c.entries
          \/ \E m \in published : f \in m.tool
      BY <3>1, <3>2 DEF ForeignInv, TargetInv, Accounted
    <3> QED BY <1>1, <3>3 DEF ForeignBuild, Checks
  <2> QED BY <2>1, <2>2
<1>9. ToolFollowed(t)'
  <2> SUFFICES ASSUME Verified(t)', NEW x \in {e} \cup Tool(tools),
                      NEW f \in ({x} \cup bytes'[x]) \cap foreign'
               PROVE  Followed(t, f)'
    BY DEF ToolFollowed
  <2>1. \A d \in inputs : /\ info[d].foreignBuild \subseteq info'[t].foreignBuild
                          /\ info[d].checks \subseteq info'[t].checks
    BY DEF ForeignBuild, Checks
  <2>2. \A v \in tools : /\ info[v].foreignBuild \subseteq info'[t].foreignBuild
                         /\ info[v].checks \subseteq info'[t].checks
    OBVIOUS
  <2>3. \A d \in inputs \cup tools : Verified(d)
    BY <2>1, <2>2, VerifiedBefore
  <2>4. CASE f = e
    BY <2>4 DEF Followed
  <2>5. CASE x = e /\ f # e
    <3>1. f \in bytes'[e] /\ f \in foreign
      BY <1>1, <2>5
    <3>2. CASE f \in Visible(inputs)
      <4>1. PICK d \in inputs : Followed(d, f)
        BY <2>3, <3>1, <3>2, VisibleFollowed
      <4> QED BY <2>1, <4>1, FollowedStays
    <3>3. CASE f \notin Visible(inputs)
      <4>1. Visible(info[t].inputs)' = Visible(inputs)'
        BY DEF Visible, Tool
      <4>2. f \notin Visible(info[t].inputs)'
        BY <3>3, <4>1, VisibleStays
      <4>3. NamedOnly(f)'
        BY <1>1, <3>1, <4>2 DEF NamedOnly
      <4> QED BY <4>3 DEF Followed, Gap
    <3> QED BY <3>2, <3>3
  <2>6. CASE x # e
    <3>1. PICK v \in tools : x \in info[v].tool
      BY <2>6 DEF Tool
    <3>2. x \in Realized /\ bytes'[x] = bytes[x]
      BY OldRealized, <3>1 DEF Extends
    <3>3. bytes[x] \subseteq Realized
      BY <3>2 DEF Realized, ForeignInv, TargetInv, PastOnly
    <3>4. f \in ({x} \cup bytes[x]) \cap foreign
      BY <1>1, <3>2, <3>3
    <3>5. TargetInv(v) /\ Verified(v)
      BY <2>3 DEF ForeignInv
    <3>6. Followed(v, f)
      BY <3>1, <3>4, <3>5 DEF TargetInv, ToolFollowed
    <3> QED BY <2>2, <3>6, FollowedStays
  <2> QED BY <2>4, <2>5, <2>6
<1> QED BY <1>4, <1>5, <1>6, <1>7, <1>8, <1>9 DEF TargetInv

\* A package keeps what is known of foreign entries.
LEMMA PackageForeign ==
  ASSUME ForeignInv, NEW t \in Targets, NEW e \in Entries,
         NEW runtime \in SUBSET Analysed, NEW tool \in SUBSET Analysed,
         NEW reference \in SUBSET Analysed, NEW build \in SUBSET Analysed,
         NEW isForeign \in BOOLEAN, NEW mentioned, NEW links,
         Package(t, e, runtime, tool, reference, build, isForeign, mentioned, links)
  PROVE  ForeignInv'
<1> DEFINE inputs == runtime \cup tool \cup reference \cup build
           tools == runtime \cup tool
           p == Metadata(e, t, inputs, runtime, tool, reference, isForeign)
<1>1. /\ e \notin Realized /\ t \in Upcoming
      /\ info' = [info EXCEPT ![t] = p]
      /\ Builds(e, mentioned, links)
      /\ foreign' = IF isForeign THEN foreign \cup {e} ELSE foreign
  BY DEF Package, Define
<1>2. bytes'[e] \subseteq Realized
  BY <1>1, BuildsTyped DEF ForeignInv, IInv
<1>3. Extends(t)
  <2>1. \A x \in Realized : bytes'[x] = bytes[x] /\ linked'[x] = linked[x]
    <3>1. Realized \subseteq Entries \ {e}
      BY <1>1 DEF Realized, ForeignInv, IInv, TypeOK, Analysed, Provider
    <3> QED BY <1>1, <3>1, BuildsTyped DEF ForeignInv, IInv
  <2>2. \E r : Grows(t, r)
    BY PackageGrows DEF ForeignInv
  <2> QED BY <2>1, <2>2 DEF Extends
<1>4. info'[t] = p
  BY <1>1 DEF ForeignInv, IInv, TypeOK
<1>5. foreign' \cap {e} = IF isForeign THEN {e} ELSE {}
  BY <1>1 DEF ForeignInv, IInv, ForeignRealized
<1>6. /\ p.entry = e /\ p.inputs = inputs /\ p.package = t
      /\ p.build = {e} \cup Build(inputs) /\ p.tool = {e} \cup Tool(tools)
      /\ p.checks = Checks(inputs)
      /\ p.foreignBuild = (IF isForeign THEN {e} ELSE {}) \cup ForeignBuild(inputs)
  BY DEF Metadata
<1>7. inputs \in SUBSET Analysed /\ tools \in SUBSET Analysed
  OBVIOUS
<1>8. \A v \in tools : /\ info[v].foreignBuild \subseteq ForeignBuild(inputs)
                       /\ info[v].checks \subseteq Checks(inputs)
  BY DEF ForeignBuild, Checks
<1> HIDE DEF inputs, tools, p
<1>9. /\ info'[t].entry = e /\ info'[t].inputs = inputs /\ info'[t].package = t
      /\ info'[t].build = {e} \cup Build(inputs) /\ info'[t].tool = {e} \cup Tool(tools)
      /\ info'[t].checks = Checks(inputs)
      /\ info'[t].foreignBuild = (foreign' \cap {e}) \cup ForeignBuild(inputs)
  BY <1>4, <1>5, <1>6
<1>10. t # None /\ t \in Analysed \cup {t}
  BY NoneAssumption
<1>11. TargetInv(t)'
  BY <1>1, <1>2, <1>3, <1>7, <1>8, <1>9, <1>10, RealizedTarget
<1> QED BY <1>3, <1>11, ExtendsInvariant

\* Sibling outputs are native, and name and insist on no more than the inputs
\* they share.
LEMMA SiblingsShare ==
  ASSUME ForeignInv, NEW q \in Analysed, info[q].package = q, info[q].entry \notin foreign,
         NEW v \in Siblings(q)
  PROVE  /\ v \in Analysed
         /\ info[v].foreignBuild \subseteq ForeignBuild(info[q].inputs)
         /\ info[v].checks \subseteq Checks(info[q].inputs)
<1>1. v \in Analysed /\ info[v].package = q
  BY DEF Siblings
<1>2. q # None
  BY NoneAssumption DEF Analysed
<1>3. TargetInv(v)
  BY <1>1 DEF ForeignInv
<1>4. info[v].entry \notin foreign
  BY <1>1, <1>2, <1>3 DEF TargetInv, Unsplit
<1> QED BY <1>1, <1>2, <1>3, <1>4 DEF TargetInv, FromInputs

\* So does a split output.
LEMMA SplitForeign ==
  ASSUME ForeignInv, NEW t \in Targets, NEW q \in Analysed, NEW e \in Entries,
         NEW runtime \in SUBSET Analysed, NEW tool \in SUBSET Analysed,
         NEW reference \in SUBSET Analysed, NEW mentioned, NEW links,
         SplitOutput(t, q, e, runtime, tool, reference, mentioned, links)
  PROVE  ForeignInv'
<1> DEFINE inputs == info[q].inputs
           tools == runtime \cup tool
           p == Metadata(e, q, inputs, runtime, tool, reference, FALSE)
<1>1. /\ e \notin Realized /\ t \in Upcoming
      /\ info[q].package = q /\ info[q].entry \notin foreign
      /\ tools \subseteq inputs \cup Siblings(q)
      /\ info' = [info EXCEPT ![t] = p]
      /\ Builds(e, mentioned, links)
      /\ foreign' = foreign
  BY DEF SplitOutput, Define
<1>2. bytes'[e] \subseteq Realized
  BY <1>1, BuildsTyped DEF ForeignInv, IInv
<1>3. Extends(t)
  <2>1. \A x \in Realized : bytes'[x] = bytes[x] /\ linked'[x] = linked[x]
    <3>1. Realized \subseteq Entries \ {e}
      BY <1>1 DEF Realized, ForeignInv, IInv, TypeOK, Analysed, Provider
    <3> QED BY <1>1, <3>1, BuildsTyped DEF ForeignInv, IInv
  <2>2. \E r : Grows(t, r)
    BY SplitOutputGrows DEF ForeignInv
  <2> QED BY <2>1, <2>2 DEF Extends
<1>4. info'[t] = p
  BY <1>1 DEF ForeignInv, IInv, TypeOK
<1>5. e \notin foreign' /\ foreign' \cap {e} = {}
  BY <1>1 DEF ForeignInv, IInv, ForeignRealized
<1>6. /\ p.entry = e /\ p.inputs = inputs /\ p.package = q
      /\ p.build = {e} \cup Build(inputs) /\ p.tool = {e} \cup Tool(tools)
      /\ p.checks = Checks(inputs) /\ p.foreignBuild = ForeignBuild(inputs)
  BY DEF Metadata
<1>7. inputs \in SUBSET Analysed /\ tools \in SUBSET Analysed
  BY OldRealized
<1>8. \A v \in tools : /\ info[v].foreignBuild \subseteq ForeignBuild(inputs)
                       /\ info[v].checks \subseteq Checks(inputs)
  <2> SUFFICES ASSUME NEW v \in tools
               PROVE  /\ info[v].foreignBuild \subseteq ForeignBuild(inputs)
                      /\ info[v].checks \subseteq Checks(inputs)
    OBVIOUS
  <2>1. CASE v \in inputs
    BY <2>1 DEF ForeignBuild, Checks
  <2>2. CASE v \in Siblings(q)
    BY <1>1, <2>2, SiblingsShare
  <2> QED BY <1>1, <2>1, <2>2
<1>9. info'[q].inputs = inputs
  BY <1>3, ExtendsGraph
<1> HIDE DEF inputs, tools, p
<1>10. /\ info'[t].entry = e /\ info'[t].inputs = inputs /\ info'[t].package = q
       /\ info'[t].build = {e} \cup Build(inputs) /\ info'[t].tool = {e} \cup Tool(tools)
       /\ info'[t].checks = Checks(inputs)
       /\ info'[t].foreignBuild = (foreign' \cap {e}) \cup ForeignBuild(inputs)
  BY <1>4, <1>5, <1>6
<1>11. q # None
  BY NoneAssumption DEF Analysed
<1>12. TargetInv(t)'
  BY <1>1, <1>2, <1>3, <1>5, <1>7, <1>8, <1>9, <1>10, <1>11, RealizedTarget
<1> QED BY <1>3, <1>12, ExtendsInvariant

-----------------------------------------------------------------------------
(* Another target for a realization that is there.                          *)

\* A wrapper adds one check, and the cut exchanges it for what is named.
LEMMA WrapperForeign ==
  ASSUME ForeignInv, NEW t \in Targets, NEW q \in Analysed, Extends(t), NEW scan,
         UNCHANGED <<bytes, linked, foreign>>,
         info'[t].entry = info[q].entry, info'[t].build = info[q].build,
         info'[t].tool = info[q].tool, info'[t].package = None,
         info'[t].checks = info[q].checks \cup {scan},
         scan.tree = info[q].entry,
         \/ /\ scan.kind = "cut" /\ scan.entries = info[q].foreignBuild
            /\ info'[t].foreignBuild = {}
         \/ info'[t].foreignBuild = info[q].foreignBuild
  PROVE  ForeignInv'
<1>1. /\ Analysed' = Analysed \cup {t} /\ \A v \in Analysed : info'[v] = info[v]
      /\ Realized \subseteq Realized' /\ published' = published
      /\ bytes' = bytes /\ linked' = linked /\ foreign' = foreign
  BY ExtendsGraph
<1>2. /\ TargetInv(q) /\ info[q].entry \in Realized
  BY OldRealized DEF ForeignInv
<1>3. PastOnly(t)'
  BY <1>1, <1>2 DEF PastOnly, TargetInv
<1>4. ChecksKnown(t)'
  BY <1>1, <1>2 DEF ChecksKnown, TargetInv
<1>5. Unsplit(t)' /\ FromInputs(t)'
  BY DEF Unsplit, FromInputs
<1>6. Accounted(t)'
  BY <1>1, <1>2 DEF Accounted, TargetInv
<1>7. ToolFollowed(t)'
  <2> SUFFICES ASSUME Verified(t)', NEW e \in info[q].tool, NEW f \in ({e} \cup bytes[e]) \cap foreign
               PROVE  Followed(t, f)'
    BY <1>1 DEF ToolFollowed
  <2>1. info[q].checks \subseteq info'[t].checks
    OBVIOUS
  <2>2. Verified(q)
    BY <2>1, VerifiedBefore
  <2>3. Followed(q, f)
    BY <1>2, <2>2 DEF TargetInv, ToolFollowed
  <2>4. CASE Gap(q, f)
    BY <2>1, <2>4, GapStays DEF Followed
  <2>5. CASE f \in info[q].foreignBuild /\ info'[t].foreignBuild = info[q].foreignBuild
    BY <2>5 DEF Followed
  <2>6. CASE /\ f \in info[q].foreignBuild
             /\ scan.kind = "cut" /\ scan.entries = info[q].foreignBuild
    <3>1. scan \in info'[t].checks /\ f \in scan.entries
      BY <2>6
    <3>2. Passes(scan)'
      BY <3>1 DEF Verified
    <3>3. (bytes[scan.tree] \ linked[scan.tree]) \cap scan.entries = {}
      BY <1>1, <2>6, <3>2 DEF Passes, InFiles
    <3>4. CASE f \in linked[scan.tree]
      BY <1>1, <2>6, <3>1, <3>4 DEF Followed, Gap, PastCut
    <3>5. CASE e = f \/ (e # scan.tree /\ f \in bytes[e])
      <4>1. q \in Analysed' /\ e \in info'[q].tool /\ info'[q].entry = scan.tree
        BY <1>1
      <4>2. e = f \/ (e # scan.tree /\ f \in bytes'[e])
        BY <1>1, <3>5
      <4>3. PastCut(t, f)'
        BY <2>6, <3>1, <4>1, <4>2 DEF PastCut
      <4> QED BY <4>3 DEF Followed, Gap
    <3> QED BY <3>1, <3>3, <3>4, <3>5
  <2> QED BY <2>3, <2>4, <2>5, <2>6 DEF Followed
<1>8. TargetInv(t)'
  BY <1>3, <1>4, <1>5, <1>6, <1>7 DEF TargetInv
<1> QED BY <1>8, ExtendsInvariant

\* A seed cut names nothing any more, and insists on a scan for what it named.
LEMMA SeedCutForeign ==
  ASSUME ForeignInv, NEW t \in Targets, NEW q \in Analysed, SeedCut(t, q)
  PROVE  ForeignInv'
<1> DEFINE scan == [kind |-> "cut", tree |-> info[q].entry, entries |-> info[q].foreignBuild]
           p == [info[q] EXCEPT !.foreignBuild = {}, !.checks = @ \cup {scan},
                                !.package = None]
<1>1. info' = [info EXCEPT ![t] = p] /\ UNCHANGED <<bytes, linked, foreign, published>>
  BY DEF SeedCut, Define
<1>2. info[q] \in Provider
  BY OldRealized
<1>3. Extends(t)
  BY <1>1, SeedCutGrows DEF Extends, ForeignInv
<1>4. info'[t] = p
  BY <1>1 DEF ForeignInv, IInv, TypeOK
<1>5. scan.kind = "cut" /\ scan.tree = info[q].entry /\ scan.entries = info[q].foreignBuild
  OBVIOUS
<1> HIDE DEF scan
<1>6. /\ p.entry = info[q].entry /\ p.build = info[q].build /\ p.tool = info[q].tool
      /\ p.package = None /\ p.checks = info[q].checks \cup {scan} /\ p.foreignBuild = {}
  BY <1>2 DEF Provider
<1> HIDE DEF p
<1> QED BY <1>1, <1>3, <1>4, <1>5, <1>6, WrapperForeign

\* A validated output names what its package does.
LEMMA ValidatedForeign ==
  ASSUME ForeignInv, NEW t \in Targets, NEW q \in Analysed, ValidatedOutput(t, q)
  PROVE  ForeignInv'
<1> DEFINE scan == [kind |-> "declared", tree |-> info[q].entry, entries |-> info[q].reference]
           p == [info[q] EXCEPT !.checks = @ \cup {scan}, !.package = None]
<1>1. info' = [info EXCEPT ![t] = p] /\ UNCHANGED <<bytes, linked, foreign, published>>
  BY DEF ValidatedOutput, Define
<1>2. info[q] \in Provider
  BY OldRealized
<1>3. Extends(t)
  BY <1>1, ValidatedOutputGrows DEF Extends, ForeignInv
<1>4. info'[t] = p
  BY <1>1 DEF ForeignInv, IInv, TypeOK
<1>5. scan.tree = info[q].entry
  OBVIOUS
<1> HIDE DEF scan
<1>6. /\ p.entry = info[q].entry /\ p.build = info[q].build /\ p.tool = info[q].tool
      /\ p.package = None /\ p.checks = info[q].checks \cup {scan}
      /\ p.foreignBuild = info[q].foreignBuild
  BY <1>2 DEF Provider
<1> HIDE DEF p
<1> QED BY <1>1, <1>3, <1>4, <1>5, <1>6, WrapperForeign

\* An import names nothing: what it brings comes from a published manifest.
LEMMA ImportForeign ==
  ASSUME ForeignInv, NEW t \in Targets, NEW m \in published,
         NEW runtime \in SUBSET Analysed, NEW tool \in SUBSET Analysed,
         NEW reference \in SUBSET Analysed,
         PinnedImport(t, m, runtime, tool, reference)
  PROVE  ForeignInv'
<1> DEFINE inputs == runtime \cup tool \cup reference
           r == Metadata(m.entry, t, inputs, runtime, tool, reference, FALSE)
           p == Imported(t, m, runtime, tool, reference)
<1>1. /\ p.tool = m.tool /\ info' = [info EXCEPT ![t] = p]
      /\ UNCHANGED <<bytes, linked, foreign, published>>
  BY DEF PinnedImport, Define
<1>2. Extends(t)
  BY <1>1, PinnedImportGrows DEF Extends, ForeignInv
<1>3. info'[t] = p
  BY <1>1 DEF ForeignInv, IInv, TypeOK
<1>4. PICK u \in Analysed : manifestOf(u) = m
  BY DEF ForeignInv, IInv, PublishedProduced
<1>5. /\ m.entry = info[u].entry /\ m.tool = info[u].tool /\ m.tool \subseteq Realized
      /\ m.entry \in Realized
  BY <1>4, OldRealized DEF manifestOf
<1>6. m.entry \in Entries /\ r \in Provider
  <2>1. m.entry \in Entries
    BY <1>5, OldRealized DEF Provider
  <2> QED BY <2>1, MetadataTyped DEF ForeignInv, IInv
<1>7. /\ p = [r EXCEPT !.build = r.tool, !.foreignRuntime = {}, !.foreignBuild = {},
                       !.checks = {}, !.package = None]
      /\ r.entry = m.entry
  BY DEF Imported, Metadata
<1> HIDE DEF r, p
<1>8. /\ p.entry = m.entry /\ p.package = None /\ p.build = p.tool
      /\ p.checks = {} /\ p.foreignBuild = {}
  BY <1>6, <1>7 DEF Provider
<1>9. /\ info'[t].entry = info[u].entry /\ info'[t].package = None
      /\ info'[t].build = m.tool /\ info'[t].tool = m.tool /\ info'[t].checks = {}
  BY <1>1, <1>3, <1>5, <1>8
<1>10. /\ Realized \subseteq Realized' /\ published' = published
       /\ bytes' = bytes /\ foreign' = foreign
  BY <1>1, <1>2, ExtendsGraph
<1>11. PastOnly(t)'
  BY <1>5, <1>9, <1>10 DEF PastOnly, ForeignInv, TargetInv
<1>12. ChecksKnown(t)' /\ Unsplit(t)' /\ FromInputs(t)'
  BY <1>9 DEF ChecksKnown, Unsplit, FromInputs
<1>13. Accounted(t)'
  BY <1>9, <1>10 DEF Accounted
<1>14. ToolFollowed(t)'
  <2> SUFFICES ASSUME NEW e \in m.tool, NEW f \in {e} \cup bytes[e]
               PROVE  Followed(t, f)'
    BY <1>9, <1>10 DEF ToolFollowed
  <2>1. PastImport(f)'
    BY <1>10 DEF PastImport
  <2> QED BY <2>1 DEF Followed, Gap
<1>15. TargetInv(t)'
  BY <1>11, <1>12, <1>13, <1>14 DEF TargetInv
<1> QED BY <1>2, <1>15, ExtendsInvariant

\* A publication tells no target anything; there is one more import to blame.
LEMMA PublishForeign ==
  ASSUME ForeignInv, NEW t \in Analysed, Publish(t)
  PROVE  ForeignInv'
<1>1. /\ published \subseteq published' /\ info' = info /\ bytes' = bytes
      /\ linked' = linked /\ foreign' = foreign
  BY DEF Publish
<1>2. IInv'
  BY PublishInvariant DEF ForeignInv
<1>3. Analysed' = Analysed /\ Realized' = Realized
  BY <1>1 DEF Analysed, Realized
<1>4. ASSUME NEW u \in Analysed
      PROVE  TargetInv(u)'
  <2>1. TargetInv(u)
    BY DEF ForeignInv
  <2>2. PastOnly(u)' /\ ChecksKnown(u)' /\ Unsplit(u)'
    BY <1>1, <1>3, <2>1 DEF TargetInv, PastOnly, ChecksKnown, Unsplit
  <2>3. FromInputs(u)'
    BY <1>1, <1>3, <2>1 DEF TargetInv, FromInputs, ForeignBuild, Checks
  <2>4. Accounted(u)'
    BY <1>1, <2>1 DEF TargetInv, Accounted
  <2>5. ToolFollowed(u)'
    <3>1. Verified(u)' => Verified(u)
      BY <1>1 DEF Verified, Passes, InFiles
    <3>2. ASSUME NEW f, Followed(u, f)
          PROVE  Followed(u, f)'
      <4>1. PastCut(u, f) => PastCut(u, f)'
        BY <1>1, <1>3 DEF PastCut
      <4>2. PastImport(f) => PastImport(f)'
        BY <1>1 DEF PastImport
      <4>3. NamedOnly(f) => NamedOnly(f)'
        BY <1>1, <1>3 DEF NamedOnly, Visible, Tool
      <4> QED BY <1>1, <3>2, <4>1, <4>2, <4>3 DEF Followed, Gap
    <3> QED BY <1>1, <2>1, <3>1, <3>2 DEF TargetInv, ToolFollowed
  <2> QED BY <2>1, <2>2, <2>3, <2>4, <2>5 DEF TargetInv
<1> QED BY <1>2, <1>3, <1>4 DEF ForeignInv

-----------------------------------------------------------------------------
\* Every step keeps the invariant.
LEMMA NextForeign == ASSUME ForeignInv, Next PROVE ForeignInv'
<1>0. /\ Upcoming \subseteq Targets
      /\ \A role, r : In(role, r) \subseteq Analysed
  BY DEF Upcoming, In
<1>1. CASE \E t \in Upcoming, e \in Entries \ Realized, isForeign \in BOOLEAN :
             \E role \in Roles({"runtime", "tool", "reference", "build"}) :
             \E mentioned \in Mentions : \E links \in Links(mentioned) :
               Package(t, e, In(role, "runtime"), In(role, "tool"), In(role, "reference"),
                       In(role, "build"), isForeign, mentioned, links)
  BY <1>0, <1>1, PackageForeign
<1>2. CASE \E t \in Upcoming, q \in Analysed, e \in Entries \ Realized :
             \E role \in Roles({"runtime", "tool", "reference"}) :
             \E mentioned \in Mentions : \E links \in Links(mentioned) :
               SplitOutput(t, q, e, In(role, "runtime"), In(role, "tool"),
                           In(role, "reference"), mentioned, links)
  BY <1>0, <1>2, SplitForeign
<1>3. CASE \E t \in Upcoming, q \in Analysed : SeedCut(t, q) \/ ValidatedOutput(t, q)
  BY <1>0, <1>3, SeedCutForeign, ValidatedForeign
<1>4. CASE \E t \in Upcoming, m \in published, role \in Roles({"runtime", "tool", "reference"}) :
             PinnedImport(t, m, In(role, "runtime"), In(role, "tool"), In(role, "reference"))
  BY <1>0, <1>4, ImportForeign
<1>5. CASE \E t \in Analysed : Publish(t)
  BY <1>5, PublishForeign
<1> QED BY <1>1, <1>2, <1>3, <1>4, <1>5 DEF Next

\* What is known of foreign entries is an invariant of the graph.
THEOREM ForeignInvariance == Spec => []ForeignInv
<1>1. Init => ForeignInv
  <2> SUFFICES ASSUME Init PROVE ForeignInv
    OBVIOUS
  <2>1. Analysed = {}
    BY DEF Init, Analysed
  <2>2. TypeOK
    BY DEF Init, TypeOK
  <2>3. IInv
    BY <2>1, <2>2 DEF IInv, Init, ClosuresNested, ClosuresRealized, InputsAnalysed,
       ForeignRealized, ForeignRuntimeTracked, EntryDeterminesClosures, ReferencesClosed,
       PublishedProduced
  <2> QED BY <2>1, <2>3 DEF ForeignInv
<1>2. ForeignInv /\ [Next]_vars => ForeignInv'
  <2> SUFFICES ASSUME ForeignInv, [Next]_vars PROVE ForeignInv'
    OBVIOUS
  <2>1. CASE Next
    BY <2>1, NextForeign
  <2>2. CASE UNCHANGED vars
    <3>1. /\ info' = info /\ bytes' = bytes /\ linked' = linked /\ foreign' = foreign
          /\ published' = published
      BY <2>2 DEF vars
    <3>2. Analysed' = Analysed /\ Realized' = Realized
      BY <3>1 DEF Analysed, Realized
    <3>3. IInv'
      <4>1. \A u \in Analysed : manifestOf(u)' = manifestOf(u)
        BY <3>1 DEF manifestOf
      <4>2. TypeOK' /\ PublishedProduced'
        BY <3>1, <3>2, <4>1 DEF ForeignInv, IInv, TypeOK, PublishedProduced
      <4>3. ClosuresNested' /\ ClosuresRealized' /\ InputsAnalysed' /\ ForeignRealized'
        BY <3>1, <3>2 DEF ForeignInv, IInv, ClosuresNested, ClosuresRealized, InputsAnalysed,
           ForeignRealized
      <4>4. ForeignRuntimeTracked' /\ EntryDeterminesClosures' /\ ReferencesClosed'
        BY <3>1, <3>2, <4>1 DEF ForeignInv, IInv, ForeignRuntimeTracked,
           EntryDeterminesClosures, ReferencesClosed
      <4> QED BY <4>2, <4>3, <4>4 DEF IInv
    <3>4. ASSUME NEW u \in Analysed PROVE TargetInv(u)'
      <4>1. TargetInv(u)
        BY DEF ForeignInv
      <4>2. PastOnly(u)' /\ ChecksKnown(u)' /\ Unsplit(u)' /\ FromInputs(u)' /\ Accounted(u)'
        BY <3>1, <3>2, <4>1 DEF TargetInv, PastOnly, ChecksKnown, Unsplit, FromInputs,
           ForeignBuild, Checks, Accounted
      <4>3. \A f : Followed(u, f)' <=> Followed(u, f)
        BY <3>1, <3>2 DEF Followed, Gap, PastCut, PastImport, NamedOnly, Visible, Tool
      <4>4. Verified(u)' <=> Verified(u)
        BY <3>1 DEF Verified, Passes, InFiles
      <4>5. ToolFollowed(u)'
        BY <3>1, <4>1, <4>3, <4>4 DEF TargetInv, ToolFollowed
      <4> QED BY <4>1, <4>2, <4>5 DEF TargetInv
    <3> QED BY <3>2, <3>3, <3>4 DEF ForeignInv
  <2> QED BY <2>1, <2>2
<1> QED BY <1>1, <1>2, PTL DEF Spec

\* No foreign entry of a build closure is forgotten: the target names it, or
\* insists on a scan for it, or it came with a published object.
THEOREM ForeignBuildAlwaysAccounted == Spec => []ForeignBuildAccounted
<1>1. ForeignInv => ForeignBuildAccounted
  BY DEF ForeignInv, TargetInv, Accounted, ForeignBuildAccounted
<1> QED BY <1>1, ForeignInvariance, PTL

\* When the checks of a target pass, every foreign path its tree mentions is
\* named by the target, or came past the scan of a cut, or with an import, or by
\* the arguments of a recipe: there is no other way.
THEOREM BytesAlwaysTracked == Spec => []BytesTracked
<1>1. ForeignInv => BytesTracked
  <2> SUFFICES ASSUME ForeignInv, NEW t \in Analysed, Verified(t),
                      NEW f \in bytes[info[t].entry] \cap foreign
               PROVE  \/ f \in info[t].foreignBuild \/ PastCut(t, f)
                      \/ PastImport(f) \/ NamedOnly(f)
    BY DEF BytesTracked
  <2>1. info[t].entry \in info[t].tool /\ TargetInv(t)
    BY OldRealized DEF ForeignInv
  <2>2. Followed(t, f)
    BY <2>1 DEF TargetInv, ToolFollowed
  <2> QED BY <2>2 DEF Followed, Gap
<1> QED BY <1>1, ForeignInvariance, PTL
=============================================================================
