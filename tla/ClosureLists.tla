---------------------------- MODULE ClosureLists ----------------------------
(* The lists of a provider in rules/pkgs.bzl, which PackageGraph has as     *)
(* sets: a closure is a list of entries, and parallel to it is a list of    *)
(* the artifacts that realize them. The runtime, tool and reference lists   *)
(* are made by the same functions from ever more inputs; this is the        *)
(* reference list. The last package analysed has split outputs, whose       *)
(* metadata is resolved in passes over their names.                         *)
EXTENDS Integers, Orders, SequencesExt

CONSTANTS Targets,      \* Buck targets, in the order of their analysis
          StoreEntries,      \* store entries, in the order of their names
          SplitEntries, \* split output -> its entry; outputs 1 .. n in order
          MaxInputs     \* bound: inputs of a target

ASSUME ListsAssumption ==
  /\ Targets \subseteq Nat /\ StoreEntries \subseteq Nat /\ MaxInputs \in Nat
  /\ SplitEntries \in Seq(Nat) /\ SplitEntries # << >> /\ IsInjective(SplitEntries)
  /\ ToSet(SplitEntries) \cap StoreEntries = {}

VARIABLES info,         \* target -> its provider, or None
          manifests,    \* what was exported: an entry and its references
          imported,       \* the last import: what it collected, pinned, and got
          split         \* resolution of split outputs: declarations, packages,
                        \* the pass, the output it is at, and the outcome

listVars == <<info, manifests, imported, split>>

None == [entry |-> -1]
Analysed == {t \in Targets : info[t] # None}
Upcoming == {t \in Targets : info[t] = None /\ \A u \in Targets : u < t => info[u] # None}
Unused == StoreEntries \ {info[t].entry : t \in Analysed}

\* Store outputs declared by different targets for one entry are different.
Artifact(t, e) == [target |-> t, entry |-> e]
Provider(e, output, closure, outputs) ==
  [entry |-> e, output |-> output, closure |-> closure, outputs |-> outputs]

Closures(deps) == [i \in DOMAIN deps |-> deps[i].closure]

AppendUnique(out, entries) ==
  FoldLeft(LAMBDA acc, e : IF e \in ToSet(acc) THEN acc ELSE Append(acc, e), out, entries)
CollectEntries(lists) == AppendUnique(<< >>, FlattenSeq(lists))
CollectClosure(e, lists) == AppendUnique(CollectEntries(lists), <<e>>)

\* zip stops with the shorter list.
Zipped(dep) ==
  [k \in 1 .. Min({Len(dep.closure), Len(dep.outputs)}) |-> <<dep.closure[k], dep.outputs[k]>>]

\* The first artifact of each entry among the inputs, in order.
FirstOutputs(deps) ==
  FoldLeft(LAMBDA acc, p : IF \E q \in ToSet(acc) : q[1] = p[1] THEN acc ELSE Append(acc, p),
           << >>, FlattenSeq([i \in DOMAIN deps |-> Zipped(deps[i])]))

\* Mutant: an output is taken for known when the artifact is, not the entry.
CollectStoreOutputsByArtifact(e, output, deps) ==
  AppendUnique(AppendUnique(<< >>, FlattenSeq([i \in DOMAIN deps |-> deps[i].outputs])), <<output>>)

CollectStoreOutputs(e, output, deps) ==
  LET pairs == FirstOutputs(deps)
      own == IF \E q \in ToSet(pairs) : q[1] = e THEN << >> ELSE <<output>>
  IN  [k \in DOMAIN pairs |-> pairs[k][2]] \o own

\* The canonical order is that of the names.
Canonical(entries) == InOrder(ToSet(entries))
\* The entries but e, in their order.
WithoutOwn(e, entries) ==
  LET kept == InOrder({k \in DOMAIN entries : entries[k] # e})
  IN  [k \in DOMAIN kept |-> entries[kept[k]]]

\* An import gives its own output for its own entry, also when an input
\* brings another.
StoreOutputsForEntries(entries, e, output, deps) ==
  LET pairs == ToSet(FirstOutputs(deps))
  IN  [k \in DOMAIN entries |->
         IF entries[k] = e THEN output
         ELSE IF \E q \in pairs : q[1] = entries[k]
         THEN (CHOOSE q \in pairs : q[1] = entries[k])[2] ELSE None]

Metadata(e, output, deps) ==
  Provider(e, output, CollectClosure(e, Closures(deps)), CollectStoreOutputs(e, output, deps))

Inputs == UNION {[1 .. n -> {info[t] : t \in Analysed}] : n \in 0 .. MaxInputs}

SplitNames == DOMAIN SplitEntries
PrimaryOutput == 0
UnknownOutput == Len(SplitEntries) + 1
Packages == {PrimaryOutput} \cup SplitNames

ListsInit ==
  /\ info = [t \in Targets |-> None]
  /\ manifests = {}
  /\ imported = [collected |-> {}, references |-> {}, accepted |-> TRUE]
  /\ split = [phase |-> "none"]

Define(t, provider) == t \in Upcoming /\ info' = [info EXCEPT ![t] = provider]

Package(t, e, deps) ==
  /\ e \in Unused
  /\ Define(t, Metadata(e, Artifact(t, e), deps))
  /\ UNCHANGED <<manifests, imported, split>>

\* pkgs_seed_cut and pkgs_validated_output hand the lists on as they are.
Wrap(t, p) ==
  /\ Define(t, info[p])
  /\ UNCHANGED <<manifests, imported, split>>

Export(t) ==
  /\ manifests' = manifests \cup
       {[entry |-> info[t].entry,
         references |-> WithoutOwn(info[t].entry, Canonical(CollectEntries(<<info[t].closure>>)))]}
  /\ UNCHANGED <<info, imported, split>>

\* Mutant: the references are compared in the order of the inputs.
PinnedImportUnsorted(t, m, deps) ==
  LET closure == CollectClosure(m.entry, Closures(deps))
      accepted == WithoutOwn(m.entry, closure) = m.references
      output == Artifact(t, m.entry)
  IN  /\ t \in Upcoming
      /\ info' = IF accepted
                 THEN [info EXCEPT ![t] = Provider(m.entry, output, closure,
                                            StoreOutputsForEntries(closure, m.entry, output, deps))]
                 ELSE info
      /\ imported' = [collected |-> (UNION {ToSet(deps[i].closure) : i \in DOMAIN deps}) \ {m.entry},
                    references |-> ToSet(m.references), accepted |-> accepted]
      /\ UNCHANGED <<manifests, split>>

\* An import is analysed only if its inputs have the references it pins.
PinnedImport(t, m, deps) ==
  LET closure == Canonical(CollectClosure(m.entry, Closures(deps)))
      accepted == WithoutOwn(m.entry, closure) = m.references
      output == Artifact(t, m.entry)
  IN  /\ t \in Upcoming
      /\ info' = IF accepted
                 THEN [info EXCEPT ![t] = Provider(m.entry, output, closure,
                                            StoreOutputsForEntries(closure, m.entry, output, deps))]
                 ELSE info
      /\ imported' = [collected |-> (UNION {ToSet(deps[i].closure) : i \in DOMAIN deps}) \ {m.entry},
                    references |-> ToSet(m.references), accepted |-> accepted]
      /\ UNCHANGED <<manifests, split>>

-----------------------------------------------------------------------------
\* _split_output_metadata of the target analysed last: each output declares
\* other outputs it refers to. Declarations for an unknown output are refused.
BeginSplit(t, input, declared) ==
  /\ split' = [phase |-> IF UnknownOutput \in DOMAIN declared THEN "failed" ELSE "passes",
               input |-> input, declared |-> declared, pass |-> 1, at |-> 1,
               packages |-> [o \in Packages |-> IF o = PrimaryOutput THEN info[t] ELSE None]]
  /\ UNCHANGED <<info, manifests, imported>>

Declared == IF split.at \in DOMAIN split.declared THEN split.declared[split.at] ELSE {}

\* Mutant: one pass fewer than outputs.
AdvanceShort(s) ==
  IF s.at < Len(SplitEntries) THEN [s EXCEPT !.at = @ + 1]
  ELSE IF s.pass + 1 < Len(SplitEntries) THEN [s EXCEPT !.at = 1, !.pass = @ + 1]
  ELSE [s EXCEPT !.phase = IF \E o \in SplitNames : s.packages[o] = None THEN "failed" ELSE "resolved"]

\* The next output, or the next pass: as many as there are outputs.
Advance(s) ==
  IF s.at < Len(SplitEntries) THEN [s EXCEPT !.at = @ + 1]
  ELSE IF s.pass < Len(SplitEntries) THEN [s EXCEPT !.at = 1, !.pass = @ + 1]
  ELSE [s EXCEPT !.phase = IF \E o \in SplitNames : s.packages[o] = None THEN "failed" ELSE "resolved"]

SkipResolved ==
  /\ split.phase = "passes" /\ split.packages[split.at] # None
  /\ split' = Advance(split)
  /\ UNCHANGED <<info, manifests, imported>>

UnknownDependency ==
  /\ split.phase = "passes" /\ split.packages[split.at] = None
  /\ UnknownOutput \in Declared
  /\ split' = [split EXCEPT !.phase = "failed"]
  /\ UNCHANGED <<info, manifests, imported>>

Postpone ==
  /\ split.phase = "passes" /\ split.packages[split.at] = None
  /\ UnknownOutput \notin Declared
  /\ \E o \in Declared : split.packages[o] = None
  /\ split' = Advance(split)
  /\ UNCHANGED <<info, manifests, imported>>

Resolve ==
  LET s == split.at
      e == SplitEntries[s]
      siblings == InOrder(Declared)
      deps == split.input \o [i \in DOMAIN siblings |-> split.packages[siblings[i]]]
  IN  /\ split.phase = "passes" /\ split.packages[s] = None
      /\ \A o \in Declared : o # UnknownOutput /\ split.packages[o] # None
      /\ split' = Advance([split EXCEPT !.packages[s] = Metadata(e, Artifact("split", e), deps)])
      /\ UNCHANGED <<info, manifests, imported>>

\* Bound: outputs are split off a package with one input, and nothing else.
Declarations ==
  LET names == SUBSET ({PrimaryOutput, UnknownOutput} \cup SplitNames)
  IN  [SplitNames -> names] \cup {[o \in {UnknownOutput} |-> {}]}
SplitInput(t) ==
  /\ manifests = {} /\ Analysed = {t - 1, t}
  /\ info[t].closure = <<info[t - 1].entry, info[t].entry>>
  /\ \A e \in Unused : info[t - 1].entry < info[t].entry /\ info[t].entry < e

ListsNext ==
  \/ /\ split.phase = "none"
     /\ \/ \E t \in Upcoming, deps \in Inputs :
             \/ \E e \in StoreEntries : Package(t, e, deps)
             \/ \E m \in manifests : PinnedImport(t, m, deps)
        \/ \E t \in Upcoming, p \in Analysed : Wrap(t, p)
        \/ \E t \in Analysed : Export(t)
        \/ \E t \in Analysed :
             SplitInput(t) /\ \E declared \in Declarations : BeginSplit(t, <<info[t - 1]>>, declared)
  \/ SkipResolved \/ UnknownDependency \/ Postpone \/ Resolve

ListsSpec == ListsInit /\ [][ListsNext]_listVars

-----------------------------------------------------------------------------
Parallel(provider) ==
  LET closure == provider.closure IN
  /\ IsInjective(closure)
  /\ Len(provider.outputs) = Len(closure)
  /\ \A k \in DOMAIN closure :
       /\ provider.outputs[k].entry = closure[k]
       /\ closure[k] = provider.entry => provider.outputs[k] = provider.output

\* Whatever rules a provider went through, and in whatever order lists were
\* collected, deduplicated and sorted, the k-th artifact realizes the k-th
\* entry, and its own entry is realized by its own output. Rules that zip the
\* lists depend on it.
ListsParallel ==
  /\ \A t \in Analysed : Parallel(info[t])
  /\ split.phase # "none" => \A o \in Packages : split.packages[o] # None => Parallel(split.packages[o])

\* Inputs are given in any order, and the pinned references are in that of
\* their names: an import is refused exactly if they differ as sets.
ImportVerdictExact == imported.accepted <=> imported.collected = imported.references

\* The declarations of split outputs lead nowhere unknown, and no outputs
\* wait for each other in a circle.
Resolvable ==
  /\ DOMAIN split.declared = SplitNames
  /\ \A s \in SplitNames : UnknownOutput \notin split.declared[s]
  /\ \A S \in (SUBSET SplitNames) \ {{}} : \E s \in S : split.declared[s] \cap S = {}

\* As many passes as there are outputs resolve every graph of split outputs
\* without a cycle, in whatever order the outputs are declared, and no other;
\* and the closure of an output holds its own entry and those of the outputs
\* it declares.
SplitResolutionExact ==
  /\ split.phase \in {"resolved", "failed"} => (split.phase = "resolved" <=> Resolvable)
  /\ split.phase = "resolved" =>
       \A s \in SplitNames :
         ToSet(split.packages[s].closure) =
           {SplitEntries[s]}
             \cup (UNION {ToSet(split.input[i].closure) : i \in DOMAIN split.input})
             \cup (UNION {ToSet(split.packages[o].closure) : o \in split.declared[s]})
=============================================================================
