---------------------------- MODULE SplitOutputs ----------------------------
(* parse_split_outputs and copy_split_staged_prefix of build.rs: what make  *)
(* install left under the staged prefix is copied to the primary output,    *)
(* whole or only the selected paths, and the declared paths of every split  *)
(* output are taken from there; then excluded files are removed and links   *)
(* made. Each path is moved in one step, with its parents; an error leaves  *)
(* the rest undone.                                                         *)
EXTENDS Trees

CONSTANTS Splits,       \* names of declared split outputs, a set of numbers
          PathLists,    \* bound: the lists of paths an argument may give
          Installed,    \* bound: the trees make install may leave
          LinkPaths,    \* bound: the paths of links, none above another
          ExcludedNames \* bound: the sets of names an exclusion may match

ASSUME SplitsAssumption == Splits # {} /\ Splits \subseteq Nat \ {0}

\* What a link made here leads to; no installed node is such a link.
Made == {"store", "relative"}
ASSUME InstalledAssumption ==
  \A t \in Installed : FiniteTree(t) /\ IsDir(t, Root) /\ \A p \in DOMAIN t : t[p].data \notin Made
ASSUME PathsAssumption ==
  /\ PathLists \subseteq Seq(Path) /\ LinkPaths \subseteq Path \ {Root}
  /\ \A p, q \in LinkPaths : p # q => ~Under(p, q)

VARIABLES splitPaths,   \* split output -> the paths it declares, in order
          staged,       \* what was installed
          selected,     \* output_paths, or << >> for everything
          out,          \* output -> its tree
          moved,        \* split output -> how many of its paths were taken
          linked,       \* the split outputs whose reference links are made
          excluded,     \* the names of excluded files
          phase

splitVars == <<splitPaths, staged, selected, out, moved, linked, excluded, phase>>

Primary == 0
Undeclared == 1 + Max({0} \cup Splits)
Outputs == {Primary} \cup Splits

\* None is above or at another (validate_output_paths).
Disjoint(paths) ==
  \A i, j \in DOMAIN paths : i # j => ~Under(paths[i], paths[j])

\* The same across outputs (validate_split_paths).
SplitDisjoint(paths) ==
  \A s, r \in Splits : \A i \in DOMAIN paths[s], j \in DOMAIN paths[r] :
    <<s, i>> # <<r, j>> => ~Under(paths[s][i], paths[r][j])

SplitInit ==
  /\ splitPaths = [s \in Splits |-> << >>] /\ staged = Nothing /\ selected = << >>
  /\ out = [o \in Outputs |-> Nothing] /\ moved = [s \in Splits |-> 0]
  /\ linked = {} /\ excluded = {} /\ phase = "idle"

\* Every declared output has a prefix, and nothing is said of others.
ParseSplitOutputs(paths, prefixed) ==
  /\ phase = "idle"
  /\ IF /\ prefixed = Splits /\ paths[Undeclared] = << >>
        /\ SplitDisjoint(paths)
     THEN /\ splitPaths' = [s \in Splits |-> paths[s]]
          /\ phase' = "install"
     ELSE phase' = "refused" /\ UNCHANGED splitPaths
  /\ UNCHANGED <<staged, selected, out, moved, linked, excluded>>

\* make install.
Install(tree) ==
  /\ phase = "install"
  /\ staged' = tree /\ phase' = "copy"
  /\ UNCHANGED <<splitPaths, selected, out, moved, linked, excluded>>

CopyWhole ==
  /\ phase = "copy"
  /\ out' = [out EXCEPT ![Primary] = staged]
  /\ phase' = "split"
  /\ UNCHANGED <<splitPaths, staged, selected, moved, linked, excluded>>

\* The tree d with what t has at or under the paths, and their parents, copied in.
WithPaths(d, t, paths) ==
  Over([x \in {y \in DOMAIN t : \E p \in paths : Under(p, y)} |-> t[x]],
       Over(d, [q \in UNION {Ancestors(p) : p \in paths} |-> Dir]))

\* The paths are apart: their order makes no difference.
CopySelected(paths) ==
  /\ phase = "copy"
  /\ selected' = paths
  /\ IF Disjoint(paths) /\ ToSet(paths) \subseteq DOMAIN staged
     THEN /\ out' = [out EXCEPT ![Primary] = WithPaths([q \in {Root} |-> Dir], staged, ToSet(paths))]
          /\ phase' = "split"
     ELSE phase' = "refused" /\ UNCHANGED out
  /\ UNCHANGED <<splitPaths, staged, moved, linked, excluded>>

\* The split outputs are served in order, and the paths of each in order.
Serving(s) == phase = "split" /\ s \notin linked /\ \A r \in Splits : r < s => r \in linked
Next1(s) == Serving(s) /\ moved[s] < Len(splitPaths[s])

\* Mutant: what was taken stays in the primary output too.
TakeKept(s) ==
  LET p == splitPaths[s][moved[s] + 1]
      from == IF p \in DOMAIN out[Primary] THEN out[Primary] ELSE staged
  IN  /\ Next1(s) /\ p \in DOMAIN from
      /\ out' = [out EXCEPT ![s] = WithPaths(@, from, {p})]
      /\ moved' = [moved EXCEPT ![s] = @ + 1]
      /\ UNCHANGED <<splitPaths, staged, selected, linked, excluded, phase>>

\* A path comes from the primary output, which then loses it, or else from
\* what was staged.
TakeFromPrimary(s) ==
  LET p == splitPaths[s][moved[s] + 1]
  IN  /\ Next1(s) /\ p \in DOMAIN out[Primary]
      /\ out' = [out EXCEPT ![s] = WithPaths(@, out[Primary], {p}), ![Primary] = Without(@, p)]
      /\ moved' = [moved EXCEPT ![s] = @ + 1]
      /\ UNCHANGED <<splitPaths, staged, selected, linked, excluded, phase>>

TakeFromStaged(s) ==
  LET p == splitPaths[s][moved[s] + 1]
  IN  /\ Next1(s) /\ p \notin DOMAIN out[Primary] /\ p \in DOMAIN staged
      /\ out' = [out EXCEPT ![s] = WithPaths(@, staged, {p})]
      /\ moved' = [moved EXCEPT ![s] = @ + 1]
      /\ UNCHANGED <<splitPaths, staged, selected, linked, excluded, phase>>

MissingSplitPath(s) ==
  /\ Next1(s)
  /\ splitPaths[s][moved[s] + 1] \notin DOMAIN out[Primary] \cup DOMAIN staged
  /\ phase' = "refused"
  /\ UNCHANGED <<splitPaths, staged, selected, out, moved, linked, excluded>>

\* d with links at the paths, and their parents; nothing may be at a path, and
\* no file above it.
Linkable(d, p) == p \notin DOMAIN d /\ \A q \in Ancestors(p) \cap DOMAIN d : IsDir(d, q)
WithLinks(d, links, target) ==
  Over([p \in links |-> Node("link", target, FALSE)],
       Over(d, [q \in {Root} \cup UNION {Ancestors(p) : p \in links} |-> Dir]))

\* create_absolute_reference_symlinks: links into other outputs, once the
\* paths of s are taken. After the last split output all are made writable.
LinkReferences(s, links) ==
  /\ Serving(s) /\ moved[s] = Len(splitPaths[s])
  /\ IF \A p \in links : Linkable(out[s], p)
     THEN /\ out' = [out EXCEPT ![s] = WithLinks(@, links, "store")]
          /\ linked' = linked \cup {s}
          /\ phase' = IF linked' = Splits THEN "placed" ELSE phase
     ELSE phase' = "refused" /\ UNCHANGED <<out, linked>>
  /\ UNCHANGED <<splitPaths, staged, selected, moved, excluded>>

\* exclude_file_suffixes, on every output: files and links go, directories stay.
ExcludeFileSuffixes(names) ==
  /\ phase = "placed"
  /\ out' = [o \in Outputs |-> [p \in {q \in DOMAIN out[o] : IsDir(out[o], q) \/ Name(q) \notin names} |-> out[o][p]]]
  /\ excluded' = names /\ phase' = "trimmed"
  /\ UNCHANGED <<splitPaths, staged, selected, moved, linked>>

\* create_symlinks, in the primary output only.
CreateSymlink(p) ==
  /\ phase = "trimmed"
  /\ IF Linkable(out[Primary], p)
     THEN out' = [out EXCEPT ![Primary] = WithLinks(@, {p}, "relative")] /\ phase' = "linked"
     ELSE phase' = "refused" /\ UNCHANGED out
  /\ UNCHANGED <<splitPaths, staged, selected, moved, linked, excluded>>

SplitNext ==
  \/ /\ phase = "idle"
     /\ \E paths \in [Splits \cup {Undeclared} -> PathLists], prefixed \in SUBSET (Splits \cup {Undeclared}) :
          ParseSplitOutputs(paths, prefixed)
  \/ phase = "install" /\ \E tree \in Installed : Install(tree)
  \/ CopyWhole
  \/ \E paths \in PathLists \ {<< >>} : CopySelected(paths)
  \/ \E s \in Splits :
       \/ TakeFromPrimary(s) \/ TakeFromStaged(s) \/ MissingSplitPath(s)
       \/ \E links \in SUBSET LinkPaths : LinkReferences(s, links)
  \/ \E names \in ExcludedNames : ExcludeFileSuffixes(names)
  \/ \E p \in LinkPaths : CreateSymlink(p)

SplitSpec == SplitInit /\ [][SplitNext]_splitVars

-----------------------------------------------------------------------------
\* The output that declares p or a directory above it.
Owner(p) ==
  IF \E s \in Splits : \E d \in ToSet(splitPaths[s]) : Under(d, p)
  THEN CHOOSE s \in Splits : \E d \in ToSet(splitPaths[s]) : Under(d, p)
  ELSE Primary

IsSelected(p) == selected = << >> \/ \E d \in ToSet(selected) : Under(d, p)

\* Whether p belongs into an output at all: it was selected, or a split output
\* declares it. Of a declared directory that was selected in part, only that
\* part is there to be taken.
Kept(p) ==
  \/ IsSelected(p)
  \/ \E s \in Splits : \E d \in ToSet(splitPaths[s]) :
       Under(d, p) /\ ~ \E q \in ToSet(selected) : Under(d, q)

\* Whatever the order of the moves, once they are done every installed file
\* that was selected or declared, and not excluded, is in the output that
\* declares it, unchanged and under its own path, and in no other; no other
\* file is in any output, whatever links are made.
EachFileInItsOutput ==
  phase \in {"placed", "trimmed", "linked"} =>
    \A p \in DOMAIN staged, o \in Outputs :
      ~IsDir(staged, p) =>
        ((p \in DOMAIN out[o] /\ out[o][p] = staged[p])
           <=> (Kept(p) /\ o = Owner(p) /\ Name(p) \notin excluded))
=============================================================================
