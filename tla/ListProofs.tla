---------------------------- MODULE ListProofs ------------------------------
(* Proofs about the lists of manifests, of providers and of archives:       *)
(* ImportAgrees of ObjectManifest; ListsParallel, ImportVerdictExact and    *)
(* SplitResolutionExact of ClosureLists; PayloadLanguage of TreeArchive, for *)
(* lists, graphs, split outputs and trees of any size.                      *)
EXTENDS ObjectManifest, ClosureLists, TreeArchive, ListLemmas

\* sort and dedup keep the elements, leave exactly the ascending lists alone,
\* and make lists with the same elements equal.
LEMMA CanonicalLists ==
  ASSUME NEW list \in Seq(Nat)
  PROVE  /\ CanonicalStorePaths(list) \in Seq(Nat)
         /\ ToSet(CanonicalStorePaths(list)) = ToSet(list)
         /\ Ascending(CanonicalStorePaths(list))
         /\ CanonicalStorePaths(list) = list <=> Ascending(list)
<1> DEFINE S == ToSet(list)
<1>1. /\ InOrder(S) \in [1 .. Cardinality(S) -> S] /\ Cardinality(S) \in Nat
      /\ ToSet(InOrder(S)) = S
      /\ \A i, j \in 1 .. Cardinality(S) : i < j => InOrder(S)[i] < InOrder(S)[j]
  BY ElementsFinite, InOrderProperties
<1>2. S \in SUBSET Nat
  BY ElementsFinite
<1> HIDE DEF S
<1>3. InOrder(S) \in Seq(Nat)
  <2>1. InOrder(S) \in [1 .. Cardinality(S) -> Nat]
    BY <1>1, <1>2
  <2> QED BY <1>1, <2>1, SeqDef
<1>4. Ascending(InOrder(S))
  BY <1>1 DEF Ascending
<1>5. Ascending(list) => InOrder(S) = list
  BY OnlyInOrder DEF Ascending, S
<1> QED BY <1>1, <1>3, <1>4, <1>5 DEF CanonicalStorePaths, S

-----------------------------------------------------------------------------
\* The fields of a manifest as the tools write it or a reviewer may.
AManifest(m) ==
  /\ m.refs \in Seq(Nat) /\ m.runtime \in Seq(Nat) /\ m.tools \in Seq(Nat)
  /\ ToSet(m.refs) \subseteq Paths \cup {0}

ManifestInv ==
  /\ answer \in {"idle", "exported", "refused", "imported", "rejected"}
  /\ answer \in {"exported", "imported", "rejected"} => AManifest(manifest)
  /\ answer \in {"imported", "rejected"} =>
       /\ wanted.refs \in Seq(Nat) /\ wanted.runtime \in Seq(Nat) /\ wanted.tools \in Seq(Nat)
       /\ (answer = "imported") <=>
            /\ ValidManifest(manifest)
            /\ Expected(manifest, wanted.refs, wanted.runtime, wanted.tools, wanted.package)

\* Lists over store paths, or over them and the bad string.
LEMMA ListsAreSequences ==
  /\ Paths \in SUBSET Nat /\ 0 \notin Paths
  /\ \A list \in Lists(Paths \cup {0}) : list \in Seq(Nat) /\ ToSet(list) \subseteq Paths \cup {0}
  /\ \A list \in Lists(Paths) : list \in Seq(Nat) /\ ToSet(list) \subseteq Paths
<1>1. Paths \in SUBSET Nat /\ 0 \notin Paths
  BY OwnAssumption DEF Paths
<1>2. ASSUME NEW S \in SUBSET Nat, NEW list \in Lists(S)
      PROVE  list \in Seq(Nat) /\ ToSet(list) \subseteq S
  <2>1. PICK n \in 0 .. MaxList : list \in [1 .. n -> S]
    BY DEF Lists
  <2>2. n \in Nat
    BY OwnAssumption
  <2>3. list \in [1 .. n -> Nat]
    BY <2>1
  <2> QED BY <2>1, <2>2, <2>3, SeqDef DEF ToSet
<1> QED BY <1>1, <1>2

\* The invariant holds at the start.
LEMMA ManifestStart == ManifestInit => ManifestInv
BY DEF ManifestInit, ManifestInv

\* Every tool keeps it.
LEMMA ManifestStep ==
  ASSUME ManifestInv, ManifestNext
  PROVE  ManifestInv'
<1>1. CASE /\ answer = "idle"
           /\ \E refs \in Lists(Paths \cup {0}), runtime, tools \in Lists(Paths), id \in BOOLEAN :
                ExportStoreObject(refs, runtime, tools, id)
  <2>1. PICK refs \in Lists(Paths \cup {0}), runtime \in Lists(Paths), tools \in Lists(Paths), id \in BOOLEAN :
          ExportStoreObject(refs, runtime, tools, id)
    BY <1>1
  <2> DEFINE m == Exported(refs, runtime, tools, id)
  <2>2. AManifest(m)
    <3>1. refs \in Seq(Nat) /\ runtime \in Seq(Nat) /\ tools \in Seq(Nat) /\ ToSet(refs) \subseteq Paths \cup {0}
      BY ListsAreSequences
    <3>2. (IF tools = << >> THEN runtime ELSE tools) \in Seq(Nat)
      BY <3>1
    <3>3. /\ CanonicalStorePaths(refs) \in Seq(Nat) /\ CanonicalStorePaths(runtime) \in Seq(Nat)
          /\ CanonicalStorePaths(IF tools = << >> THEN runtime ELSE tools) \in Seq(Nat)
          /\ ToSet(CanonicalStorePaths(refs)) = ToSet(refs)
      BY <3>1, <3>2, CanonicalLists
    <3> QED BY <3>1, <3>3 DEF AManifest, Exported, Manifest
  <2> HIDE DEF m
  <2>3. answer' \in {"exported", "refused"} /\ (answer' = "exported" => manifest' = m)
    BY <2>1 DEF ExportStoreObject, m
  <2> QED BY <2>2, <2>3 DEF ManifestInv
<1>2. CASE /\ answer = "idle"
           /\ \E refs, runtime, tools \in Lists(Paths) :
                PinManifest(Manifest(refs, runtime, tools, TRUE, "package", FALSE))
  <2>1. PICK refs \in Lists(Paths), runtime \in Lists(Paths), tools \in Lists(Paths) :
          PinManifest(Manifest(refs, runtime, tools, TRUE, "package", FALSE))
    BY <1>2
  <2>2. AManifest(Manifest(refs, runtime, tools, TRUE, "package", FALSE))
    BY ListsAreSequences DEF AManifest, Manifest
  <2> QED BY <2>1, <2>2 DEF PinManifest, ManifestInv
<1>3. CASE \E valid \in BOOLEAN : AddCasManifest(valid)
  <2>1. /\ answer = "exported" /\ answer' = answer
        /\ manifest' = [manifest EXCEPT !.cas = TRUE]
    BY <1>3 DEF AddCasManifest
  <2>2. manifest'.refs = manifest.refs /\ manifest'.runtime = manifest.runtime /\ manifest'.tools = manifest.tools
    BY <2>1
  <2> QED BY <2>1, <2>2 DEF ManifestInv, AManifest
<1>4. CASE /\ answer = "exported"
           /\ \E refs, runtime, tools \in Lists(Paths), package \in {"package", "other"} :
                ImportStoreObject(refs, runtime, tools, package)
  <2>1. PICK refs \in Lists(Paths), runtime \in Lists(Paths), tools \in Lists(Paths), package \in {"package", "other"} :
          ImportStoreObject(refs, runtime, tools, package)
    BY <1>4
  <2>2. refs \in Seq(Nat) /\ runtime \in Seq(Nat) /\ tools \in Seq(Nat)
    BY ListsAreSequences
  <2>3. /\ wanted'.refs = refs /\ wanted'.runtime = runtime /\ wanted'.tools = tools
        /\ wanted'.package = package /\ manifest' = manifest
        /\ answer' = IF ValidManifest(manifest) /\ Expected(manifest, refs, runtime, tools, package)
                     THEN "imported" ELSE "rejected"
    BY <2>1 DEF ImportStoreObject, Manifest
  <2>4. /\ answer' \in {"imported", "rejected"}
        /\ (answer' = "imported") <=>
             ValidManifest(manifest') /\ Expected(manifest', wanted'.refs, wanted'.runtime, wanted'.tools, wanted'.package)
    BY <2>3
  <2>5. AManifest(manifest)'
    BY <1>4, <2>3 DEF ManifestInv
  <2> QED BY <2>2, <2>3, <2>4, <2>5 DEF ManifestInv, ValidManifest, Expected, EffectiveTools
<1> QED BY <1>1, <1>2, <1>3, <1>4 DEF ManifestNext

\* The invariant of the manifest holds throughout.
THEOREM ManifestInvariance == ManifestSpec => []ManifestInv
<1>1. ManifestInit => ManifestInv
  BY ManifestStart
<1>2. ManifestInv /\ [ManifestNext]_manifestVars => ManifestInv'
  <2> SUFFICES ASSUME ManifestInv, [ManifestNext]_manifestVars PROVE ManifestInv'
    OBVIOUS
  <2>1. CASE UNCHANGED manifestVars
    BY <2>1 DEF manifestVars, ManifestInv, AManifest, ValidManifest, Expected, EffectiveTools
  <2> QED BY <2>1, ManifestStep
<1> QED BY <1>1, <1>2, PTL DEF ManifestSpec

\* The two checks of an import, list by list and in order, say what they are
\* meant to say of sets.
LEMMA ChecksMeanSets ==
  ASSUME NEW m, AManifest(m), NEW w,
         w.refs \in Seq(Nat), w.runtime \in Seq(Nat), w.tools \in Seq(Nat)
  PROVE  (ValidManifest(m) /\ Expected(m, w.refs, w.runtime, w.tools, w.package))
           <=> /\ Describes(m)
               /\ Ascending(m.refs) /\ Ascending(m.runtime) /\ Ascending(m.tools)
               /\ m.package = w.package
               /\ ToSet(m.refs) = ToSet(w.refs)
               /\ ToSet(m.runtime) = ToSet(w.runtime)
               /\ ToSet(EffectiveTools(m)) = ToSet(EffectiveTools(w))
<1> DEFINE e == EffectiveTools(m)
           v == EffectiveTools(w)
<1>1. e \in Seq(Nat) /\ v \in Seq(Nat) /\ v = IF w.tools = << >> THEN w.runtime ELSE w.tools
  BY DEF EffectiveTools, AManifest
<1>2. \A a, b \in Seq(Nat) :
        CanonicalStorePaths(a) = a => (a = CanonicalStorePaths(b) <=> ToSet(a) = ToSet(b))
  BY CanonicalLists DEF CanonicalStorePaths
<1>3. \A a \in Seq(Nat) : CanonicalStorePaths(a) = a <=> Ascending(a)
  BY CanonicalLists
<1>4. Ascending(m.tools) /\ Ascending(m.runtime) <=> Ascending(m.runtime) /\ Ascending(e)
  BY DEF EffectiveTools, Ascending
<1>5. 0 \notin ToSet(m.refs) /\ ToSet(m.refs) \subseteq Paths \cup {0} <=> ToSet(m.refs) \subseteq Paths
  BY ListsAreSequences DEF AManifest
<1>6. ASSUME ToSet(m.refs) \subseteq Paths, ToSet(m.runtime) \subseteq ToSet(m.refs) \cup {Own},
             ToSet(e) \subseteq ToSet(m.refs) \cup {Own}
      PROVE  0 \notin ToSet(m.runtime) \cup ToSet(m.tools)
  <2>1. 0 \notin ToSet(m.refs) \cup {Own}
    BY <1>6, ListsAreSequences, OwnAssumption
  <2>2. m.tools = << >> \/ m.tools = e
    BY DEF EffectiveTools
  <2>3. ToSet(<< >>) = {}
    BY DEF ToSet
  <2> QED BY <1>6, <2>1, <2>2, <2>3
<1>7. ValidManifest(m) <=> Describes(m) /\ Ascending(m.refs) /\ Ascending(m.runtime) /\ Ascending(e)
  BY <1>1, <1>3, <1>5, <1>6 DEF ValidManifest, Describes, AManifest
<1>8. ASSUME Ascending(m.refs), Ascending(m.runtime), Ascending(e)
      PROVE  Expected(m, w.refs, w.runtime, w.tools, w.package)
               <=> /\ m.package = w.package
                   /\ ToSet(m.refs) = ToSet(w.refs)
                   /\ ToSet(m.runtime) = ToSet(w.runtime)
                   /\ ToSet(e) = ToSet(v)
  BY <1>1, <1>2, <1>3, <1>8 DEF Expected, AManifest
<1> QED BY <1>4, <1>7, <1>8

\* An import takes place exactly if the manifest is a canonical one for the
\* object and says what the rule says, whatever the order and the repetitions
\* in which the rule, and the exporting one before it, gave their lists.
THEOREM ImportsAgree == ManifestSpec => []ImportAgrees
<1>1. ManifestInv => ImportAgrees
  <2> SUFFICES ASSUME ManifestInv, answer \in {"imported", "rejected"}
               PROVE  (answer = "imported") <=>
                        /\ Describes(manifest)
                        /\ Ascending(manifest.refs) /\ Ascending(manifest.runtime) /\ Ascending(manifest.tools)
                        /\ manifest.package = wanted.package
                        /\ ToSet(manifest.refs) = ToSet(wanted.refs)
                        /\ ToSet(manifest.runtime) = ToSet(wanted.runtime)
                        /\ ToSet(EffectiveTools(manifest)) = ToSet(EffectiveTools(wanted))
    BY DEF ImportAgrees, Ascending
  <2>1. AManifest(manifest)
    BY DEF ManifestInv
  <2> QED BY <2>1, ChecksMeanSets DEF ManifestInv
<1> QED BY <1>1, ManifestInvariance, PTL

-----------------------------------------------------------------------------
\* One step of _append_unique.
AddOnce(acc, e) == IF e \in ToSet(acc) THEN acc ELSE Append(acc, e)

\* It adds the element to those of a list, and repeats none.
LEMMA AddOnceKeeps ==
  ASSUME NEW B, NEW acc \in Seq(B), NEW e \in B
  PROVE  /\ AddOnce(acc, e) \in Seq(B)
         /\ ToSet(AddOnce(acc, e)) = ToSet(acc) \cup {e}
         /\ IsInjective(acc) => IsInjective(AddOnce(acc, e))
<1>1. CASE e \in ToSet(acc)
  BY <1>1 DEF AddOnce
<1>2. CASE e \notin ToSet(acc)
  <2> DEFINE n == Len(acc)
             s == Append(acc, e)
  <2>1. n \in Nat /\ DOMAIN acc = 1 .. n /\ s \in Seq(B) /\ DOMAIN s = 1 .. n + 1
    OBVIOUS
  <2>2. s[n + 1] = e /\ \A i \in 1 .. n : s[i] = acc[i]
    OBVIOUS
  <2>3. \A i \in 1 .. n + 1 : i = n + 1 \/ i \in 1 .. n
    BY <2>1
  <2>4. n + 1 \in 1 .. n + 1 /\ \A i \in 1 .. n : i \in 1 .. n + 1
    BY <2>1
  <2>5. AddOnce(acc, e) = s
    BY <1>2 DEF AddOnce
  <2> HIDE DEF s, n
  <2>6. ToSet(s) = {s[i] : i \in 1 .. n + 1} /\ ToSet(acc) = {acc[i] : i \in 1 .. n}
    BY <2>1 DEF ToSet
  <2>7. ToSet(s) = ToSet(acc) \cup {e}
    BY <2>2, <2>3, <2>4, <2>6
  <2>8. ASSUME IsInjective(acc) PROVE IsInjective(s)
    <3> SUFFICES ASSUME NEW i \in 1 .. n + 1, NEW j \in 1 .. n + 1, s[i] = s[j] PROVE i = j
      BY <2>1 DEF IsInjective
    <3>1. \A k \in 1 .. n : acc[k] # e
      BY <1>2, <2>6
    <3>2. \A k, l \in 1 .. n : acc[k] = acc[l] => k = l
      BY <2>1, <2>8 DEF IsInjective
    <3> QED BY <2>2, <2>3, <3>1, <3>2
  <2> QED BY <2>1, <2>5, <2>7, <2>8
<1> QED BY <1>1, <1>2

\* _append_unique, one entry after the other.
Appends(f, B, out, entries) ==
  /\ f \in [0 .. Len(entries) -> Seq(B)]
  /\ f[0] = out
  /\ \A k \in 1 .. Len(entries) : f[k] = AddOnce(f[k - 1], entries[k])
  /\ AppendUnique(out, entries) = f[Len(entries)]

\* _append_unique is a loop of such steps.
LEMMA AppendUniqueSteps ==
  ASSUME NEW B, NEW out \in Seq(B), NEW entries \in Seq(B)
  PROVE  \E f : Appends(f, B, out, entries)
<1> DEFINE n == Len(entries)
<1>1. n \in Nat /\ DOMAIN entries = 1 .. n /\ \A k \in 1 .. n : entries[k] \in B
  OBVIOUS
<1> DEFINE step == [p \in (1 .. n) \X Seq(B) |-> AddOnce(p[2], entries[p[1]])]
           iter == CHOOSE it : it = [s \in SUBSET DOMAIN entries |->
                     IF s = {} THEN out
                     ELSE IF entries[Max(s)] \in ToSet(it[s \ {Max(s)}]) THEN it[s \ {Max(s)}]
                          ELSE Append(it[s \ {Max(s)}], entries[Max(s)])]
<1>2. AppendUnique(out, entries) = iter[DOMAIN entries]
  BY SMT DEF AppendUnique, FoldLeft, MapThenFoldSet
<1>3. step \in [(1 .. n) \X Seq(B) -> Seq(B)]
  BY <1>1, AddOnceKeeps
<1>4. PICK g : IsFold(g, n, Seq(B), out, step)
  <2>1. n \in Nat /\ out \in Seq(B)
    BY <1>1
  <2> HIDE DEF step, n
  <2> QED BY <1>3, <2>1, FoldExists
<1>5. ASSUME NEW T \in SUBSET (1 .. n), T # {}
      PROVE  g[T] = AddOnce(g[T \ {Max(T)}], entries[Max(T)])
  <2>1. Max(T) \in 1 .. n
    <3>1. Max(T) \in T
      BY <1>1, <1>5, MaxOf
    <3> QED BY <3>1
  <2>2. g[T \ {Max(T)}] \in Seq(B)
    BY <1>4 DEF IsFold
  <2> QED BY <1>4, <1>5, <2>1, <2>2 DEF IsFold
<1>6. g = [s \in SUBSET DOMAIN entries |->
             IF s = {} THEN out
             ELSE IF entries[Max(s)] \in ToSet(g[s \ {Max(s)}]) THEN g[s \ {Max(s)}]
                  ELSE Append(g[s \ {Max(s)}], entries[Max(s)])]
  <2>1. \A T \in SUBSET (1 .. n) : T = {} => g[T] = out
    BY <1>4 DEF IsFold
  <2>2. g \in [SUBSET (1 .. n) -> Seq(B)]
    BY <1>4 DEF IsFold
  <2> HIDE DEF step, n
  <2> QED BY <1>1, <1>5, <2>1, <2>2 DEF AddOnce
<1>7. iter = [s \in SUBSET DOMAIN entries |->
                IF s = {} THEN out
                ELSE IF entries[Max(s)] \in ToSet(iter[s \ {Max(s)}]) THEN iter[s \ {Max(s)}]
                     ELSE Append(iter[s \ {Max(s)}], entries[Max(s)])]
  BY <1>6
<1>8. \A s \in SUBSET (1 .. n) :
        iter[s] = IF s = {} THEN out ELSE AddOnce(iter[s \ {Max(s)}], entries[Max(s)])
  <2> HIDE DEF iter, n
  <2> QED BY <1>1, <1>7 DEF AddOnce
<1> DEFINE f == [k \in 0 .. n |-> iter[1 .. k]]
<1>9. Folded(f, n, Seq(B), out, step)
  <2>1. iter[{}] = out
    BY <1>8
  <2>2. ASSUME NEW T \in SUBSET (1 .. n), T # {}, iter[T \ {Max(T)}] \in Seq(B)
        PROVE  iter[T] = step[<<Max(T), iter[T \ {Max(T)}]>>]
    <3>1. Max(T) \in 1 .. n
      <4>1. Max(T) \in T
        BY <1>1, <2>2, MaxOf
      <4> QED BY <4>1
    <3> HIDE DEF iter
    <3> QED BY <1>8, <2>2, <3>1
  <2>3. n \in Nat /\ out \in Seq(B)
    BY <1>1
  <2> HIDE DEF iter, step, n
  <2>4. Iterates(iter, n, Seq(B), out, step)
    BY <2>1, <2>2 DEF Iterates
  <2> QED BY <1>3, <2>3, <2>4, FoldSteps
<1> HIDE DEF f
<1>10. f \in [0 .. n -> Seq(B)] /\ f[0] = out
  BY <1>9 DEF Folded
<1>11. ASSUME NEW k \in 1 .. n PROVE f[k] = AddOnce(f[k - 1], entries[k])
  <2>1. f[k - 1] \in Seq(B)
    <3>1. k - 1 \in 0 .. n
      BY <1>1
    <3> QED BY <1>10, <3>1
  <2>2. f[k] = step[<<k, f[k - 1]>>]
    BY <1>9 DEF Folded
  <2> QED BY <2>1, <2>2
<1>12. AppendUnique(out, entries) = f[n]
  <2>1. n \in 0 .. n
    BY <1>1
  <2> HIDE DEF iter
  <2> QED BY <1>1, <1>2, <2>1 DEF f
<1> HIDE DEF iter, step
<1> QED BY <1>10, <1>11, <1>12 DEF Appends

\* _append_unique adds exactly what is missing, and nothing twice.
LEMMA AppendUniqueElements ==
  ASSUME NEW B, NEW out \in Seq(B), NEW entries \in Seq(B)
  PROVE  /\ AppendUnique(out, entries) \in Seq(B)
         /\ ToSet(AppendUnique(out, entries)) = ToSet(out) \cup ToSet(entries)
         /\ IsInjective(out) => IsInjective(AppendUnique(out, entries))
<1> DEFINE n == Len(entries)
<1>1. n \in Nat /\ DOMAIN entries = 1 .. n /\ \A k \in 1 .. n : entries[k] \in B
  OBVIOUS
<1>2. PICK f \in [0 .. n -> Seq(B)] :
        /\ f[0] = out
        /\ \A k \in 1 .. n : f[k] = AddOnce(f[k - 1], entries[k])
        /\ AppendUnique(out, entries) = f[n]
  <2>1. PICK f : Appends(f, B, out, entries)
    BY AppendUniqueSteps
  <2> QED BY <2>1 DEF Appends
<1> DEFINE Added(k) == {entries[i] : i \in 1 .. k}
           Grown(k) == /\ ToSet(f[k]) = ToSet(out) \cup Added(k)
                       /\ IsInjective(out) => IsInjective(f[k])
           S == {k \in Nat : k <= n => Grown(k)}
<1>3. 0 \in S
  <2>1. Added(0) = {}
    OBVIOUS
  <2> QED BY <1>2, <2>1
<1>4. ASSUME NEW k \in Nat, k \in S PROVE k + 1 \in S
  <2> HIDE DEF Grown
  <2> SUFFICES ASSUME k + 1 <= n PROVE Grown(k + 1)
    OBVIOUS
  <2>1. Grown(k)
    BY <1>1, <1>4
  <2>2. k + 1 \in 1 .. n /\ (k + 1) - 1 = k /\ k \in 0 .. n
    BY <1>1
  <2>3. f[k + 1] = AddOnce(f[k], entries[k + 1]) /\ f[k] \in Seq(B) /\ entries[k + 1] \in B
    <3>1. f[k] \in Seq(B)
      BY <1>2, <2>2
    <3>2. f[k + 1] = AddOnce(f[(k + 1) - 1], entries[k + 1])
      BY <1>2, <2>2
    <3> HIDE DEF n
    <3> QED BY <1>1, <2>2, <3>1, <3>2
  <2>4. Added(k + 1) = Added(k) \cup {entries[k + 1]}
    <3>1. \A i \in 1 .. k + 1 : i \in 1 .. k \/ i = k + 1
      OBVIOUS
    <3>2. k + 1 \in 1 .. k + 1 /\ \A i \in 1 .. k : i \in 1 .. k + 1
      OBVIOUS
    <3> QED BY <3>1, <3>2
  <2> HIDE DEF Added, n
  <2>5. /\ ToSet(f[k + 1]) = ToSet(f[k]) \cup {entries[k + 1]}
        /\ IsInjective(f[k]) => IsInjective(f[k + 1])
    <3> DEFINE acc == f[k]
               e == entries[k + 1]
    <3>1. acc \in Seq(B) /\ e \in B /\ f[k + 1] = AddOnce(acc, e)
      BY <2>3
    <3> HIDE DEF acc, e
    <3>2. /\ ToSet(AddOnce(acc, e)) = ToSet(acc) \cup {e}
          /\ IsInjective(acc) => IsInjective(AddOnce(acc, e))
      BY <3>1, AddOnceKeeps
    <3>3. /\ ToSet(f[k + 1]) = ToSet(acc) \cup {e}
          /\ IsInjective(acc) => IsInjective(f[k + 1])
      BY <3>1, <3>2
    <3> QED BY <3>3 DEF acc, e
  <2> QED BY <2>1, <2>4, <2>5 DEF Grown
<1>5. Grown(n)
  <2>1. Nat \subseteq S
    <3> HIDE DEF S
    <3> QED BY <1>3, <1>4, Induction
  <2> HIDE DEF Grown
  <2> QED BY <1>1, <2>1
<1>6. f[n] \in Seq(B) /\ ToSet(entries) = Added(n)
  <2>1. n \in 0 .. n
    BY <1>1
  <2> QED BY <1>1, <1>2, <2>1 DEF ToSet
<1> QED BY <1>2, <1>5, <1>6

-----------------------------------------------------------------------------
\* Artifacts as rules declare them, and the pairs that zip makes of the lists
\* of a provider.
Artifacts == {Artifact(t, e) : t \in Targets \cup {"split"}, e \in Nat}
Pairs == {<<o.entry, o>> : o \in Artifacts}
Firsts(s) == [k \in DOMAIN s |-> s[k][1]]

\* The first half of a pair is the entry of the second.
LEMMA PairsKnown ==
  \A p : p \in Pairs => p[1] \in Nat /\ p[2] \in Artifacts /\ p[2].entry = p[1]
BY DEF Pairs, Artifacts, Artifact

\* A provider whose lists are lists, and parallel.
Sound(p) ==
  /\ p.entry \in Nat
  /\ p.closure \in Seq(Nat)
  /\ p.outputs \in Seq(Artifacts)
  /\ Parallel(p)

\* Nothing is cut off when the lists of a sound provider are zipped.
LEMMA ZippedWhole ==
  ASSUME NEW p, Sound(p)
  PROVE  Zipped(p) \in Seq(Pairs) /\ Firsts(Zipped(p)) = p.closure
<1> DEFINE n == Len(p.closure)
<1>1. /\ n \in Nat /\ DOMAIN p.closure = 1 .. n /\ Len(p.outputs) = n
      /\ \A k \in 1 .. n : /\ p.closure[k] \in Nat /\ p.outputs[k] \in Artifacts
                           /\ p.outputs[k].entry = p.closure[k]
  BY DEF Sound, Parallel
<1>2. Min({n, n}) = n
  BY <1>1 DEF Min
<1> DEFINE z == [k \in 1 .. n |-> <<p.closure[k], p.outputs[k]>>]
<1>3. Zipped(p) = z
  BY <1>1, <1>2 DEF Zipped
<1>4. \A k \in 1 .. n : z[k] \in Pairs
  BY <1>1 DEF Pairs
<1>5. z \in Seq(Pairs)
  <2>1. z \in [1 .. n -> Pairs]
    BY <1>4
  <2> HIDE DEF z, n
  <2> QED BY <1>1, <2>1, SeqDef
<1>6. p.closure = [k \in 1 .. n |-> p.closure[k]]
  BY <1>1 DEF Sound
<1>7. Firsts(z) = [k \in 1 .. n |-> p.closure[k]]
  BY DEF Firsts
<1> QED BY <1>3, <1>5, <1>6, <1>7

\* What is known of the entries of a list of pairs.
LEMMA FirstsLists ==
  ASSUME NEW s \in Seq(Pairs)
  PROVE  /\ Firsts(s) \in Seq(Nat) /\ Len(Firsts(s)) = Len(s) /\ DOMAIN Firsts(s) = DOMAIN s
         /\ \A k \in DOMAIN s : Firsts(s)[k] = s[k][1]
         /\ ToSet(Firsts(s)) = {p[1] : p \in ToSet(s)}
<1> DEFINE n == Len(s)
           u == Firsts(s)
<1>1. n \in Nat /\ DOMAIN s = 1 .. n /\ \A k \in 1 .. n : s[k] \in Pairs
  OBVIOUS
<1>2. \A k \in 1 .. n : s[k][1] \in Nat
  BY <1>1, PairsKnown
<1>3. u \in [1 .. n -> Nat] /\ \A k \in 1 .. n : u[k] = s[k][1]
  BY <1>1, <1>2 DEF Firsts
<1> HIDE DEF u, n
<1>4. u \in Seq(Nat) /\ Len(u) = n /\ DOMAIN u = 1 .. n
  BY <1>1, <1>3, SeqDef
<1>5. ToSet(u) = {p[1] : p \in ToSet(s)}
  <2>1. ToSet(u) = {u[k] : k \in 1 .. n} /\ ToSet(s) = {s[k] : k \in 1 .. n}
    BY <1>1, <1>4 DEF ToSet
  <2> QED BY <1>3, <2>1
<1> QED BY <1>1, <1>3, <1>4, <1>5 DEF u, n

\* The entries of two lists of pairs, one after the other.
LEMMA FirstsOfJoin ==
  ASSUME NEW s \in Seq(Pairs), NEW t \in Seq(Pairs)
  PROVE  Firsts(s \o t) = Firsts(s) \o Firsts(t)
<1> DEFINE m == Len(s)
           n == Len(t)
           u == Firsts(s)
           v == Firsts(t)
<1>1. /\ m \in Nat /\ n \in Nat /\ s \o t \in Seq(Pairs) /\ Len(s \o t) = m + n
      /\ DOMAIN s = 1 .. m /\ DOMAIN t = 1 .. n
      /\ \A k \in 1 .. m + n : (s \o t)[k] = IF k <= m THEN s[k] ELSE t[k - m]
  OBVIOUS
<1>2. /\ u \in Seq(Nat) /\ v \in Seq(Nat) /\ Len(u) = m /\ Len(v) = n
      /\ \A k \in 1 .. m : u[k] = s[k][1]
      /\ \A k \in 1 .. n : v[k] = t[k][1]
  BY <1>1, FirstsLists
<1> HIDE DEF u, v
<1>3. u \o v \in Seq(Nat) /\ Len(u \o v) = m + n /\ DOMAIN (u \o v) = 1 .. m + n
  <2> HIDE DEF m, n
  <2>0. u \in Seq(Nat) /\ v \in Seq(Nat)
    BY <1>2
  <2>1. u \o v \in Seq(Nat) /\ Len(u \o v) = Len(u) + Len(v)
    BY <2>0
  <2>2. Len(u \o v) = m + n
    BY <1>2, <2>1
  <2> QED BY <2>1, <2>2
<1>4. \A k \in 1 .. m + n : (u \o v)[k] = (s \o t)[k][1]
  <2> TAKE k \in 1 .. m + n
  <2>1. (u \o v)[k] = IF k <= m THEN u[k] ELSE v[k - m]
    BY <1>1, <1>2
  <2>2. (k <= m => k \in 1 .. m) /\ (~(k <= m) => k - m \in 1 .. n)
    BY <1>1
  <2>3. (s \o t)[k] = IF k <= m THEN s[k] ELSE t[k - m]
    BY <1>1
  <2> HIDE DEF m, n
  <2> QED BY <1>2, <2>1, <2>2, <2>3
<1>5. /\ Firsts(s \o t) \in Seq(Nat) /\ Len(Firsts(s \o t)) = m + n
      /\ \A k \in 1 .. m + n : Firsts(s \o t)[k] = (s \o t)[k][1]
  <2> DEFINE j == s \o t
  <2>1. j \in Seq(Pairs) /\ Len(j) = m + n /\ DOMAIN j = 1 .. m + n
    BY <1>1
  <2> HIDE DEF j, m, n
  <2>2. /\ Firsts(j) \in Seq(Nat) /\ Len(Firsts(j)) = m + n
        /\ \A k \in 1 .. m + n : Firsts(j)[k] = j[k][1]
    BY <2>1, FirstsLists
  <2> QED BY <2>2 DEF j
<1> HIDE DEF m, n
<1> DEFINE w == Firsts(s \o t)
           x == u \o v
<1>6. w \in Seq(Nat) /\ x \in Seq(Nat) /\ Len(w) = Len(x) /\ \A k \in 1 .. Len(w) : w[k] = x[k]
  BY <1>3, <1>4, <1>5
<1> HIDE DEF w, x
<1>7. w = x
  <2>1. w = [k \in 1 .. Len(w) |-> w[k]] /\ x = [k \in 1 .. Len(x) |-> x[k]]
    BY <1>6
  <2> QED BY ONLY <1>6, <2>1
<1> QED BY <1>7 DEF w, x, u, v

\* The entries of joined lists of pairs.
LEMMA FirstsOfFlatten ==
  ASSUME NEW pairs \in Seq(Seq(Pairs)), NEW lists \in Seq(Seq(Nat)), Len(pairs) = Len(lists),
         \A i \in DOMAIN pairs : Firsts(pairs[i]) = lists[i]
  PROVE  Firsts(FlattenSeq(pairs)) = FlattenSeq(lists)
<1> DEFINE n == Len(pairs)
<1>1. n \in Nat /\ DOMAIN pairs = 1 .. n /\ \A k \in 1 .. n : pairs[k] \in Seq(Pairs)
  OBVIOUS
<1>2. PICK f \in [0 .. n -> Seq(Pairs)] :
        /\ f[0] = << >>
        /\ \A k \in 1 .. n : f[k] = f[k - 1] \o pairs[k]
        /\ FlattenSeq(pairs) = f[n]
  BY FlattenSteps
<1>3. PICK h \in [0 .. n -> Seq(Nat)] :
        /\ h[0] = << >>
        /\ \A k \in 1 .. n : h[k] = h[k - 1] \o lists[k]
        /\ FlattenSeq(lists) = h[n]
  <2>1. PICK h \in [0 .. Len(lists) -> Seq(Nat)] :
          /\ h[0] = << >>
          /\ \A k \in 1 .. Len(lists) : h[k] = h[k - 1] \o lists[k]
          /\ FlattenSeq(lists) = h[Len(lists)]
    BY FlattenSteps
  <2>2. Len(lists) = n
    OBVIOUS
  <2> HIDE DEF n
  <2> QED BY <2>1, <2>2
<1> DEFINE S == {k \in Nat : k <= n => Firsts(f[k]) = h[k]}
<1>4. 0 \in S
  <2>1. Firsts(<< >>) = << >>
    BY DEF Firsts
  <2> QED BY <1>2, <1>3, <2>1
<1>5. ASSUME NEW k \in Nat, k \in S PROVE k + 1 \in S
  <2> SUFFICES ASSUME k + 1 <= n PROVE Firsts(f[k + 1]) = h[k + 1]
    OBVIOUS
  <2>1. Firsts(f[k]) = h[k]
    BY <1>1, <1>5
  <2>2. k + 1 \in 1 .. n /\ (k + 1) - 1 = k /\ k \in 0 .. n
    BY <1>1
  <2>3. f[k] \in Seq(Pairs) /\ pairs[k + 1] \in Seq(Pairs)
    BY <1>1, <1>2, <2>2
  <2>4. f[k + 1] = f[(k + 1) - 1] \o pairs[k + 1] /\ h[k + 1] = h[(k + 1) - 1] \o lists[k + 1]
    BY <1>2, <1>3, <2>2
  <2>5. Firsts(pairs[k + 1]) = lists[k + 1]
    BY <1>1, <2>2
  <2> HIDE DEF n
  <2>6. f[k + 1] = f[k] \o pairs[k + 1] /\ h[k + 1] = h[k] \o lists[k + 1]
    BY <2>2, <2>4
  <2>7. Firsts(f[k] \o pairs[k + 1]) = Firsts(f[k]) \o Firsts(pairs[k + 1])
    BY <2>3, FirstsOfJoin
  <2> QED BY <2>1, <2>5, <2>6, <2>7
<1>6. Nat \subseteq S
  <2> HIDE DEF S
  <2> QED BY <1>4, <1>5, Induction
<1>7. Firsts(f[n]) = h[n]
  <2>1. n <= n
    BY <1>1
  <2>2. \A k \in S : k <= n => Firsts(f[k]) = h[k]
    OBVIOUS
  <2> HIDE DEF S, n
  <2> QED BY <1>1, <1>6, <2>1, <2>2
<1> QED BY <1>2, <1>3, <1>7

-----------------------------------------------------------------------------
\* One step of the search for the first artifact of each entry.
AddFirst(acc, p) == IF \E q \in ToSet(acc) : q[1] = p[1] THEN acc ELSE Append(acc, p)

\* One step of _collect_store_outputs, seen from the entries.
LEMMA AddFirstKeeps ==
  ASSUME NEW acc \in Seq(Pairs), NEW p \in Pairs
  PROVE  /\ AddFirst(acc, p) \in Seq(Pairs)
         /\ Firsts(AddFirst(acc, p)) = AddOnce(Firsts(acc), p[1])
<1>1. (\E q \in ToSet(acc) : q[1] = p[1]) <=> p[1] \in ToSet(Firsts(acc))
  BY FirstsLists
<1>2. Append(acc, p) \in Seq(Pairs)
  OBVIOUS
<1>3. Firsts(Append(acc, p)) = Append(Firsts(acc), p[1])
  <2> DEFINE one == <<p>>
  <2>1. one \in Seq(Pairs) /\ Append(acc, p) = acc \o one
    OBVIOUS
  <2>2. Firsts(one) = <<p[1]>>
    BY DEF Firsts
  <2>3. Firsts(acc) \in Seq(Nat) /\ p[1] \in Nat
    BY FirstsLists, PairsKnown
  <2> DEFINE u == Firsts(acc)
             e == p[1]
  <2> HIDE DEF one, u, e
  <2>4. Append(u, e) = u \o <<e>>
    BY <2>3 DEF u, e
  <2>5. Firsts(acc \o one) = Firsts(acc) \o Firsts(one)
    BY <2>1, FirstsOfJoin
  <2> QED BY <2>1, <2>2, <2>4, <2>5 DEF u, e
<1> QED BY <1>1, <1>2, <1>3 DEF AddFirst, AddOnce

PairsOf(deps) == FlattenSeq([i \in DOMAIN deps |-> Zipped(deps[i])])

\* The search, one pair after the other.
LEMMA FirstOutputsSteps ==
  ASSUME NEW deps, PairsOf(deps) \in Seq(Pairs)
  PROVE  \E f \in [0 .. Len(PairsOf(deps)) -> Seq(Pairs)] :
           /\ f[0] = << >>
           /\ \A k \in 1 .. Len(PairsOf(deps)) : f[k] = AddFirst(f[k - 1], PairsOf(deps)[k])
           /\ FirstOutputs(deps) = f[Len(PairsOf(deps))]
<1> DEFINE ps == FlattenSeq([i \in DOMAIN deps |-> Zipped(deps[i])])
           n == Len(ps)
<1>1. n \in Nat /\ DOMAIN ps = 1 .. n /\ \A k \in 1 .. n : ps[k] \in Pairs
  BY DEF PairsOf
<1> DEFINE step == [p \in (1 .. n) \X Seq(Pairs) |-> AddFirst(p[2], ps[p[1]])]
           iter == CHOOSE it : it = [s \in SUBSET DOMAIN ps |->
                     IF s = {} THEN << >>
                     ELSE IF \E q \in ToSet(it[s \ {Max(s)}]) : q[1] = ps[Max(s)][1] THEN it[s \ {Max(s)}]
                          ELSE Append(it[s \ {Max(s)}], ps[Max(s)])]
<1>2. FirstOutputs(deps) = iter[DOMAIN ps]
  <2> HIDE DEF ps
  <2> QED BY SMT DEF FirstOutputs, FoldLeft, MapThenFoldSet, ps
<1> HIDE DEF ps
<1>3. step \in [(1 .. n) \X Seq(Pairs) -> Seq(Pairs)]
  BY <1>1, AddFirstKeeps
<1>4. PICK g : IsFold(g, n, Seq(Pairs), << >>, step)
  <2>1. n \in Nat /\ << >> \in Seq(Pairs)
    BY <1>1
  <2> HIDE DEF step, n
  <2> QED BY <1>3, <2>1, FoldExists
<1>5. ASSUME NEW T \in SUBSET (1 .. n), T # {}
      PROVE  g[T] = AddFirst(g[T \ {Max(T)}], ps[Max(T)])
  <2>1. Max(T) \in 1 .. n
    <3>1. Max(T) \in T
      BY <1>1, <1>5, MaxOf
    <3> QED BY <3>1
  <2>2. g[T \ {Max(T)}] \in Seq(Pairs)
    BY <1>4 DEF IsFold
  <2> QED BY <1>4, <1>5, <2>1, <2>2 DEF IsFold
<1>6. g = [s \in SUBSET DOMAIN ps |->
             IF s = {} THEN << >>
             ELSE IF \E q \in ToSet(g[s \ {Max(s)}]) : q[1] = ps[Max(s)][1] THEN g[s \ {Max(s)}]
                  ELSE Append(g[s \ {Max(s)}], ps[Max(s)])]
  <2>1. \A T \in SUBSET (1 .. n) : T = {} => g[T] = << >>
    BY <1>4 DEF IsFold
  <2>2. g \in [SUBSET (1 .. n) -> Seq(Pairs)]
    BY <1>4 DEF IsFold
  <2> HIDE DEF step, n
  <2> QED BY <1>1, <1>5, <2>1, <2>2 DEF AddFirst
<1>7. iter = [s \in SUBSET DOMAIN ps |->
                IF s = {} THEN << >>
                ELSE IF \E q \in ToSet(iter[s \ {Max(s)}]) : q[1] = ps[Max(s)][1] THEN iter[s \ {Max(s)}]
                     ELSE Append(iter[s \ {Max(s)}], ps[Max(s)])]
  BY <1>6
<1>8. \A s \in SUBSET (1 .. n) :
        iter[s] = IF s = {} THEN << >> ELSE AddFirst(iter[s \ {Max(s)}], ps[Max(s)])
  <2> HIDE DEF iter, n
  <2> QED BY <1>1, <1>7 DEF AddFirst
<1> DEFINE f == [k \in 0 .. n |-> iter[1 .. k]]
<1>9. Folded(f, n, Seq(Pairs), << >>, step)
  <2>1. iter[{}] = << >>
    BY <1>8
  <2>2. ASSUME NEW T \in SUBSET (1 .. n), T # {}, iter[T \ {Max(T)}] \in Seq(Pairs)
        PROVE  iter[T] = step[<<Max(T), iter[T \ {Max(T)}]>>]
    <3>1. Max(T) \in 1 .. n
      <4>1. Max(T) \in T
        BY <1>1, <2>2, MaxOf
      <4> QED BY <4>1
    <3> HIDE DEF iter
    <3> QED BY <1>8, <2>2, <3>1
  <2>3. n \in Nat /\ << >> \in Seq(Pairs)
    BY <1>1
  <2> HIDE DEF iter, step, n
  <2>4. Iterates(iter, n, Seq(Pairs), << >>, step)
    BY <2>1, <2>2 DEF Iterates
  <2> QED BY <1>3, <2>3, <2>4, FoldSteps
<1> HIDE DEF f
<1>10. f \in [0 .. n -> Seq(Pairs)] /\ f[0] = << >>
  BY <1>9 DEF Folded
<1>11. ASSUME NEW k \in 1 .. n PROVE f[k] = AddFirst(f[k - 1], ps[k])
  <2>1. f[k - 1] \in Seq(Pairs)
    <3>1. k - 1 \in 0 .. n
      BY <1>1
    <3> QED BY <1>10, <3>1
  <2>2. f[k] = step[<<k, f[k - 1]>>]
    BY <1>9 DEF Folded
  <2> QED BY <2>1, <2>2
<1>12. FirstOutputs(deps) = f[n]
  <2>1. n \in 0 .. n
    BY <1>1
  <2> HIDE DEF iter
  <2> QED BY <1>1, <1>2, <2>1 DEF f
<1> HIDE DEF iter, step
<1> QED BY <1>10, <1>11, <1>12 DEF PairsOf, ps

\* A list of sound providers.
SoundList(deps) == deps \in Seq({deps[i] : i \in DOMAIN deps}) /\ \A i \in DOMAIN deps : Sound(deps[i])

Collected(deps) == UNION {ToSet(deps[i].closure) : i \in DOMAIN deps}

\* The entries of the first artifacts are those that are collected, in the
\* same order.
LEMMA FirstOutputsParallel ==
  ASSUME NEW deps, SoundList(deps)
  PROVE  /\ FirstOutputs(deps) \in Seq(Pairs)
         /\ Firsts(FirstOutputs(deps)) = CollectEntries(Closures(deps))
         /\ CollectEntries(Closures(deps)) \in Seq(Nat)
         /\ ToSet(CollectEntries(Closures(deps))) = Collected(deps)
         /\ IsInjective(CollectEntries(Closures(deps)))
<1> DEFINE m == Len(deps)
           pairs == [i \in DOMAIN deps |-> Zipped(deps[i])]
           lists == Closures(deps)
<1>1. m \in Nat /\ DOMAIN deps = 1 .. m
  BY DEF SoundList
<1>2. /\ pairs \in Seq(Seq(Pairs)) /\ lists \in Seq(Seq(Nat))
      /\ Len(pairs) = m /\ Len(lists) = m /\ DOMAIN pairs = 1 .. m /\ DOMAIN lists = 1 .. m
      /\ \A i \in 1 .. m : Firsts(pairs[i]) = lists[i] /\ lists[i] = deps[i].closure
  <2>1. \A i \in 1 .. m : /\ Zipped(deps[i]) \in Seq(Pairs) /\ deps[i].closure \in Seq(Nat)
                          /\ Firsts(Zipped(deps[i])) = deps[i].closure
    BY <1>1, ZippedWhole DEF SoundList, Sound
  <2>2. pairs \in [1 .. m -> Seq(Pairs)] /\ lists \in [1 .. m -> Seq(Nat)]
    BY <1>1, <2>1 DEF Closures
  <2>3. \A i \in 1 .. m : Firsts(pairs[i]) = lists[i] /\ lists[i] = deps[i].closure
    BY <1>1, <2>1 DEF Closures
  <2> HIDE DEF pairs, lists, m
  <2>4. pairs \in Seq(Seq(Pairs)) /\ lists \in Seq(Seq(Nat))
    BY <1>1, <2>2, SeqDef
  <2> QED BY <1>1, <2>2, <2>3, <2>4
<1> HIDE DEF pairs, lists, m
<1> DEFINE ps == FlattenSeq(pairs)
           cs == FlattenSeq(lists)
           n == Len(ps)
<1>3. ps \in Seq(Pairs) /\ Firsts(ps) = cs /\ cs \in Seq(Nat) /\ ToSet(cs) = Collected(deps)
  <2>1. ps \in Seq(Pairs)
    BY <1>2, FlattenElements
  <2>2. cs \in Seq(Nat) /\ ToSet(cs) = UNION {ToSet(lists[i]) : i \in DOMAIN lists}
    BY <1>2, FlattenElements
  <2>3. Firsts(ps) = cs
    BY <1>2, FirstsOfFlatten
  <2>4. UNION {ToSet(lists[i]) : i \in DOMAIN lists} = Collected(deps)
    BY <1>1, <1>2 DEF Collected
  <2> QED BY <2>1, <2>2, <2>3, <2>4
<1> HIDE DEF ps, cs
<1>4. PairsOf(deps) = ps
  BY DEF PairsOf, ps, pairs
<1>5. PICK f \in [0 .. n -> Seq(Pairs)] :
        /\ f[0] = << >>
        /\ \A k \in 1 .. n : f[k] = AddFirst(f[k - 1], ps[k])
        /\ FirstOutputs(deps) = f[n]
  BY <1>3, <1>4, FirstOutputsSteps
<1>6. Len(cs) = n /\ n \in Nat /\ DOMAIN ps = 1 .. n /\ \A k \in 1 .. n : ps[k] \in Pairs /\ cs[k] = ps[k][1]
  BY <1>3, FirstsLists
<1>7. PICK h \in [0 .. n -> Seq(Nat)] :
        /\ h[0] = << >>
        /\ \A k \in 1 .. n : h[k] = AddOnce(h[k - 1], cs[k])
        /\ AppendUnique(<< >>, cs) = h[n]
  <2>1. PICK h : Appends(h, Nat, << >>, cs)
    <3> DEFINE none == << >>
    <3>1. none \in Seq(Nat) /\ cs \in Seq(Nat)
      BY <1>3
    <3> HIDE DEF none
    <3>2. \E h : Appends(h, Nat, none, cs)
      BY <3>1, AppendUniqueSteps
    <3> QED BY <3>2 DEF none
  <2> HIDE DEF n
  <2> QED BY <1>6, <2>1 DEF Appends
<1> HIDE DEF n
<1> DEFINE S == {k \in Nat : k <= n => Firsts(f[k]) = h[k]}
<1>8. 0 \in S
  <2>1. Firsts(<< >>) = << >>
    BY DEF Firsts
  <2> QED BY <1>5, <1>7, <2>1
<1>9. ASSUME NEW k \in Nat, k \in S PROVE k + 1 \in S
  <2> SUFFICES ASSUME k + 1 <= n PROVE Firsts(f[k + 1]) = h[k + 1]
    OBVIOUS
  <2>1. Firsts(f[k]) = h[k]
    BY <1>6, <1>9
  <2>2. k + 1 \in 1 .. n /\ (k + 1) - 1 = k /\ k \in 0 .. n
    BY <1>6
  <2>3. f[k] \in Seq(Pairs) /\ ps[k + 1] \in Pairs /\ cs[k + 1] = ps[k + 1][1]
    BY <1>5, <1>6, <2>2
  <2>4. f[k + 1] = AddFirst(f[k], ps[k + 1]) /\ h[k + 1] = AddOnce(h[k], cs[k + 1])
    BY <1>5, <1>7, <2>2
  <2>5. Firsts(AddFirst(f[k], ps[k + 1])) = AddOnce(Firsts(f[k]), ps[k + 1][1])
    BY <2>3, AddFirstKeeps
  <2> QED BY <2>1, <2>3, <2>4, <2>5
<1>10. Firsts(f[n]) = h[n]
  <2>1. Nat \subseteq S
    <3> HIDE DEF S
    <3> QED BY <1>8, <1>9, Induction
  <2>2. n <= n
    BY <1>6
  <2> QED BY <1>6, <2>1, <2>2
<1>11. CollectEntries(Closures(deps)) = AppendUnique(<< >>, cs)
  BY DEF CollectEntries, cs, lists
<1>12. FirstOutputs(deps) \in Seq(Pairs)
  <2>1. n \in 0 .. n
    BY <1>6
  <2> QED BY <1>5, <2>1
<1>13. /\ AppendUnique(<< >>, cs) \in Seq(Nat)
       /\ ToSet(AppendUnique(<< >>, cs)) = ToSet(cs)
       /\ IsInjective(AppendUnique(<< >>, cs))
  <2>1. << >> \in Seq(Nat) /\ ToSet(<< >>) = {} /\ IsInjective(<< >>)
    BY DEF ToSet, IsInjective
  <2> DEFINE none == << >>
  <2>2. none \in Seq(Nat) /\ cs \in Seq(Nat)
    BY <1>3
  <2> HIDE DEF none
  <2>3. /\ AppendUnique(none, cs) \in Seq(Nat)
        /\ ToSet(AppendUnique(none, cs)) = ToSet(none) \cup ToSet(cs)
        /\ IsInjective(none) => IsInjective(AppendUnique(none, cs))
    BY <2>2, AppendUniqueElements
  <2> QED BY <2>1, <2>3 DEF none
<1> QED BY <1>3, <1>5, <1>7, <1>10, <1>11, <1>12, <1>13

-----------------------------------------------------------------------------
\* An entry appended by itself.
LEMMA AppendOneEntry ==
  ASSUME NEW B, NEW out \in Seq(B), NEW e \in B
  PROVE  AppendUnique(out, <<e>>) = AddOnce(out, e)
<1> DEFINE one == <<e>>
<1>1. one \in Seq(B) /\ Len(one) = 1 /\ one[1] = e
  OBVIOUS
<1> HIDE DEF one
<1>2. PICK f : Appends(f, B, out, one)
  BY <1>1, AppendUniqueSteps
<1>3. f[0] = out /\ (\A k \in 1 .. 1 : f[k] = AddOnce(f[k - 1], one[k])) /\ AppendUnique(out, one) = f[1]
  BY <1>1, <1>2 DEF Appends
<1>4. f[1] = AddOnce(f[1 - 1], one[1])
  BY <1>3
<1>5. AppendUnique(out, one) = AddOnce(out, e)
  BY <1>1, <1>3, <1>4
<1> QED BY <1>5 DEF one

\* A closure holds the entry and the closures of the dependencies.
LEMMA CollectClosureElements ==
  ASSUME NEW deps, SoundList(deps), NEW e \in Nat
  PROVE  /\ CollectClosure(e, Closures(deps)) = AddOnce(CollectEntries(Closures(deps)), e)
         /\ CollectClosure(e, Closures(deps)) \in Seq(Nat)
         /\ ToSet(CollectClosure(e, Closures(deps))) = Collected(deps) \cup {e}
<1> DEFINE c == CollectEntries(Closures(deps))
<1>1. c \in Seq(Nat) /\ ToSet(c) = Collected(deps)
  BY FirstOutputsParallel
<1> HIDE DEF c
<1>2. AppendUnique(c, <<e>>) = AddOnce(c, e)
  BY <1>1, AppendOneEntry
<1>3. AddOnce(c, e) \in Seq(Nat) /\ ToSet(AddOnce(c, e)) = ToSet(c) \cup {e}
  BY <1>1, AddOnceKeeps
<1>4. CollectClosure(e, Closures(deps)) = AppendUnique(c, <<e>>)
  BY DEF CollectClosure, c
<1> QED BY <1>1, <1>2, <1>3, <1>4 DEF c

\* A target whose entry no input has: the lists of its inputs, and its own.
LEMMA MetadataSound ==
  ASSUME NEW deps, SoundList(deps), NEW e \in Nat, NEW output \in Artifacts,
         output.entry = e, e \notin Collected(deps)
  PROVE  /\ Sound(Metadata(e, output, deps))
         /\ Metadata(e, output, deps).entry = e
         /\ ToSet(Metadata(e, output, deps).closure) = Collected(deps) \cup {e}
<1> DEFINE c == CollectEntries(Closures(deps))
           ps == FirstOutputs(deps)
           n == Len(ps)
           closure == CollectClosure(e, Closures(deps))
           outs == [k \in DOMAIN ps |-> ps[k][2]]
           outputs == CollectStoreOutputs(e, output, deps)
<1>1. ps \in Seq(Pairs) /\ Firsts(ps) = c /\ c \in Seq(Nat) /\ ToSet(c) = Collected(deps) /\ IsInjective(c)
  BY FirstOutputsParallel
<1>2. closure = AddOnce(c, e) /\ closure \in Seq(Nat) /\ ToSet(closure) = Collected(deps) \cup {e}
  BY CollectClosureElements
<1>3. Len(c) = n /\ n \in Nat /\ DOMAIN ps = 1 .. n /\ DOMAIN c = 1 .. n /\ \A k \in 1 .. n : c[k] = ps[k][1]
  <2>1. Len(Firsts(ps)) = Len(ps) /\ \A k \in DOMAIN ps : Firsts(ps)[k] = ps[k][1]
    BY <1>1, FirstsLists
  <2>2. DOMAIN ps = 1 .. n /\ n \in Nat
    BY <1>1
  <2>3. DOMAIN c = 1 .. Len(c)
    BY <1>1
  <2> HIDE DEF ps, c
  <2> QED BY <1>1, <2>1, <2>2, <2>3
<1>4. ~ \E q \in ToSet(ps) : q[1] = e
  <2>1. ToSet(Firsts(ps)) = {p[1] : p \in ToSet(ps)}
    BY <1>1, FirstsLists
  <2> HIDE DEF ps, c
  <2> QED BY <1>1, <2>1
<1>5. outputs = outs \o <<output>>
  BY <1>4 DEF CollectStoreOutputs
<1> HIDE DEF ps, c, closure, outputs
<1>6. closure = Append(c, e)
  BY <1>1, <1>2 DEF AddOnce
<1>7. \A k \in 1 .. n : ps[k] \in Pairs /\ ps[k][2] \in Artifacts /\ ps[k][2].entry = ps[k][1]
  BY <1>1, <1>3, PairsKnown
<1>8. outs \in Seq(Artifacts) /\ Len(outs) = n /\ \A k \in 1 .. n : outs[k] = ps[k][2]
  <2>1. outs \in [1 .. n -> Artifacts] /\ \A k \in 1 .. n : outs[k] = ps[k][2]
    BY <1>3, <1>7
  <2> HIDE DEF outs, n
  <2> QED BY <1>3, <2>1, SeqDef
<1> HIDE DEF outs, n
<1>9. /\ outputs \in Seq(Artifacts) /\ Len(outputs) = n + 1
      /\ outputs[n + 1] = output /\ \A k \in 1 .. n : outputs[k] = ps[k][2]
  BY <1>3, <1>5, <1>8
<1>10. /\ Len(closure) = n + 1 /\ DOMAIN closure = 1 .. n + 1
       /\ closure[n + 1] = e /\ \A k \in 1 .. n : closure[k] = c[k]
  BY <1>1, <1>3, <1>6
<1>11. IsInjective(closure)
  <2>1. IsInjective(AddOnce(c, e))
    BY <1>1, AddOnceKeeps
  <2> QED BY <1>2, <2>1
<1>12. \A k \in 1 .. n + 1 : k = n + 1 \/ k \in 1 .. n
  BY <1>3
<1>13. \A k \in 1 .. n : c[k] # e
  BY <1>1, <1>3 DEF ToSet
<1>14. \A k \in DOMAIN closure :
         /\ outputs[k].entry = closure[k]
         /\ closure[k] = e => outputs[k] = output
  BY <1>3, <1>7, <1>9, <1>10, <1>12, <1>13
<1> DEFINE p == Metadata(e, output, deps)
<1>15. p.entry = e /\ p.output = output /\ p.closure = closure /\ p.outputs = outputs
  BY DEF Metadata, Provider, closure, outputs
<1> HIDE DEF p
<1>16. Sound(p)
  BY <1>2, <1>9, <1>10, <1>11, <1>14, <1>15 DEF Sound, Parallel
<1> QED BY <1>2, <1>15, <1>16 DEF p

\* The canonical order of a list.
LEMMA CanonicalOrder ==
  ASSUME NEW list \in Seq(Nat)
  PROVE  /\ Canonical(list) \in Seq(Nat)
         /\ ToSet(Canonical(list)) = ToSet(list)
         /\ Ascending(Canonical(list)) /\ IsInjective(Canonical(list))
<1> DEFINE S == ToSet(list)
           u == InOrder(S)
           n == Cardinality(S)
<1>1. S \in SUBSET Nat /\ IsFiniteSet(S)
  BY ElementsFinite
<1> HIDE DEF S
<1>2. /\ u \in [1 .. n -> S] /\ n \in Nat /\ ToSet(u) = S
      /\ \A i, j \in 1 .. n : i < j => u[i] < u[j]
  BY <1>1, InOrderProperties
<1> HIDE DEF u, n
<1>3. u \in Seq(Nat)
  <2>1. u \in [1 .. n -> Nat]
    BY <1>1, <1>2
  <2> QED BY <1>2, <2>1, SeqDef
<1>4. Ascending(u)
  BY <1>2 DEF Ascending
<1>5. IsInjective(u)
  <2> SUFFICES ASSUME NEW i \in 1 .. n, NEW j \in 1 .. n, u[i] = u[j] PROVE i = j
    BY <1>2 DEF IsInjective
  <2>1. u[i] \in Nat /\ u[j] \in Nat
    BY <1>1, <1>2
  <2>2. (i < j => u[i] < u[j]) /\ (j < i => u[j] < u[i])
    BY <1>2
  <2> QED BY <1>2, <2>1, <2>2
<1>6. Canonical(list) = u
  BY DEF Canonical, u, S
<1> QED BY <1>2, <1>3, <1>4, <1>5, <1>6 DEF S

\* The own entry is taken out, and the order kept.
LEMMA WithoutOwnOrder ==
  ASSUME NEW e, NEW list \in Seq(Nat), Ascending(list)
  PROVE  /\ WithoutOwn(e, list) \in Seq(Nat)
         /\ ToSet(WithoutOwn(e, list)) = ToSet(list) \ {e}
         /\ Ascending(WithoutOwn(e, list))
<1> DEFINE K == {k \in DOMAIN list : list[k] # e}
           kept == InOrder(K)
           m == Cardinality(K)
           w == [k \in DOMAIN kept |-> list[kept[k]]]
<1>1. K \in SUBSET Nat /\ IsFiniteSet(K) /\ K \subseteq DOMAIN list
  <2>1. DOMAIN list = 1 .. Len(list) /\ Len(list) \in Nat
    OBVIOUS
  <2>2. IsFiniteSet(1 .. Len(list))
    BY <2>1, FS_Interval
  <2>3. K \in SUBSET (1 .. Len(list))
    BY <2>1
  <2>4. IsFiniteSet(K)
    <3> HIDE DEF K
    <3> QED BY <2>2, <2>3, FS_Subset
  <2> QED BY <2>1, <2>4
<1>2. \A k : k \in K <=> k \in DOMAIN list /\ list[k] # e
  OBVIOUS
<1> HIDE DEF K
<1>3. /\ kept \in [1 .. m -> K] /\ m \in Nat /\ ToSet(kept) = K
      /\ \A i, j \in 1 .. m : i < j => kept[i] < kept[j]
  BY <1>1, InOrderProperties
<1> HIDE DEF kept, m
<1>4. w \in [1 .. m -> Nat] /\ \A k \in 1 .. m : w[k] = list[kept[k]]
  <2>1. \A k \in DOMAIN list : list[k] \in Nat
    OBVIOUS
  <2>2. DOMAIN kept = 1 .. m /\ \A k \in 1 .. m : kept[k] \in DOMAIN list
    BY <1>1, <1>3
  <2> QED BY <2>1, <2>2
<1>5. WithoutOwn(e, list) = w
  BY DEF WithoutOwn, w, kept, K
<1> HIDE DEF w
<1>6. w \in Seq(Nat)
  BY <1>3, <1>4, SeqDef
<1>7. ToSet(w) = ToSet(list) \ {e}
  <2>1. ToSet(w) = {list[kept[k]] : k \in 1 .. m} /\ K = {kept[k] : k \in 1 .. m}
    BY <1>3, <1>4 DEF ToSet
  <2>2. ToSet(list) = {list[k] : k \in DOMAIN list}
    BY DEF ToSet
  <2> QED BY <1>1, <1>2, <2>1, <2>2
<1>8. Ascending(w)
  <2> SUFFICES ASSUME NEW i \in 1 .. m, NEW j \in 1 .. m, i < j PROVE w[i] < w[j]
    BY <1>4 DEF Ascending
  <2>1. kept[i] \in DOMAIN list /\ kept[j] \in DOMAIN list /\ kept[i] < kept[j]
    BY <1>1, <1>3
  <2> QED BY <1>4, <2>1 DEF Ascending
<1> QED BY <1>5, <1>6, <1>7, <1>8

\* Ascending lists are equal exactly if they have the same elements.
LEMMA AscendingEqual ==
  ASSUME NEW s \in Seq(Nat), Ascending(s), NEW t \in Seq(Nat), Ascending(t)
  PROVE  s = t <=> ToSet(s) = ToSet(t)
<1>1. InOrder(ToSet(s)) = s
  BY OnlyInOrder DEF Ascending
<1>2. InOrder(ToSet(t)) = t
  BY OnlyInOrder DEF Ascending
<1> QED BY <1>1, <1>2

\* An import has the closures of its inputs in canonical order, and realizes
\* its own entry whether or not an input has it too.
LEMMA ImportSound ==
  ASSUME NEW deps, SoundList(deps), NEW e \in Nat, NEW output \in Artifacts, output.entry = e,
         NEW closure, closure = Canonical(CollectClosure(e, Closures(deps)))
  PROVE  Sound(Provider(e, output, closure, StoreOutputsForEntries(closure, e, output, deps)))
<1> DEFINE ps == FirstOutputs(deps)
           P == ToSet(ps)
           n == Len(closure)
           outputs == StoreOutputsForEntries(closure, e, output, deps)
<1>1. /\ closure \in Seq(Nat) /\ ToSet(closure) = Collected(deps) \cup {e}
      /\ IsInjective(closure)
  BY CollectClosureElements, CanonicalOrder
<1>2. P \subseteq Pairs /\ \A x \in Collected(deps) : \E q \in P : q[1] = x
  <2>1. ps \in Seq(Pairs) /\ ToSet(Firsts(ps)) = Collected(deps)
    BY FirstOutputsParallel
  <2>2. ToSet(Firsts(ps)) = {p[1] : p \in ToSet(ps)}
    BY <2>1, FirstsLists
  <2>3. ToSet(ps) \subseteq Pairs
    BY <2>1 DEF ToSet
  <2> HIDE DEF ps
  <2> QED BY <2>1, <2>2, <2>3
<1>3. n \in Nat /\ DOMAIN closure = 1 .. n /\ \A k \in 1 .. n : closure[k] \in Collected(deps) \cup {e}
  BY <1>1 DEF ToSet
<1>4. /\ DOMAIN outputs = 1 .. n
      /\ \A k \in 1 .. n :
           outputs[k] = IF closure[k] = e THEN output
                        ELSE IF \E q \in P : q[1] = closure[k]
                        THEN (CHOOSE q \in P : q[1] = closure[k])[2] ELSE None
      /\ outputs = [k \in 1 .. n |-> outputs[k]]
  BY <1>3 DEF StoreOutputsForEntries
<1> HIDE DEF ps, P, n, outputs
<1>5. ASSUME NEW k \in 1 .. n
      PROVE  /\ outputs[k] \in Artifacts /\ outputs[k].entry = closure[k]
             /\ closure[k] = e => outputs[k] = output
  <2>1. CASE closure[k] = e
    BY <1>4, <2>1
  <2>2. CASE closure[k] # e
    <3> DEFINE q == CHOOSE q \in P : q[1] = closure[k]
    <3>1. \E x \in P : x[1] = closure[k]
      BY <1>2, <1>3, <2>2
    <3>2. q \in P /\ q[1] = closure[k]
      BY <3>1
    <3>3. outputs[k] = q[2]
      BY <1>4, <2>2, <3>1
    <3> HIDE DEF q
    <3> QED BY <1>2, <2>2, <3>2, <3>3, PairsKnown
  <2> QED BY <2>1, <2>2
<1>6. outputs \in Seq(Artifacts) /\ Len(outputs) = n
  <2>1. outputs \in [1 .. n -> Artifacts]
    BY <1>4, <1>5
  <2> QED BY <1>3, <2>1, SeqDef
<1> DEFINE p == Provider(e, output, closure, outputs)
<1>7. p.entry = e /\ p.output = output /\ p.closure = closure /\ p.outputs = outputs
  BY DEF Provider
<1> HIDE DEF p
<1>8. Sound(p)
  BY <1>1, <1>3, <1>5, <1>6, <1>7 DEF Sound, Parallel, n
<1> QED BY <1>8 DEF p, outputs

-----------------------------------------------------------------------------
\* Nothing but analysed targets realizes entries, and only entries of packages.
Realized == {info[t].entry : t \in Analysed}

ProvidersSound ==
  /\ DOMAIN info = Targets
  /\ \A t \in Analysed : Sound(info[t]) /\ ToSet(info[t].closure) \subseteq Realized
  /\ Realized \subseteq StoreEntries

\* What is exported is in canonical order.
ManifestsSound ==
  \A m \in manifests :
    /\ m.entry \in StoreEntries
    /\ m.references \in Seq(Nat) /\ Ascending(m.references) /\ m.entry \notin ToSet(m.references)

-----------------------------------------------------------------------------
Size == Len(SplitEntries)

\* The split outputs that have metadata, and those that wait for another.
Resolved(s) == {o \in SplitNames : s.packages[o] # None}
Blocked(s, o) == \E d \in s.declared[o] : d # PrimaryOutput /\ d \notin Resolved(s)

Shaped(s) ==
  s = [phase |-> s.phase, input |-> s.input, declared |-> s.declared, pass |-> s.pass,
       at |-> s.at, packages |-> s.packages]

OwnEntries(S) == {SplitEntries[o] : o \in S}

PackagesSound(s) ==
  /\ SoundList(s.input) /\ Collected(s.input) \subseteq StoreEntries
  /\ DOMAIN s.packages = Packages
  /\ s.packages[PrimaryOutput] # None
  /\ \A o \in Packages : s.packages[o] # None =>
       /\ Sound(s.packages[o])
       /\ ToSet(s.packages[o].closure) \subseteq StoreEntries \cup OwnEntries(Resolved(s))

AllDeclared(s) == s.declared \in [SplitNames -> SUBSET ({PrimaryOutput, UnknownOutput} \cup SplitNames)]

\* The closure of an output with metadata is complete.
Complete(s, o) ==
  /\ s.declared[o] \subseteq {PrimaryOutput} \cup Resolved(s)
  /\ ToSet(s.packages[o].closure) =
       {SplitEntries[o]} \cup Collected(s.input)
         \cup UNION {ToSet(s.packages[d].closure) : d \in s.declared[o]}

NoCircle(declared, R) == \A S \in (SUBSET R) \ {{}} : \E o \in S : declared[o] \cap S = {}

Stuck(s) == \A o \in SplitNames \ Resolved(s) : Blocked(s, o)

\* A pass that is over resolved an output or found every other one waiting.
Pace(s, bound) ==
  \/ Cardinality(Resolved(s)) >= s.pass
  \/ /\ Cardinality(Resolved(s)) >= s.pass - 1
     /\ \A o \in SplitNames \ Resolved(s) : o < bound => Blocked(s, o)
  \/ Stuck(s)

ResolvableBy(declared) ==
  /\ DOMAIN declared = SplitNames
  /\ \A o \in SplitNames : UnknownOutput \notin declared[o]
  /\ \A S \in (SUBSET SplitNames) \ {{}} : \E o \in S : declared[o] \cap S = {}

Building(s) ==
  /\ AllDeclared(s)
  /\ \A o \in Resolved(s) : Complete(s, o)
  /\ NoCircle(s.declared, Resolved(s))

SplitSound(s) ==
  /\ Shaped(s)
  /\ s.phase \in {"passes", "resolved", "failed"}
  /\ PackagesSound(s)
  /\ s.phase # "failed" => Building(s)
  /\ s.phase = "passes" => s.pass \in 1 .. Size /\ s.at \in 1 .. Size /\ Pace(s, s.at)
  /\ s.phase = "resolved" => Resolved(s) = SplitNames
  /\ s.phase = "failed" => ~ ResolvableBy(s.declared)

ListsInv ==
  /\ ProvidersSound
  /\ ManifestsSound
  /\ ImportVerdictExact
  /\ split.phase # "none" => SplitSound(split)

-----------------------------------------------------------------------------
\* Names and entries of split outputs are told apart from all others.
LEMMA SizePositive ==
  /\ Size \in Nat /\ Size >= 1 /\ SplitNames = 1 .. Size /\ UnknownOutput = Size + 1
  /\ \A o \in SplitNames : SplitEntries[o] \in Nat /\ SplitEntries[o] \notin StoreEntries
  /\ \A o, r \in SplitNames : SplitEntries[o] = SplitEntries[r] => o = r
  /\ StoreEntries \subseteq Nat
BY ListsAssumption DEF Size, SplitNames, UnknownOutput, ToSet, IsInjective

\* The resolved outputs are finitely many.
LEMMA ResolvedFinite ==
  ASSUME NEW s
  PROVE  /\ IsFiniteSet(Resolved(s)) /\ Cardinality(Resolved(s)) \in Nat
         /\ Cardinality(Resolved(s)) >= Size => Resolved(s) = SplitNames
<1> DEFINE R == Resolved(s)
<1>1. R \in SUBSET (1 .. Size) /\ Size \in Nat /\ SplitNames = 1 .. Size
  BY SizePositive DEF Resolved
<1> HIDE DEF R
<1>2. IsFiniteSet(1 .. Size) /\ Cardinality(1 .. Size) = Size
  BY <1>1, FS_Interval
<1>3. IsFiniteSet(R) /\ Cardinality(R) <= Size /\ (Cardinality(R) = Size => R = 1 .. Size)
  BY <1>1, <1>2, FS_Subset
<1>4. Cardinality(R) \in Nat
  BY <1>3, FS_CardinalityType
<1> QED BY <1>1, <1>3, <1>4 DEF R

\* Outputs that all wait for another are not resolvable.
LEMMA StuckNotResolvable ==
  ASSUME NEW s, AllDeclared(s), Stuck(s), Resolved(s) # SplitNames
  PROVE  ~ ResolvableBy(s.declared)
<1> SUFFICES ASSUME ResolvableBy(s.declared) PROVE FALSE
  OBVIOUS
<1> DEFINE S == SplitNames \ Resolved(s)
<1>1. S \in (SUBSET SplitNames) \ {{}}
  BY DEF Resolved
<1>2. PICK o \in S : s.declared[o] \cap S = {}
  BY <1>1 DEF ResolvableBy
<1>3. PICK d \in s.declared[o] : d # PrimaryOutput /\ d \notin Resolved(s)
  BY DEF Stuck, Blocked
<1>4. d \in SplitNames
  <2>1. o \in SplitNames /\ s.declared[o] \subseteq {PrimaryOutput, UnknownOutput} \cup SplitNames
    BY DEF AllDeclared
  <2>2. d # UnknownOutput
    BY <1>3, <2>1 DEF ResolvableBy
  <2> QED BY <1>3, <2>1, <2>2
<1> QED BY <1>2, <1>3, <1>4

\* The next output or the next pass; after the last, everything is resolved or
\* cannot be.
LEMMA AdvanceSound ==
  ASSUME NEW s, Shaped(s), s.phase = "passes", PackagesSound(s), Building(s),
         s.pass \in 1 .. Size, s.at \in 1 .. Size, Pace(s, s.at + 1)
  PROVE  SplitSound(Advance(s))
<1> DEFINE a == Advance(s)
<1>1. Size \in Nat /\ Size >= 1 /\ SplitNames = 1 .. Size /\ Size = Len(SplitEntries)
  BY SizePositive DEF Size
<1>2. CASE s.at < Size
  <2>1. a = [s EXCEPT !.at = @ + 1]
    BY <1>2 DEF Advance, Size
  <2> HIDE DEF a
  <2>2. /\ Shaped(a) /\ a.phase = "passes" /\ a.input = s.input /\ a.declared = s.declared
        /\ a.packages = s.packages /\ a.pass = s.pass /\ a.at = s.at + 1
    BY <2>1 DEF Shaped
  <2>3. a.at \in 1 .. Size
    BY <1>1, <1>2, <2>2
  <2>4. Resolved(a) = Resolved(s)
    BY <2>2 DEF Resolved
  <2>5. Pace(a, a.at)
    BY <2>2, <2>4 DEF Pace, Stuck, Blocked
  <2>6. PackagesSound(a) /\ Building(a)
    BY <2>2, <2>4 DEF PackagesSound, Building, AllDeclared, Complete
  <2>7. SplitSound(a)
    BY <2>2, <2>3, <2>5, <2>6 DEF SplitSound
  <2> QED BY <2>7 DEF a
<1> DEFINE Final == Cardinality(Resolved(s)) >= s.pass \/ Stuck(s)
<1>3. CASE ~(s.at < Size)
  <2>0. s.at = Size /\ Cardinality(Resolved(s)) \in Nat
    BY <1>1, <1>3, ResolvedFinite
  <2>1. Final
    <3>1. \A o \in SplitNames : o < s.at + 1
      BY <1>1, <2>0
    <3> QED BY <3>1 DEF Pace, Stuck
  <2>2. CASE s.pass < Size
    <3>1. a = [s EXCEPT !.at = 1, !.pass = @ + 1]
      BY <1>3, <2>2 DEF Advance, Size
    <3> HIDE DEF a
    <3>2. /\ Shaped(a) /\ a.phase = "passes" /\ a.input = s.input /\ a.declared = s.declared
          /\ a.packages = s.packages /\ a.pass = s.pass + 1 /\ a.at = 1
      BY <3>1 DEF Shaped
    <3>3. a.at \in 1 .. Size /\ a.pass \in 1 .. Size /\ a.pass - 1 = s.pass
      BY <1>1, <2>2, <3>2
    <3>4. Resolved(a) = Resolved(s)
      BY <3>2 DEF Resolved
    <3>5. Pace(a, a.at)
      <4>1. \A o \in SplitNames : ~(o < 1)
        BY <1>1
      <4>2. Stuck(s) => Stuck(a)
        BY <3>2, <3>4 DEF Stuck, Blocked
      <4> QED BY <2>1, <3>2, <3>3, <3>4, <4>1, <4>2 DEF Pace
    <3>6. PackagesSound(a) /\ Building(a)
      BY <3>2, <3>4 DEF PackagesSound, Building, AllDeclared, Complete
    <3>7. SplitSound(a)
      BY <3>2, <3>3, <3>5, <3>6 DEF SplitSound
    <3> QED BY <3>7 DEF a
  <2>3. CASE ~(s.pass < Size)
    <3>0. s.pass = Size
      BY <1>1, <2>3
    <3>1. a = [s EXCEPT !.phase = IF \E o \in SplitNames : s.packages[o] = None
                                  THEN "failed" ELSE "resolved"]
      BY <1>3, <2>3 DEF Advance, Size
    <3> HIDE DEF a
    <3>2. /\ Shaped(a) /\ a.input = s.input /\ a.declared = s.declared /\ a.packages = s.packages
          /\ a.phase = IF \E o \in SplitNames : s.packages[o] = None THEN "failed" ELSE "resolved"
      BY <3>1 DEF Shaped
    <3>3. Resolved(a) = Resolved(s)
      BY <3>2 DEF Resolved
    <3>4. a.phase = "resolved" => Resolved(s) = SplitNames
      BY <3>2 DEF Resolved
    <3>5. a.phase = "failed" => Resolved(s) # SplitNames
      BY <3>2 DEF Resolved
    <3>6. a.phase = "failed" => ~ ResolvableBy(a.declared)
      <4>1. Cardinality(Resolved(s)) >= s.pass => Resolved(s) = SplitNames
        BY <3>0, ResolvedFinite
      <4>2. AllDeclared(s)
        BY DEF Building
      <4> QED BY <2>1, <3>2, <3>5, <4>1, <4>2, StuckNotResolvable
    <3>7. PackagesSound(a) /\ Building(a)
      BY <3>2, <3>3 DEF PackagesSound, Building, AllDeclared, Complete
    <3>8. a.phase \in {"resolved", "failed"}
      BY <3>2
    <3>9. SplitSound(a)
      BY <3>2, <3>3, <3>4, <3>6, <3>7, <3>8 DEF SplitSound
    <3> QED BY <3>9 DEF a
  <2> QED BY <2>2, <2>3
<1> QED BY <1>2, <1>3

-----------------------------------------------------------------------------
\* A provider that is sound is there.
LEMMA SoundIsSome == \A p : Sound(p) => p # None
<1> SUFFICES ASSUME NEW p, Sound(p), p = None PROVE FALSE
  OBVIOUS
<1>1. p.entry \in Nat /\ p.entry = -1
  BY DEF Sound, None
<1> QED BY <1>1

\* The invariant holds at the start.
LEMMA ListsStart == ListsInit => ListsInv
<1> SUFFICES ASSUME ListsInit PROVE ListsInv
  OBVIOUS
<1>1. Analysed = {} /\ DOMAIN info = Targets
  BY DEF ListsInit, Analysed
<1>2. ProvidersSound
  BY <1>1 DEF ProvidersSound, Realized
<1>3. ManifestsSound /\ ImportVerdictExact /\ split.phase = "none"
  BY DEF ListsInit, ManifestsSound, ImportVerdictExact
<1> QED BY <1>2, <1>3 DEF ListsInv

\* The inputs of a target are providers of analysed ones.
LEMMA InputsSound ==
  ASSUME ProvidersSound, NEW deps \in Inputs
  PROVE  SoundList(deps) /\ Collected(deps) \subseteq Realized
<1>1. PICK n \in 0 .. MaxInputs : deps \in [1 .. n -> {info[t] : t \in Analysed}]
  BY DEF Inputs
<1>2. n \in Nat
  BY ListsAssumption
<1>3. \A i \in 1 .. n : Sound(deps[i]) /\ ToSet(deps[i].closure) \subseteq Realized
  BY <1>1 DEF ProvidersSound
<1>4. deps \in Seq({deps[i] : i \in DOMAIN deps})
  <2>1. deps \in [1 .. n -> {deps[i] : i \in DOMAIN deps}]
    BY <1>1
  <2> QED BY <1>2, <2>1, SeqDef
<1>5. DOMAIN deps = 1 .. n
  BY <1>1
<1> QED BY <1>3, <1>4, <1>5 DEF SoundList, Collected

\* One more sound provider, whose closure holds its own entry and realized ones.
LEMMA ProviderAdded ==
  ASSUME ProvidersSound, NEW t \in Upcoming, NEW p, Sound(p), p.entry \in StoreEntries,
         ToSet(p.closure) \subseteq Realized \cup {p.entry}, info' = [info EXCEPT ![t] = p]
  PROVE  ProvidersSound'
<1>1. t \in Targets /\ info[t] = None /\ DOMAIN info = Targets
  BY DEF Upcoming, ProvidersSound
<1>2. p # None
  BY SoundIsSome
<1>3. info'[t] = p /\ DOMAIN info' = Targets /\ \A u \in Targets : u # t => info'[u] = info[u]
  BY <1>1
<1>4. Analysed' = Analysed \cup {t} /\ t \notin Analysed
  BY <1>1, <1>2, <1>3 DEF Analysed
<1>5. \A u \in Analysed : u # t /\ info'[u] = info[u]
  BY <1>3, <1>4 DEF Analysed
<1>6. Realized' = Realized \cup {p.entry}
  BY <1>3, <1>4, <1>5 DEF Realized
<1>7. \A u \in Analysed' : Sound(info'[u]) /\ ToSet(info'[u].closure) \subseteq Realized'
  BY <1>3, <1>4, <1>5, <1>6 DEF ProvidersSound
<1> QED BY <1>3, <1>6, <1>7 DEF ProvidersSound

\* An artifact belongs to its entry.
LEMMA ArtifactSound ==
  \A t \in Targets \cup {"split"}, e \in Nat : Artifact(t, e) \in Artifacts /\ Artifact(t, e).entry = e
BY DEF Artifact, Artifacts

\* A package adds its own entry and artifact to the lists of its inputs.
LEMMA PackageHolds ==
  ASSUME ListsInv, split.phase = "none", NEW t \in Upcoming, NEW deps \in Inputs,
         NEW e \in StoreEntries, Package(t, e, deps)
  PROVE  ListsInv'
<1> DEFINE p == Metadata(e, Artifact(t, e), deps)
<1>1. SoundList(deps) /\ Collected(deps) \subseteq Realized /\ ProvidersSound
  BY InputsSound DEF ListsInv
<1>2. e \in Nat /\ t \in Targets /\ Artifact(t, e) \in Artifacts /\ Artifact(t, e).entry = e
  BY SizePositive, ArtifactSound DEF Upcoming
<1>3. e \notin Realized
  BY DEF Package, Unused, Realized
<1>4. e \notin Collected(deps)
  BY <1>1, <1>3
<1>5. Sound(p) /\ p.entry = e /\ ToSet(p.closure) = Collected(deps) \cup {e}
  <2> DEFINE output == Artifact(t, e)
  <2>1. output \in Artifacts /\ output.entry = e
    BY <1>2
  <2> HIDE DEF output
  <2>2. /\ Sound(Metadata(e, output, deps)) /\ Metadata(e, output, deps).entry = e
        /\ ToSet(Metadata(e, output, deps).closure) = Collected(deps) \cup {e}
    BY <1>1, <1>2, <1>4, <2>1, MetadataSound
  <2> QED BY <2>2 DEF output
<1> HIDE DEF p
<1>6. info' = [info EXCEPT ![t] = p] /\ UNCHANGED <<manifests, imported, split>>
  BY DEF Package, Define, p
<1>7. ProvidersSound'
  <2>1. ToSet(p.closure) \subseteq Realized \cup {p.entry} /\ p.entry \in StoreEntries
    BY <1>1, <1>5
  <2> QED BY <1>1, <1>5, <1>6, <2>1, ProviderAdded
<1> QED BY <1>6, <1>7 DEF ListsInv, ManifestsSound, ImportVerdictExact

\* A wrapper repeats the lists of the package it wraps.
LEMMA WrapHolds ==
  ASSUME ListsInv, split.phase = "none", NEW t \in Upcoming, NEW u \in Analysed, Wrap(t, u)
  PROVE  ListsInv'
<1>1. /\ Sound(info[u]) /\ ToSet(info[u].closure) \subseteq Realized
      /\ info[u].entry \in Realized /\ Realized \subseteq StoreEntries /\ ProvidersSound
  BY DEF ListsInv, ProvidersSound, Realized
<1>2. info' = [info EXCEPT ![t] = info[u]] /\ UNCHANGED <<manifests, imported, split>>
  BY DEF Wrap, Define
<1> DEFINE p == info[u]
<1>3. /\ Sound(p) /\ ToSet(p.closure) \subseteq Realized \cup {p.entry} /\ p.entry \in StoreEntries
      /\ info' = [info EXCEPT ![t] = p]
  BY <1>1, <1>2
<1> HIDE DEF p
<1>4. ProvidersSound'
  BY <1>1, <1>3, ProviderAdded
<1> QED BY <1>2, <1>4 DEF ListsInv, ManifestsSound, ImportVerdictExact

\* An export writes its lists in canonical order.
LEMMA ExportHolds ==
  ASSUME ListsInv, split.phase = "none", NEW t \in Analysed, Export(t)
  PROVE  ListsInv'
<1> DEFINE e == info[t].entry
           closure == info[t].closure
           lists == <<closure>>
           c == CollectEntries(lists)
           refs == WithoutOwn(e, Canonical(c))
           m == [entry |-> e, references |-> refs]
<1>1. e \in StoreEntries /\ closure \in Seq(Nat)
  BY DEF ListsInv, ProvidersSound, Realized, Sound
<1>2. c \in Seq(Nat)
  <2>1. lists \in Seq(Seq(Nat))
    <3> HIDE DEF closure
    <3> QED BY <1>1
  <2> HIDE DEF lists
  <2> DEFINE fl == FlattenSeq(lists)
             none == << >>
  <2>2. fl \in Seq(Nat) /\ none \in Seq(Nat)
    BY <2>1, FlattenElements
  <2> HIDE DEF fl, none
  <2>3. AppendUnique(none, fl) \in Seq(Nat)
    BY <2>2, AppendUniqueElements
  <2> QED BY <2>3 DEF CollectEntries, fl, none
<1> HIDE DEF c
<1> DEFINE canonical == Canonical(c)
<1>3. canonical \in Seq(Nat) /\ Ascending(canonical)
  BY <1>2, CanonicalOrder
<1> HIDE DEF canonical, e
<1>4. WithoutOwn(e, canonical) \in Seq(Nat) /\ Ascending(WithoutOwn(e, canonical)) /\ e \notin ToSet(WithoutOwn(e, canonical))
  BY <1>3, WithoutOwnOrder
<1>5. refs \in Seq(Nat) /\ Ascending(refs) /\ e \notin ToSet(refs)
  BY <1>4 DEF canonical
<1>6. manifests' = manifests \cup {m} /\ UNCHANGED <<info, imported, split>>
  BY DEF Export, e, c
<1> HIDE DEF refs
<1>7. m.entry = e /\ m.references = refs
  OBVIOUS
<1> HIDE DEF m
<1>8. ManifestsSound'
  BY <1>1, <1>5, <1>6, <1>7 DEF ManifestsSound, ListsInv
<1> QED BY <1>6, <1>8 DEF ListsInv, ImportVerdictExact, ProvidersSound, Realized, Analysed

\* An import is accepted for the references that it pins, or fails.
LEMMA PinnedImportHolds ==
  ASSUME ListsInv, split.phase = "none", NEW t \in Upcoming, NEW deps \in Inputs,
         NEW m \in manifests, PinnedImport(t, m, deps)
  PROVE  ListsInv'
<1> DEFINE e == m.entry
           closure == Canonical(CollectClosure(e, Closures(deps)))
           output == Artifact(t, e)
           p == Provider(e, output, closure, StoreOutputsForEntries(closure, e, output, deps))
           accepted == WithoutOwn(e, closure) = m.references
<1>1. SoundList(deps) /\ Collected(deps) \subseteq Realized /\ ProvidersSound
  BY InputsSound DEF ListsInv
<1>2. e \in StoreEntries /\ m.references \in Seq(Nat) /\ Ascending(m.references) /\ e \notin ToSet(m.references)
  BY DEF ListsInv, ManifestsSound
<1>3. e \in Nat /\ output \in Artifacts /\ output.entry = e
  BY <1>2, SizePositive, ArtifactSound DEF Upcoming
<1>4. closure \in Seq(Nat) /\ ToSet(closure) = Collected(deps) \cup {e} /\ Ascending(closure)
  <2> HIDE DEF e
  <2>1. /\ CollectClosure(e, Closures(deps)) \in Seq(Nat)
        /\ ToSet(CollectClosure(e, Closures(deps))) = Collected(deps) \cup {e}
    BY <1>1, <1>3, CollectClosureElements
  <2> QED BY <2>1, CanonicalOrder
<1>5. accepted <=> Collected(deps) \ {e} = ToSet(m.references)
  <2> HIDE DEF e, closure
  <2>1. /\ WithoutOwn(e, closure) \in Seq(Nat) /\ Ascending(WithoutOwn(e, closure))
        /\ ToSet(WithoutOwn(e, closure)) = ToSet(closure) \ {e}
    BY <1>4, WithoutOwnOrder
  <2>2. ToSet(closure) \ {e} = Collected(deps) \ {e}
    BY <1>4
  <2>3. WithoutOwn(e, closure) = m.references <=> ToSet(WithoutOwn(e, closure)) = ToSet(m.references)
    BY <1>2, <2>1, AscendingEqual
  <2> QED BY <2>1, <2>2, <2>3
<1>6. Sound(p)
  <2> DEFINE cl == closure
  <2>1. cl = Canonical(CollectClosure(e, Closures(deps)))
    OBVIOUS
  <2> HIDE DEF cl, output, e
  <2>2. Sound(Provider(e, output, cl, StoreOutputsForEntries(cl, e, output, deps)))
    BY <1>1, <1>3, <2>1, ImportSound
  <2> QED BY <2>2 DEF cl
<1>7. p.entry = e /\ p.closure = closure
  BY DEF Provider
<1>8. /\ info' = IF accepted THEN [info EXCEPT ![t] = p] ELSE info
      /\ imported' = [collected |-> Collected(deps) \ {e}, references |-> ToSet(m.references), accepted |-> accepted]
      /\ UNCHANGED <<manifests, split>>
  BY DEF PinnedImport, Collected
<1> HIDE DEF p, accepted, closure, e
<1>9. ProvidersSound'
  <2>1. CASE accepted
    <3>1. ToSet(p.closure) \subseteq Realized \cup {p.entry} /\ p.entry \in StoreEntries
      BY <1>1, <1>2, <1>4, <1>7
    <3>2. info' = [info EXCEPT ![t] = p]
      BY <1>8, <2>1
    <3> QED BY <1>1, <1>6, <3>1, <3>2, ProviderAdded
  <2>2. CASE ~accepted
    <3>1. info' = info
      BY <1>8, <2>2
    <3> QED BY <1>1, <3>1 DEF ProvidersSound, Realized, Analysed
  <2> QED BY <2>1, <2>2
<1>10. ImportVerdictExact'
  BY <1>5, <1>8 DEF ImportVerdictExact
<1> QED BY <1>8, <1>9, <1>10 DEF ListsInv, ManifestsSound

-----------------------------------------------------------------------------
\* Two lists of sound providers, one after the other.
LEMMA SoundJoin ==
  ASSUME NEW a, SoundList(a), NEW b, SoundList(b)
  PROVE  SoundList(a \o b) /\ Collected(a \o b) = Collected(a) \cup Collected(b)
<1> DEFINE U == {a[i] : i \in DOMAIN a} \cup {b[i] : i \in DOMAIN b}
           m == Len(a)
           n == Len(b)
           c == a \o b
<1>1. a \in Seq(U) /\ b \in Seq(U)
  <2>1. /\ m \in Nat /\ n \in Nat /\ DOMAIN a = 1 .. m /\ DOMAIN b = 1 .. n
        /\ a = [i \in 1 .. m |-> a[i]] /\ b = [i \in 1 .. n |-> b[i]]
    BY DEF SoundList
  <2>2. a \in [1 .. m -> U] /\ b \in [1 .. n -> U]
    BY <2>1
  <2> HIDE DEF U, m, n
  <2> QED BY <2>1, <2>2, SeqDef
<1> HIDE DEF U
<1>2. /\ m \in Nat /\ n \in Nat /\ DOMAIN a = 1 .. m /\ DOMAIN b = 1 .. n
      /\ c \in Seq(U) /\ Len(c) = m + n /\ DOMAIN c = 1 .. m + n
      /\ \A i \in 1 .. m : c[i] = a[i]
      /\ \A i \in 1 .. n : c[m + i] = b[i]
  BY <1>1
<1>3. \A i \in 1 .. m + n : i \in 1 .. m \/ (i - m \in 1 .. n /\ i = m + (i - m))
  BY <1>2
<1>4. (\A i \in 1 .. m : i \in 1 .. m + n) /\ (\A i \in 1 .. n : m + i \in 1 .. m + n)
  BY <1>2
<1> HIDE DEF c, m, n
<1>5. \A i \in 1 .. m + n : (\E j \in 1 .. m : c[i] = a[j]) \/ (\E j \in 1 .. n : c[i] = b[j])
  <2> TAKE i \in 1 .. m + n
  <2>1. CASE i \in 1 .. m
    BY <1>2, <2>1
  <2>2. CASE i - m \in 1 .. n /\ i = m + (i - m)
    <3>1. c[m + (i - m)] = b[i - m]
      BY <1>2, <2>2
    <3> QED BY <2>2, <3>1
  <2> QED BY <1>3, <2>1, <2>2
<1>6. \A i \in DOMAIN c : Sound(c[i])
  BY <1>2, <1>5 DEF SoundList
<1>7. c \in Seq({c[i] : i \in DOMAIN c})
  <2>1. c = [i \in 1 .. m + n |-> c[i]]
    BY <1>2
  <2>2. c \in [1 .. m + n -> {c[i] : i \in DOMAIN c}]
    BY <1>2, <2>1
  <2>3. m + n \in Nat
    BY <1>2
  <2> QED BY <2>2, <2>3, SeqDef
<1>8. Collected(c) \subseteq Collected(a) \cup Collected(b)
  BY <1>2, <1>5 DEF Collected
<1>9. Collected(a) \subseteq Collected(c)
  BY <1>2, <1>4 DEF Collected
<1>10. Collected(b) \subseteq Collected(c)
  <2>1. \A i \in 1 .. n : ToSet(c[m + i].closure) = ToSet(b[i].closure)
    BY <1>2
  <2>2. \A i \in 1 .. n : \E j \in 1 .. m + n : ToSet(c[j].closure) = ToSet(b[i].closure)
    BY <1>4, <2>1
  <2> QED BY <1>2, <2>2 DEF Collected
<1> QED BY <1>6, <1>7, <1>8, <1>9, <1>10 DEF SoundList, c

\* The providers of a set of packages, in the order of their names.
LEMMA SiblingsSound ==
  ASSUME NEW packages, NEW D \in SUBSET Packages, \A o \in D : Sound(packages[o]),
         NEW sib, sib = [i \in DOMAIN InOrder(D) |-> packages[InOrder(D)[i]]]
  PROVE  SoundList(sib) /\ Collected(sib) = UNION {ToSet(packages[o].closure) : o \in D}
<1> DEFINE kept == InOrder(D)
           m == Cardinality(D)
<1>1. D \in SUBSET Nat /\ IsFiniteSet(D)
  <2>1. D \in SUBSET (0 .. Size) /\ Size \in Nat
    BY SizePositive DEF Packages, PrimaryOutput
  <2>2. IsFiniteSet(0 .. Size)
    BY <2>1, FS_Interval
  <2>3. IsFiniteSet(D)
    BY <2>1, <2>2, FS_Subset
  <2> QED BY <2>1, <2>3
<1>2. kept \in [1 .. m -> D] /\ m \in Nat /\ ToSet(kept) = D
  BY <1>1, InOrderProperties
<1>3. sib = [i \in DOMAIN kept |-> packages[kept[i]]]
  OBVIOUS
<1> HIDE DEF kept, m
<1>4. /\ DOMAIN sib = 1 .. m /\ sib = [i \in 1 .. m |-> sib[i]]
      /\ \A i \in 1 .. m : sib[i] = packages[kept[i]] /\ kept[i] \in D
  BY <1>2, <1>3
<1>5. sib \in Seq({sib[i] : i \in DOMAIN sib})
  <2>1. sib \in [1 .. m -> {sib[i] : i \in DOMAIN sib}]
    BY <1>4
  <2> QED BY <1>2, <2>1, SeqDef
<1>6. \A i \in DOMAIN sib : Sound(sib[i])
  BY <1>4
<1>7. \A o \in D : \E i \in 1 .. m : kept[i] = o
  BY <1>2 DEF ToSet
<1>8. Collected(sib) = UNION {ToSet(packages[o].closure) : o \in D}
  <2>1. \A i \in 1 .. m : ToSet(sib[i].closure) = ToSet(packages[kept[i]].closure)
    BY <1>4
  <2> QED BY <1>4, <1>7, <2>1 DEF Collected
<1> QED BY <1>5, <1>6, <1>8 DEF SoundList

\* A step of the passes leaves the providers alone.
LEMMA SplitOnly ==
  ASSUME ListsInv, UNCHANGED <<info, manifests, imported>>, SplitSound(split')
  PROVE  ListsInv'
BY DEF ListsInv, ManifestsSound, ImportVerdictExact, ProvidersSound, Realized, Analysed

\* The resolution begins with the primary output only.
LEMMA BeginSplitHolds ==
  ASSUME ListsInv, split.phase = "none", NEW t \in Analysed, SplitInput(t),
         NEW declared \in Declarations, BeginSplit(t, <<info[t - 1]>>, declared)
  PROVE  ListsInv'
<1> DEFINE s == split'
           p == info[t]
           q == info[t - 1]
<1>1. UNCHANGED <<info, manifests, imported>>
  BY DEF BeginSplit
<1>2. /\ Sound(p) /\ Sound(q) /\ ToSet(p.closure) \subseteq StoreEntries
      /\ ToSet(q.closure) \subseteq StoreEntries
  BY DEF ListsInv, ProvidersSound, SplitInput
<1>3. s = [phase |-> IF UnknownOutput \in DOMAIN declared THEN "failed" ELSE "passes",
           input |-> <<q>>, declared |-> declared, pass |-> 1, at |-> 1,
           packages |-> [o \in Packages |-> IF o = PrimaryOutput THEN p ELSE None]]
  BY DEF BeginSplit
<1> HIDE DEF s, p, q
<1>4. /\ Shaped(s) /\ s.input = <<q>> /\ s.declared = declared /\ s.pass = 1 /\ s.at = 1
      /\ s.packages = [o \in Packages |-> IF o = PrimaryOutput THEN p ELSE None]
      /\ s.phase = IF UnknownOutput \in DOMAIN declared THEN "failed" ELSE "passes"
  BY <1>3 DEF Shaped
<1>5. Size \in Nat /\ Size >= 1 /\ SplitNames = 1 .. Size /\ UnknownOutput = Size + 1 /\ PrimaryOutput = 0
  BY SizePositive DEF PrimaryOutput
<1>6. \A o \in SplitNames : o \in Packages /\ o # PrimaryOutput
  BY <1>5 DEF Packages
<1>7. PrimaryOutput \in Packages /\ s.packages[PrimaryOutput] = p /\ \A o \in Packages : o # PrimaryOutput => s.packages[o] = None
  BY <1>4 DEF Packages
<1>8. Resolved(s) = {}
  BY <1>6, <1>7 DEF Resolved
<1>9. SoundList(s.input) /\ Collected(s.input) \subseteq StoreEntries
  <2>1. s.input \in Seq({s.input[i] : i \in DOMAIN s.input}) /\ DOMAIN s.input = {1} /\ s.input[1] = q
    BY <1>4
  <2> QED BY <1>2, <2>1 DEF SoundList, Collected
<1>10. PackagesSound(s)
  <2>1. DOMAIN s.packages = Packages
    BY <1>4
  <2>2. s.packages[PrimaryOutput] # None
    BY <1>2, <1>7, SoundIsSome
  <2> QED BY <1>2, <1>7, <1>9, <2>1, <2>2 DEF PackagesSound
<1>11. CASE UnknownOutput \in DOMAIN declared
  <2>1. UnknownOutput \notin SplitNames
    BY <1>5
  <2>2. s.phase = "failed" /\ ~ ResolvableBy(s.declared)
    BY <1>4, <1>11, <2>1 DEF ResolvableBy
  <2>3. SplitSound(s)
    BY <1>4, <1>10, <2>2 DEF SplitSound
  <2>4. SplitSound(split')
    BY <2>3 DEF s
  <2> QED BY <1>1, <2>4, SplitOnly
<1>12. CASE UnknownOutput \notin DOMAIN declared
  <2>1. declared \in [SplitNames -> SUBSET ({PrimaryOutput, UnknownOutput} \cup SplitNames)]
    BY <1>12 DEF Declarations
  <2>2. Building(s)
    BY <1>4, <1>8, <2>1 DEF Building, AllDeclared, NoCircle
  <2>3. s.pass \in 1 .. Size /\ s.at \in 1 .. Size
    BY <1>4, <1>5
  <2>4. Pace(s, s.at)
    <3>1. Cardinality(Resolved(s)) = 0
      BY <1>8, FS_EmptySet
    <3>2. \A o \in SplitNames : ~(o < 1)
      BY <1>5
    <3> QED BY <1>4, <3>1, <3>2 DEF Pace
  <2>5. s.phase = "passes"
    BY <1>4, <1>12
  <2>6. SplitSound(s)
    BY <1>4, <1>10, <2>2, <2>3, <2>4, <2>5 DEF SplitSound
  <2>7. SplitSound(split')
    BY <2>6 DEF s
  <2> QED BY <1>1, <2>7, SplitOnly
<1> QED BY <1>11, <1>12

\* What is known while the passes run.
LEMMA InPasses ==
  ASSUME ListsInv, split.phase = "passes"
  PROVE  /\ SplitSound(split) /\ split.at \in SplitNames /\ split.at \in Nat /\ split.pass \in Nat
         /\ Declared = split.declared[split.at]
         /\ Declared \subseteq {PrimaryOutput, UnknownOutput} \cup SplitNames
<1>1. SplitSound(split)
  BY DEF ListsInv
<1>2. split.at \in 1 .. Size /\ split.pass \in 1 .. Size /\ SplitNames = 1 .. Size /\ Size \in Nat /\ AllDeclared(split)
  BY <1>1, SizePositive DEF SplitSound, Building
<1>3. split.at \in DOMAIN split.declared
  BY <1>2 DEF AllDeclared
<1>4. Declared = split.declared[split.at]
  BY <1>3 DEF Declared
<1> QED BY <1>1, <1>2, <1>4 DEF AllDeclared

\* Outputs up to the one at hand that are not resolved wait for another.
LEMMA PaceOneMore ==
  ASSUME NEW s, s.at \in Nat, SplitNames \subseteq Nat, Pace(s, s.at),
         s.at \in Resolved(s) \/ Blocked(s, s.at)
  PROVE  Pace(s, s.at + 1)
<1>1. \A o \in SplitNames : o < s.at + 1 => o < s.at \/ o = s.at
  OBVIOUS
<1> QED BY <1>1 DEF Pace

\* An output that has metadata is passed by.
LEMMA SkipResolvedHolds ==
  ASSUME ListsInv, SkipResolved
  PROVE  ListsInv'
<1>1. split.phase = "passes" /\ split.packages[split.at] # None /\ split' = Advance(split)
  BY DEF SkipResolved
<1>2. SplitSound(split) /\ split.at \in SplitNames /\ split.at \in Nat
  BY <1>1, InPasses
<1>3. split.at \in Resolved(split)
  BY <1>1, <1>2 DEF Resolved
<1>4. Pace(split, split.at + 1)
  BY <1>1, <1>2, <1>3, PaceOneMore, SizePositive DEF SplitSound
<1>5. SplitSound(split')
  BY <1>1, <1>2, <1>4, AdvanceSound DEF SplitSound
<1> QED BY <1>5, SplitOnly DEF SkipResolved

\* An output that waits for another is left to the next pass.
LEMMA PostponeHolds ==
  ASSUME ListsInv, Postpone
  PROVE  ListsInv'
<1>1. split.phase = "passes" /\ split' = Advance(split)
  BY DEF Postpone
<1>2. SplitSound(split) /\ split.at \in SplitNames /\ split.at \in Nat /\ Declared = split.declared[split.at]
  BY <1>1, InPasses
<1>3. Blocked(split, split.at)
  <2>1. PICK d \in Declared : split.packages[d] = None
    BY DEF Postpone
  <2>2. d # PrimaryOutput
    BY <1>2, <2>1 DEF SplitSound, PackagesSound
  <2> QED BY <1>2, <2>1, <2>2 DEF Blocked, Resolved
<1>4. Pace(split, split.at + 1)
  BY <1>1, <1>2, <1>3, PaceOneMore, SizePositive DEF SplitSound
<1>5. SplitSound(split')
  BY <1>1, <1>2, <1>4, AdvanceSound DEF SplitSound
<1> QED BY <1>5, SplitOnly DEF Postpone

\* An output that names no output stops the resolution.
LEMMA UnknownDependencyHolds ==
  ASSUME ListsInv, UnknownDependency
  PROVE  ListsInv'
<1> DEFINE s == split'
<1>1. split.phase = "passes" /\ split' = [split EXCEPT !.phase = "failed"] /\ UnknownOutput \in Declared
  BY DEF UnknownDependency
<1>2. SplitSound(split) /\ split.at \in SplitNames /\ Declared = split.declared[split.at] /\ Shaped(split)
  BY <1>1, InPasses DEF SplitSound
<1>3. /\ Shaped(s) /\ s.phase = "failed" /\ s.input = split.input /\ s.declared = split.declared
      /\ s.packages = split.packages
  BY <1>1, <1>2 DEF Shaped
<1> HIDE DEF s
<1>4. Resolved(s) = Resolved(split)
  BY <1>3 DEF Resolved
<1>5. PackagesSound(s)
  BY <1>2, <1>3, <1>4 DEF SplitSound, PackagesSound
<1>6. ~ ResolvableBy(s.declared)
  BY <1>1, <1>2, <1>3 DEF ResolvableBy
<1>7. SplitSound(s)
  BY <1>3, <1>5, <1>6 DEF SplitSound
<1> QED BY <1>7, SplitOnly DEF UnknownDependency, s

-----------------------------------------------------------------------------
\* An output with metadata waits for nothing, so that it closes no circle.
LEMMA NoNewCircle ==
  ASSUME NEW s, NEW o \in SplitNames, o \notin Resolved(s), NoCircle(s.declared, Resolved(s)),
         \A r \in Resolved(s) \cup {o} : s.declared[r] \subseteq {PrimaryOutput} \cup Resolved(s)
  PROVE  NoCircle(s.declared, Resolved(s) \cup {o})
<1> SUFFICES ASSUME NEW S \in (SUBSET (Resolved(s) \cup {o})) \ {{}}
             PROVE  \E r \in S : s.declared[r] \cap S = {}
  BY DEF NoCircle
<1>0. o # PrimaryOutput
  BY SizePositive DEF PrimaryOutput
<1>1. CASE S = {o}
  BY <1>0, <1>1
<1>2. CASE S # {o}
  <2> DEFINE T == S \ {o}
  <2>1. T \in (SUBSET Resolved(s)) \ {{}}
    BY <1>2
  <2>2. PICK r \in T : s.declared[r] \cap T = {}
    BY <2>1 DEF NoCircle
  <2>3. o \notin s.declared[r]
    BY <1>0, <2>1, <2>2
  <2> QED BY <2>2, <2>3
<1> QED BY <1>1, <1>2

\* An output whose dependencies are resolved gets its metadata.
LEMMA ResolveHolds ==
  ASSUME ListsInv, Resolve
  PROVE  ListsInv'
<1> DEFINE s == split
           o == split.at
           e == SplitEntries[o]
           R == Resolved(s)
           sib == [i \in DOMAIN InOrder(Declared) |-> s.packages[InOrder(Declared)[i]]]
           deps == s.input \o sib
           p == Metadata(e, Artifact("split", e), deps)
           r == [s EXCEPT !.packages[o] = p]
           D == s.declared[o]
<1>1. /\ s.phase = "passes" /\ s.packages[o] = None
      /\ \A d \in Declared : d # UnknownOutput /\ s.packages[d] # None
      /\ split' = Advance(r) /\ UNCHANGED <<info, manifests, imported>>
  BY DEF Resolve
<1>2. /\ SplitSound(s) /\ o \in SplitNames /\ o \in Nat /\ s.pass \in Nat /\ Declared = D
      /\ Declared \subseteq {PrimaryOutput, UnknownOutput} \cup SplitNames
  BY <1>1, InPasses
<1>3. Shaped(s) /\ PackagesSound(s) /\ Building(s) /\ Pace(s, o) /\ s.pass \in 1 .. Size /\ s.at \in 1 .. Size
  BY <1>1, <1>2 DEF SplitSound
<1>4. D \subseteq {PrimaryOutput} \cup R /\ D \subseteq Packages /\ \A d \in D : s.packages[d] # None
  BY <1>1, <1>2 DEF Resolved, Packages
<1>5. o \notin R /\ o # PrimaryOutput /\ o \in Packages
  BY <1>1, <1>2, SizePositive DEF Resolved, PrimaryOutput, Packages
<1>6. R \subseteq SplitNames /\ IsFiniteSet(R) /\ Cardinality(R) \in Nat
  BY ResolvedFinite DEF Resolved
<1>7. \A d \in D : Sound(s.packages[d]) /\ ToSet(s.packages[d].closure) \subseteq StoreEntries \cup OwnEntries(R)
  BY <1>3, <1>4 DEF PackagesSound
<1>8. /\ SoundList(deps)
      /\ Collected(deps) = Collected(s.input) \cup UNION {ToSet(s.packages[d].closure) : d \in D}
  <2>1. SoundList(sib) /\ Collected(sib) = UNION {ToSet(s.packages[d].closure) : d \in D}
    <3> DEFINE packages == s.packages
               S == Declared
               list == sib
    <3>1. /\ S \in SUBSET Packages /\ \A d \in S : Sound(packages[d])
          /\ list = [i \in DOMAIN InOrder(S) |-> packages[InOrder(S)[i]]]
      BY <1>2, <1>4, <1>7
    <3> HIDE DEF packages, S, list
    <3>2. SoundList(list) /\ Collected(list) = UNION {ToSet(packages[d].closure) : d \in S}
      BY <3>1, SiblingsSound
    <3> QED BY <1>2, <3>2 DEF packages, S, list
  <2>2. SoundList(s.input)
    BY <1>3 DEF PackagesSound
  <2> HIDE DEF sib, s, D
  <2> QED BY <2>1, <2>2, SoundJoin
<1>9. e \in Nat /\ e \notin Collected(deps) /\ Artifact("split", e) \in Artifacts /\ Artifact("split", e).entry = e
  <2>1. e \in Nat /\ e \notin StoreEntries /\ \A d \in R : SplitEntries[d] # e
    BY <1>2, <1>5, <1>6, SizePositive
  <2>2. e \notin OwnEntries(R)
    BY <2>1 DEF OwnEntries
  <2>3. Collected(deps) \subseteq StoreEntries \cup OwnEntries(R)
    <3>1. Collected(s.input) \subseteq StoreEntries
      BY <1>3 DEF PackagesSound
    <3> HIDE DEF deps, R, D, s
    <3> QED BY <1>7, <1>8, <3>1
  <2>4. e \notin Collected(deps)
    <3> HIDE DEF deps, e, R
    <3> QED BY <2>1, <2>2, <2>3
  <2> QED BY <2>1, <2>4, ArtifactSound
<1>10. Sound(p) /\ p.entry = e /\ ToSet(p.closure) = Collected(deps) \cup {e}
  <2> DEFINE output == Artifact("split", e)
  <2>1. output \in Artifacts /\ output.entry = e
    BY <1>9
  <2> HIDE DEF output, deps, e
  <2>2. /\ Sound(Metadata(e, output, deps)) /\ Metadata(e, output, deps).entry = e
        /\ ToSet(Metadata(e, output, deps).closure) = Collected(deps) \cup {e}
    BY <1>8, <1>9, <2>1, MetadataSound
  <2> QED BY <2>2 DEF output
<1>11. p # None
  <2> HIDE DEF p
  <2> QED BY <1>10, SoundIsSome
<1> HIDE DEF p, deps, sib
<1>12. /\ Shaped(r) /\ r.phase = "passes" /\ r.input = s.input /\ r.declared = s.declared
       /\ r.pass = s.pass /\ r.at = o /\ r.packages = [s.packages EXCEPT ![o] = p]
  BY <1>1, <1>3 DEF Shaped
<1> HIDE DEF r
<1>13. /\ DOMAIN r.packages = Packages /\ r.packages[o] = p
       /\ \A d \in Packages : d # o => r.packages[d] = s.packages[d]
  BY <1>3, <1>5, <1>12 DEF PackagesSound
<1>14. Resolved(r) = R \cup {o}
  BY <1>2, <1>5, <1>11, <1>13 DEF Resolved, Packages
<1>15. \A d \in {PrimaryOutput} \cup R : d \in Packages /\ d # o /\ r.packages[d] = s.packages[d]
  BY <1>5, <1>6, <1>13 DEF Packages
<1> HIDE DEF R, D
<1>16. ToSet(p.closure) = {e} \cup Collected(r.input) \cup UNION {ToSet(r.packages[d].closure) : d \in r.declared[o]}
  <2>1. r.declared[o] = D
    BY <1>12 DEF D
  <2>2. \A d \in D : r.packages[d].closure = s.packages[d].closure
    BY <1>4, <1>15
  <2> QED BY <1>8, <1>10, <1>12, <2>1, <2>2
<1>17. PackagesSound(r)
  <2>1. OwnEntries(Resolved(r)) = OwnEntries(R) \cup {e}
    BY <1>14 DEF OwnEntries
  <2>2. ASSUME NEW d \in Packages, r.packages[d] # None
        PROVE  Sound(r.packages[d]) /\ ToSet(r.packages[d].closure) \subseteq StoreEntries \cup OwnEntries(Resolved(r))
    <3>1. CASE d = o
      <4>1. ToSet(p.closure) \subseteq StoreEntries \cup OwnEntries(R) \cup {e}
        <5>1. Collected(s.input) \subseteq StoreEntries
          BY <1>3 DEF PackagesSound
        <5> QED BY <1>7, <1>8, <1>10, <5>1
      <4> QED BY <1>10, <1>13, <2>1, <3>1, <4>1
    <3>2. CASE d # o
      <4>1. r.packages[d] = s.packages[d]
        BY <1>13, <3>2
      <4>2. Sound(s.packages[d]) /\ ToSet(s.packages[d].closure) \subseteq StoreEntries \cup OwnEntries(R)
        BY <1>3, <2>2, <4>1 DEF PackagesSound, R
      <4> QED BY <2>1, <4>1, <4>2
    <3> QED BY <3>1, <3>2
  <2>3. r.packages[PrimaryOutput] # None
    BY <1>3, <1>15 DEF PackagesSound
  <2> QED BY <1>3, <1>12, <1>13, <2>2, <2>3 DEF PackagesSound
<1>18. Building(r)
  <2>1. AllDeclared(r)
    BY <1>3, <1>12 DEF Building, AllDeclared
  <2>2. ASSUME NEW d \in R PROVE Complete(r, d)
    <3>1. Complete(s, d)
      BY <1>3, <2>2 DEF Building, R
    <3>2. s.declared[d] \subseteq {PrimaryOutput} \cup R
      BY <3>1 DEF Complete, R
    <3>3. \A x \in s.declared[d] : r.packages[x].closure = s.packages[x].closure
      BY <1>15, <3>2
    <3>4. r.packages[d].closure = s.packages[d].closure
      BY <1>15, <2>2
    <3>5. ToSet(s.packages[d].closure) =
            {SplitEntries[d]} \cup Collected(s.input)
              \cup UNION {ToSet(s.packages[x].closure) : x \in s.declared[d]}
      BY <3>1 DEF Complete
    <3> QED BY <1>12, <1>14, <3>2, <3>3, <3>4, <3>5 DEF Complete
  <2>3. Complete(r, o)
    <3>1. r.declared[o] \subseteq {PrimaryOutput} \cup Resolved(r)
      BY <1>4, <1>12, <1>14 DEF D
    <3> QED BY <1>13, <1>16, <3>1 DEF Complete
  <2>4. NoCircle(r.declared, Resolved(r))
    <3>1. \A d \in R \cup {o} : s.declared[d] \subseteq {PrimaryOutput} \cup R
      BY <1>3, <1>4 DEF Building, Complete, R, D
    <3>2. NoCircle(s.declared, R \cup {o})
      BY <1>2, <1>3, <1>5, <3>1, NoNewCircle DEF Building, R
    <3> QED BY <1>12, <1>14, <3>2
  <2> QED BY <1>14, <2>1, <2>2, <2>3, <2>4 DEF Building
<1>19. Pace(r, r.at + 1)
  <2>1. Cardinality(Resolved(r)) = Cardinality(R) + 1
    BY <1>5, <1>6, <1>14, FS_AddElement
  <2>2. ~ Blocked(s, o)
    BY <1>4 DEF Blocked, D, R
  <2>3. Cardinality(R) >= s.pass - 1
    <3>1. ~ Stuck(s)
      BY <1>2, <1>5, <2>2 DEF Stuck, R
    <3> QED BY <1>2, <1>3, <1>6, <3>1 DEF Pace, R
  <2>4. Cardinality(Resolved(r)) >= r.pass
    BY <1>2, <1>6, <1>12, <2>1, <2>3
  <2> QED BY <2>4 DEF Pace
<1>20. SplitSound(split')
  <2>1. r.pass \in 1 .. Size /\ r.at \in 1 .. Size
    BY <1>3, <1>12
  <2> QED BY <1>1, <1>12, <1>17, <1>18, <1>19, <2>1, AdvanceSound
<1> QED BY <1>1, <1>20, SplitOnly

-----------------------------------------------------------------------------
\* The invariant of the lists holds throughout.
THEOREM ListsInvariance == ListsSpec => []ListsInv
<1>1. ListsInit => ListsInv
  BY ListsStart
<1>2. ListsInv /\ [ListsNext]_listVars => ListsInv'
  <2> SUFFICES ASSUME ListsInv, [ListsNext]_listVars PROVE ListsInv'
    OBVIOUS
  <2>1. CASE UNCHANGED listVars
    BY <2>1 DEF listVars, ListsInv, ManifestsSound, ImportVerdictExact, ProvidersSound, Realized, Analysed
  <2>2. ASSUME split.phase = "none", NEW t \in Upcoming, NEW deps \in Inputs,
               (\E e \in StoreEntries : Package(t, e, deps)) \/ (\E m \in manifests : PinnedImport(t, m, deps))
        PROVE  ListsInv'
    BY <2>2, PackageHolds, PinnedImportHolds
  <2>3. ASSUME split.phase = "none", NEW t \in Upcoming, NEW p \in Analysed, Wrap(t, p)
        PROVE  ListsInv'
    BY <2>3, WrapHolds
  <2>4. ASSUME split.phase = "none", NEW t \in Analysed, Export(t)
        PROVE  ListsInv'
    BY <2>4, ExportHolds
  <2>5. ASSUME split.phase = "none", NEW t \in Analysed, SplitInput(t), NEW declared \in Declarations,
               BeginSplit(t, <<info[t - 1]>>, declared)
        PROVE  ListsInv'
    BY <2>5, BeginSplitHolds
  <2>6. CASE SkipResolved
    BY <2>6, SkipResolvedHolds
  <2>7. CASE UnknownDependency
    BY <2>7, UnknownDependencyHolds
  <2>8. CASE Postpone
    BY <2>8, PostponeHolds
  <2>9. CASE Resolve
    BY <2>9, ResolveHolds
  <2> QED BY <2>1, <2>2, <2>3, <2>4, <2>5, <2>6, <2>7, <2>8, <2>9 DEF ListsNext
<1> QED BY <1>1, <1>2, PTL DEF ListsSpec

\* The k-th artifact of every provider realizes the k-th entry of its closure,
\* through any number of packages, wrappers, imports and split outputs.
THEOREM ListsStayParallel == ListsSpec => []ListsParallel
<1>1. ListsInv => ListsParallel
  BY DEF ListsInv, ProvidersSound, SplitSound, PackagesSound, Sound, ListsParallel
<1> QED BY <1>1, ListsInvariance, PTL

\* An import is refused exactly if the entries of its inputs are not the
\* references that it pins, in whatever order the inputs are.
THEOREM ImportVerdictsExact == ListsSpec => []ImportVerdictExact
<1>1. ListsInv => ImportVerdictExact
  BY DEF ListsInv
<1> QED BY <1>1, ListsInvariance, PTL

\* As many passes as there are split outputs resolve all graphs of them that
\* can be resolved, and every closure is complete then.
THEOREM SplitResolutionsExact == ListsSpec => []SplitResolutionExact
<1>1. ListsInv => SplitResolutionExact
  <2> SUFFICES ASSUME ListsInv PROVE SplitResolutionExact
    OBVIOUS
  <2>1. Resolvable <=> ResolvableBy(split.declared)
    BY DEF Resolvable, ResolvableBy
  <2>2. CASE split.phase = "failed"
    <3>1. ~ Resolvable
      BY <2>1, <2>2 DEF ListsInv, SplitSound
    <3> QED BY <2>2, <3>1 DEF SplitResolutionExact
  <2>3. CASE split.phase = "resolved"
    <3>1. SplitSound(split) /\ Building(split) /\ Resolved(split) = SplitNames
      BY <2>3 DEF ListsInv, SplitSound
    <3>2. \A o \in SplitNames : Complete(split, o)
      BY <3>1 DEF Building
    <3>3. Resolvable
      <4>1. DOMAIN split.declared = SplitNames
        BY <3>1 DEF Building, AllDeclared
      <4>2. \A o \in SplitNames : UnknownOutput \notin split.declared[o]
        <5>1. UnknownOutput \notin {PrimaryOutput} \cup SplitNames
          BY SizePositive DEF PrimaryOutput
        <5> QED BY <3>1, <3>2, <5>1 DEF Complete
      <4>3. \A S \in (SUBSET SplitNames) \ {{}} : \E o \in S : split.declared[o] \cap S = {}
        BY <3>1 DEF Building, NoCircle
      <4> QED BY <4>1, <4>2, <4>3 DEF Resolvable
    <3>4. \A o \in SplitNames :
            ToSet(split.packages[o].closure) =
              {SplitEntries[o]} \cup Collected(split.input)
                \cup UNION {ToSet(split.packages[d].closure) : d \in split.declared[o]}
      BY <3>2 DEF Complete
    <3>5. \A o \in SplitNames :
            ToSet(split.packages[o].closure) =
              {SplitEntries[o]}
                \cup (UNION {ToSet(split.input[i].closure) : i \in DOMAIN split.input})
                \cup UNION {ToSet(split.packages[d].closure) : d \in split.declared[o]}
      <4>1. Collected(split.input)
              = UNION {ToSet(split.input[i].closure) : i \in DOMAIN split.input}
        BY DEF Collected
      <4>2. ASSUME NEW o \in SplitNames
            PROVE  ToSet(split.packages[o].closure) =
                     {SplitEntries[o]} \cup Collected(split.input)
                       \cup UNION {ToSet(split.packages[d].closure) : d \in split.declared[o]}
        BY <3>4
      <4> HIDE DEF Collected
      <4> QED BY <4>1, <4>2
    <3>6. split.phase # "failed"
      BY <2>3
    <3> QED BY <2>3, <3>3, <3>5, <3>6, Zenon DEF SplitResolutionExact
  <2> QED BY <2>2, <2>3 DEF SplitResolutionExact
<1> QED BY <1>1, ListsInvariance, PTL

-----------------------------------------------------------------------------
\* q comes after p where directories are listed before what is in them: p is
\* above it, or the less where they part.
Parts(p, q, k) ==
  k \in 1 .. Len(p) /\ k <= Len(q) /\ (\A i \in 1 .. k - 1 : p[i] = q[i]) /\ p[k] < q[k]
Precedes(p, q) == p # q /\ (Under(p, q) \/ \E k \in 1 .. Len(p) : Parts(p, q, k))

\* That is an order.
LEMMA PrecedesOrder ==
  ASSUME NEW p \in Path, NEW q \in Path, NEW r \in Path, Precedes(p, q), Precedes(q, r)
  PROVE  Precedes(p, r)
<1>1. /\ Len(p) \in Nat /\ Len(q) \in Nat /\ Len(r) \in Nat
      /\ \A i \in 1 .. Len(p) : p[i] \in Nat
      /\ \A i \in 1 .. Len(q) : q[i] \in Nat
      /\ \A i \in 1 .. Len(r) : r[i] \in Nat
  BY DEF Path
<1>2. ASSUME NEW k, Parts(p, r, k) PROVE Precedes(p, r)
  BY <1>1, <1>2 DEF Parts, Precedes
<1>3. CASE Under(p, q) /\ Under(q, r)
  <2>1. Under(p, r)
    BY <1>3, UnderOrder
  <2>2. p # r
    <3>1. p = r => Len(p) = Len(q)
      <4>1. Len(p) <= Len(q) /\ Len(q) <= Len(r)
        BY <1>3, UnderOrder
      <4> QED BY <1>1, <4>1
    <3>2. Len(p) = Len(q) => p = q
      BY <1>3, UnderOrder
    <3> QED BY <3>1, <3>2 DEF Precedes
  <2> QED BY <2>1, <2>2 DEF Precedes
<1>4. CASE Under(p, q) /\ ~Under(q, r)
  <2>1. PICK k \in 1 .. Len(q) : Parts(q, r, k)
    BY <1>4 DEF Precedes
  <2>2. Len(p) <= Len(q) /\ \A i \in 1 .. Len(p) : p[i] = q[i]
    BY <1>4, UnderPositions
  <2>3. k \in Nat /\ k >= 1 /\ k <= Len(r) /\ (\A i \in 1 .. k - 1 : q[i] = r[i]) /\ q[k] < r[k]
    BY <1>1, <2>1 DEF Parts
  <2>4. CASE k <= Len(p)
    <3>1. k \in 1 .. Len(p) /\ 1 .. k - 1 \subseteq 1 .. Len(p)
      BY <1>1, <2>3, <2>4
    <3>2. Parts(p, r, k)
      BY <2>2, <2>3, <3>1 DEF Parts
    <3> QED BY <1>2, <3>2
  <2>5. CASE ~(k <= Len(p))
    <3>1. 1 .. Len(p) \subseteq 1 .. k - 1 /\ Len(p) < Len(r)
      BY <1>1, <2>3, <2>5
    <3>2. Len(p) <= Len(r) /\ \A i \in 1 .. Len(p) : p[i] = r[i]
      BY <1>1, <2>2, <2>3, <3>1
    <3>3. Under(p, r)
      BY <3>2, UnderPositions
    <3>4. p # r
      BY <1>1, <3>1
    <3> QED BY <3>3, <3>4 DEF Precedes
  <2> QED BY <2>4, <2>5
<1>5. CASE ~Under(p, q) /\ Under(q, r)
  <2>1. PICK k \in 1 .. Len(p) : Parts(p, q, k)
    BY <1>5 DEF Precedes
  <2>2. Len(q) <= Len(r) /\ \A i \in 1 .. Len(q) : q[i] = r[i]
    BY <1>5, UnderPositions
  <2>3. k \in 1 .. Len(q) /\ 1 .. k - 1 \subseteq 1 .. Len(q) /\ k <= Len(r)
    BY <1>1, <2>1, <2>2 DEF Parts
  <2>4. Parts(p, r, k)
    BY <2>1, <2>2, <2>3 DEF Parts
  <2> QED BY <1>2, <2>4
<1>6. CASE ~Under(p, q) /\ ~Under(q, r)
  <2>1. PICK k \in 1 .. Len(p) : Parts(p, q, k)
    BY <1>6 DEF Precedes
  <2>2. PICK l \in 1 .. Len(q) : Parts(q, r, l)
    BY <1>6 DEF Precedes
  <2>3. /\ k \in Nat /\ k <= Len(q) /\ (\A i \in 1 .. k - 1 : p[i] = q[i]) /\ p[k] < q[k]
        /\ l \in Nat /\ l <= Len(r) /\ (\A i \in 1 .. l - 1 : q[i] = r[i]) /\ q[l] < r[l]
        /\ k >= 1 /\ l >= 1
    BY <1>1, <2>1, <2>2 DEF Parts
  <2>4. CASE k < l
    <3>1. k \in 1 .. l - 1 /\ 1 .. k - 1 \subseteq 1 .. l - 1 /\ k <= Len(r)
      BY <1>1, <2>3, <2>4
    <3>2. Parts(p, r, k)
      BY <2>1, <2>3, <3>1 DEF Parts
    <3> QED BY <1>2, <3>2
  <2>5. CASE k = l
    <3>1. p[k] < r[k]
      <4>1. p[k] \in Nat /\ q[k] \in Nat /\ r[k] \in Nat
        <5>1. k \in 1 .. Len(q) /\ k \in 1 .. Len(r)
          BY <1>1, <2>3, <2>5
        <5> QED BY <1>1, <2>1, <5>1
      <4> QED BY <2>3, <2>5, <4>1
    <3>2. Parts(p, r, k)
      BY <2>1, <2>3, <2>5, <3>1 DEF Parts
    <3> QED BY <1>2, <3>2
  <2>6. CASE l < k
    <3>1. l \in 1 .. k - 1 /\ 1 .. l - 1 \subseteq 1 .. k - 1 /\ l \in 1 .. Len(p)
      BY <1>1, <2>1, <2>3, <2>6
    <3>2. p[l] = q[l]
      BY <2>3, <3>1
    <3>3. Parts(p, r, l)
      BY <2>3, <3>1, <3>2 DEF Parts
    <3> QED BY <1>2, <3>3
  <2> QED BY <2>3, <2>4, <2>5, <2>6
<1> QED BY <1>3, <1>4, <1>5, <1>6

\* Records whose paths come in that order.
InPreorder(s) == \A i, j \in DOMAIN s : i < j => Precedes(s[i].path, s[j].path)

\* There is one such list of given records.
LEMMA OnePreorder ==
  ASSUME NEW B, \A b \in B : b.path \in Path,
         NEW s \in Seq(B), NEW u \in Seq(B), InPreorder(s), InPreorder(u), ToSet(s) = ToSet(u)
  PROVE  s = u
<1>1. /\ Len(s) \in Nat /\ Len(u) \in Nat /\ DOMAIN s = 1 .. Len(s) /\ DOMAIN u = 1 .. Len(u)
      /\ \A i \in DOMAIN s : s[i].path \in Path
      /\ \A i \in DOMAIN u : u[i].path \in Path
  OBVIOUS
<1>2. ASSUME NEW a \in Seq(B), NEW b \in Seq(B), InPreorder(a), InPreorder(b), ToSet(a) = ToSet(b),
             NEW i \in DOMAIN a, i \in DOMAIN b, \A h \in 1 .. i - 1 : a[h] = b[h]
      PROVE  a[i] = b[i]
  <2>1. /\ DOMAIN a = 1 .. Len(a) /\ DOMAIN b = 1 .. Len(b) /\ Len(a) \in Nat /\ Len(b) \in Nat
        /\ \A h \in DOMAIN a : a[h].path \in Path
        /\ \A h \in DOMAIN b : b[h].path \in Path
    OBVIOUS
  <2>2. PICK k \in DOMAIN b : b[k] = a[i]
    BY <1>2 DEF ToSet
  <2>3. PICK l \in DOMAIN a : a[l] = b[i]
    BY <1>2 DEF ToSet
  <2>4. \A h \in DOMAIN a : h < i => a[h] # a[i]
    BY <1>2 DEF InPreorder, Precedes
  <2>5. \A h \in DOMAIN b : h < i => b[h] # b[i]
    BY <1>2 DEF InPreorder, Precedes
  <2>6. ~(k < i)
    <3>1. SUFFICES ASSUME k < i PROVE FALSE
      OBVIOUS
    <3>2. k \in 1 .. i - 1 /\ k \in DOMAIN a
      <4>1. k \in Nat /\ k >= 1 /\ i \in Nat /\ i <= Len(a) /\ Len(a) \in Nat
        BY <2>1
      <4> QED BY <2>1, <3>1, <4>1
    <3> QED BY <1>2, <2>2, <2>4, <3>1, <3>2
  <2>7. ~(l < i)
    <3>1. SUFFICES ASSUME l < i PROVE FALSE
      OBVIOUS
    <3>2. l \in 1 .. i - 1 /\ l \in DOMAIN b
      <4>1. l \in Nat /\ l >= 1 /\ i \in Nat /\ i <= Len(b) /\ Len(b) \in Nat
        BY <1>2, <2>1
      <4> QED BY <2>1, <3>1, <4>1
    <3> QED BY <1>2, <2>3, <2>5, <3>1, <3>2
  <2>8. CASE k = i
    BY <2>2, <2>8
  <2>9. CASE l = i
    BY <2>3, <2>9
  <2>10. CASE i < k /\ i < l
    <3>1. Precedes(b[i].path, b[k].path)
      BY <1>2, <2>10 DEF InPreorder
    <3>2. Precedes(a[i].path, a[l].path)
      BY <1>2, <2>10 DEF InPreorder
    <3>3. Precedes(a[i].path, a[i].path)
      <4>1. a[i].path \in Path /\ b[i].path \in Path
        BY <1>2, <2>1
      <4>2. Precedes(a[i].path, b[i].path) /\ Precedes(b[i].path, a[i].path)
        BY <2>2, <2>3, <3>1, <3>2
      <4> QED BY <4>1, <4>2, PrecedesOrder
    <3> QED BY <3>3 DEF Precedes
  <2>11. k \in Nat /\ l \in Nat /\ i \in Nat
    BY <2>1
  <2> QED BY <2>6, <2>7, <2>8, <2>9, <2>10, <2>11
<1> DEFINE Same(i) == i \in DOMAIN s /\ i \in DOMAIN u => s[i] = u[i]
           S == {n \in Nat : \A i \in 1 .. n : Same(i)}
<1>3. 0 \in S
  OBVIOUS
<1>4. ASSUME NEW n \in Nat, n \in S PROVE n + 1 \in S
  <2>1. Same(n + 1)
    <3> SUFFICES ASSUME n + 1 \in DOMAIN s, n + 1 \in DOMAIN u PROVE s[n + 1] = u[n + 1]
      OBVIOUS
    <3>1. \A h \in 1 .. (n + 1) - 1 : s[h] = u[h]
      <4>1. \A h \in 1 .. (n + 1) - 1 : h \in 1 .. n /\ h \in DOMAIN s /\ h \in DOMAIN u
        BY <1>1
      <4> QED BY <1>4, <4>1
    <3> HIDE DEF S, Same
    <3> QED BY <1>2, <3>1
  <2>2. \A i \in 1 .. n + 1 : i \in 1 .. n \/ i = n + 1
    OBVIOUS
  <2> HIDE DEF Same
  <2> QED BY <1>4, <2>1, <2>2
<1>5. \A i \in DOMAIN s : Same(i)
  <2>1. Nat \subseteq S
    <3> HIDE DEF S
    <3> QED BY <1>3, <1>4, Induction
  <2> HIDE DEF Same
  <2>2. \A i \in DOMAIN s : i \in Nat /\ i \in 1 .. i
    BY <1>1
  <2> QED BY <2>1, <2>2
<1>6. ASSUME NEW a \in Seq(B), NEW b \in Seq(B), InPreorder(a), ToSet(a) = ToSet(b),
             \A i \in DOMAIN a : i \in DOMAIN b => a[i] = b[i]
      PROVE  Len(a) <= Len(b)
  <2>1. /\ DOMAIN a = 1 .. Len(a) /\ DOMAIN b = 1 .. Len(b) /\ Len(a) \in Nat /\ Len(b) \in Nat
    OBVIOUS
  <2>2. SUFFICES ASSUME Len(a) > Len(b) PROVE FALSE
    BY <2>1
  <2> DEFINE n == Len(a)
  <2>3. n \in DOMAIN a
    BY <2>1, <2>2
  <2>4. PICK k \in DOMAIN b : b[k] = a[n]
    BY <1>6, <2>3 DEF ToSet
  <2>5. k \in DOMAIN a /\ k < n /\ a[k] = a[n]
    BY <1>6, <2>1, <2>2, <2>4
  <2> QED BY <1>6, <2>3, <2>5 DEF InPreorder, Precedes
<1>7. Len(s) = Len(u)
  <2>1. Len(s) <= Len(u)
    BY <1>5, <1>6
  <2>2. \A i \in DOMAIN u : i \in DOMAIN s => u[i] = s[i]
    BY <1>5
  <2>3. Len(u) <= Len(s)
    <3> HIDE DEF Same
    <3> QED BY <1>6, <2>2
  <2>4. Len(s) \in Nat /\ Len(u) \in Nat
    OBVIOUS
  <2> HIDE DEF S, Same
  <2> QED BY <2>1, <2>3, <2>4
<1> QED BY <1>1, <1>5, <1>7, SeqEqual

\* Lists one behind the other.
LEMMA PreorderJoin ==
  ASSUME NEW B, NEW s \in Seq(B), NEW u \in Seq(B), InPreorder(s), InPreorder(u),
         \A x \in ToSet(s), y \in ToSet(u) : Precedes(x.path, y.path)
  PROVE  InPreorder(s \o u)
<1> DEFINE m == Len(s)
           n == Len(u)
           v == s \o u
<1>1. /\ m \in Nat /\ n \in Nat /\ DOMAIN s = 1 .. m /\ DOMAIN u = 1 .. n /\ DOMAIN v = 1 .. m + n
      /\ \A i \in 1 .. m + n : v[i] = IF i <= m THEN s[i] ELSE u[i - m]
  BY ConcatProperties, LenProperties
<1> HIDE DEF v, m, n
<1>2. \A i \in 1 .. m + n :
        \/ i <= m /\ i \in DOMAIN s /\ v[i] = s[i] /\ v[i] \in ToSet(s)
        \/ i > m /\ i - m \in DOMAIN u /\ v[i] = u[i - m] /\ v[i] \in ToSet(u)
  <2> TAKE i \in 1 .. m + n
  <2>1. CASE i <= m
    <3>1. i \in 1 .. m /\ v[i] = s[i]
      BY <1>1, <2>1
    <3> QED BY <1>1, <2>1, <3>1 DEF ToSet
  <2>2. CASE i > m
    <3>1. i - m \in 1 .. n /\ v[i] = u[i - m]
      BY <1>1, <2>2
    <3> QED BY <1>1, <2>2, <3>1 DEF ToSet
  <2> QED BY <1>1, <2>1, <2>2
<1>3. ASSUME NEW i \in 1 .. m + n, NEW j \in 1 .. m + n, i < j
      PROVE  Precedes(v[i].path, v[j].path)
  <2>1. CASE j <= m
    <3>1. i <= m
      BY <1>1, <1>3, <2>1
    <3>2. i \in DOMAIN s /\ j \in DOMAIN s /\ v[i] = s[i] /\ v[j] = s[j]
      BY <1>1, <1>2, <2>1, <3>1
    <3> QED BY <1>3, <3>2 DEF InPreorder
  <2>2. CASE i > m
    <3>1. j > m /\ i - m < j - m
      BY <1>1, <1>3, <2>2
    <3>2. i - m \in DOMAIN u /\ j - m \in DOMAIN u /\ v[i] = u[i - m] /\ v[j] = u[j - m]
      BY <1>1, <1>2, <2>2, <3>1
    <3> QED BY <3>1, <3>2 DEF InPreorder
  <2>3. CASE i <= m /\ j > m
    <3>1. v[i] \in ToSet(s) /\ v[j] \in ToSet(u)
      BY <1>1, <1>2, <2>3
    <3> QED BY <3>1
  <2> QED BY <1>1, <2>1, <2>2, <2>3
<1> QED BY <1>1, <1>3 DEF InPreorder, v

\* Many lists one behind the other.
LEMMA PreorderFlatten ==
  ASSUME NEW B, NEW seqs \in Seq(Seq(B)), \A i \in DOMAIN seqs : InPreorder(seqs[i]),
         \A i, j \in DOMAIN seqs : i < j =>
           \A x \in ToSet(seqs[i]), y \in ToSet(seqs[j]) : Precedes(x.path, y.path)
  PROVE  InPreorder(FlattenSeq(seqs))
<1> DEFINE n == Len(seqs)
<1>1. PICK f \in [0 .. n -> Seq(B)] :
        /\ f[0] = << >>
        /\ \A k \in 1 .. n : f[k] = f[k - 1] \o seqs[k]
        /\ FlattenSeq(seqs) = f[n]
  BY FlattenSteps
<1>2. n \in Nat /\ DOMAIN seqs = 1 .. n /\ \A k \in 1 .. n : seqs[k] \in Seq(B)
  OBVIOUS
<1> HIDE DEF n
<1> DEFINE Good(k) == /\ InPreorder(f[k])
                      /\ \A x \in ToSet(f[k]) : \E i \in 1 .. k : x \in ToSet(seqs[i])
           S == {k \in Nat : k <= n => Good(k)}
<1>3. 0 \in S
  <2>1. DOMAIN f[0] = {} /\ ToSet(f[0]) = {}
    BY <1>1 DEF ToSet
  <2> QED BY <2>1 DEF InPreorder
<1>4. ASSUME NEW k \in Nat, k \in S PROVE k + 1 \in S
  <2> SUFFICES ASSUME k + 1 <= n PROVE Good(k + 1)
    OBVIOUS
  <2>1. /\ k + 1 \in 1 .. n /\ (k + 1) - 1 = k /\ k \in 0 .. n /\ Good(k)
    BY <1>2, <1>4
  <2>2. f[k] \in Seq(B) /\ seqs[k + 1] \in Seq(B) /\ f[k + 1] = f[k] \o seqs[k + 1]
    BY <1>1, <1>2, <2>1
  <2>3. ASSUME NEW x \in ToSet(f[k]), NEW y \in ToSet(seqs[k + 1])
        PROVE  Precedes(x.path, y.path)
    <3>1. PICK i \in 1 .. k : x \in ToSet(seqs[i])
      BY <2>1
    <3>2. i \in DOMAIN seqs /\ k + 1 \in DOMAIN seqs /\ i < k + 1
      BY <1>2, <2>1
    <3> QED BY <3>1, <3>2
  <2>4. InPreorder(f[k]) /\ InPreorder(seqs[k + 1])
    BY <1>2, <2>1
  <2> HIDE DEF Good, S
  <2>5. InPreorder(f[k + 1])
    BY <2>2, <2>3, <2>4, PreorderJoin
  <2>6. ToSet(f[k + 1]) = ToSet(f[k]) \cup ToSet(seqs[k + 1])
    BY <2>2, JoinElements
  <2>7. k + 1 \in 1 .. k + 1 /\ 1 .. k \subseteq 1 .. k + 1
    OBVIOUS
  <2> QED BY <2>1, <2>5, <2>6, <2>7 DEF Good
<1>5. Good(n)
  <2>1. Nat \subseteq S
    <3> HIDE DEF S
    <3> QED BY <1>3, <1>4, Induction
  <2> HIDE DEF Good
  <2> QED BY <1>2, <2>1
<1> QED BY <1>1, <1>5

-----------------------------------------------------------------------------
\* A loop of any length can be run.
LEMMA LoopExists ==
  ASSUME NEW n \in Nat, NEW A, NEW base \in A, NEW step \in [(1 .. n) \X A -> A]
  PROVE  \E f : Folded(f, n, A, base, step)
<1>1. PICK g : IsFold(g, n, A, base, step)
  BY FoldExists
<1>2. Iterates(g, n, A, base, step)
  <2>1. g[{}] = base
    BY <1>1 DEF IsFold
  <2>2. \A T \in SUBSET (1 .. n) : T # {} => g[T] = step[<<Max(T), g[T \ {Max(T)}]>>]
    BY <1>1 DEF IsFold
  <2> QED BY <2>1, <2>2 DEF Iterates
<1> QED BY <1>2, FoldSteps

\* The paths of a tree are of bounded length.
LEMMA DepthBounded ==
  ASSUME NEW t, FiniteTree(t)
  PROVE  \E depth \in Nat : \A p \in DOMAIN t : Len(p) \in Nat /\ Len(p) <= depth
<1> DEFINE S == {Len(p) : p \in DOMAIN t}
           names == InOrder(S)
           n == Cardinality(S)
<1>1. DOMAIN t \subseteq Path /\ IsFiniteSet(DOMAIN t) /\ Root \in DOMAIN t
  BY DEF FiniteTree, IsTree
<1>2. \A p \in DOMAIN t : Len(p) \in Nat
  BY <1>1 DEF Path
<1>3. IsFiniteSet(S) /\ S \in SUBSET Nat
  <2> DEFINE f == [p \in DOMAIN t |-> Len(p)]
  <2>1. f \in Surjection(DOMAIN t, S)
    BY DEF Surjection
  <2> HIDE DEF f
  <2>2. IsFiniteSet(S)
    BY <1>1, <2>1, FS_Surjection
  <2> QED BY <1>2, <2>2
<1>4. /\ names \in [1 .. n -> S] /\ n \in Nat /\ ToSet(names) = S
      /\ \A i, j \in 1 .. n : i < j => names[i] < names[j]
  <2> HIDE DEF S
  <2> QED BY <1>3, InOrderProperties
<1>5. \A x \in S : \E i \in 1 .. n : x = names[i]
  BY <1>4 DEF ToSet
<1>6. Len(Root) \in S
  BY <1>1
<1>7. n >= 1
  <2>1. PICK i \in 1 .. n : Len(Root) = names[i]
    BY <1>5, <1>6
  <2> QED BY <1>4, <2>1
<1> HIDE DEF names, n
<1>8. \A x \in S : x <= names[n]
  <2> SUFFICES ASSUME NEW x \in S PROVE x <= names[n]
    OBVIOUS
  <2>1. PICK i \in 1 .. n : x = names[i]
    BY <1>5
  <2>2. n \in 1 .. n /\ (i = n \/ i < n)
    BY <1>4, <1>7
  <2>3. names[n] \in Nat /\ names[i] \in Nat
    BY <1>3, <1>4, <2>2
  <2> QED BY <1>4, <2>1, <2>2, <2>3
<1>9. names[n] \in Nat
  <2>1. n \in 1 .. n
    BY <1>4, <1>7
  <2> QED BY <1>3, <1>4, <2>1
<1> QED BY <1>2, <1>8, <1>9

\* sorted_dir_entries lists by name.
LEMMA EntriesInOrder ==
  ASSUME NEW t, FiniteTree(t), NEW d \in Path,
         NEW i \in DOMAIN Entries(t, d), NEW j \in DOMAIN Entries(t, d), i < j
  PROVE  Name(Entries(t, d)[i]) < Name(Entries(t, d)[j])
<1> DEFINE C == Children(t, d)
           N == {Name(p) : p \in C}
           names == InOrder(N)
           n == Cardinality(N)
<1>1. DOMAIN t \subseteq Path /\ C \subseteq DOMAIN t
  BY DEF FiniteTree, Children
<1>2. \A c \in C : Name(c) \in Nat
  <2> SUFFICES ASSUME NEW c \in C PROVE Name(c) \in Nat
    OBVIOUS
  <2>1. c \in Path /\ c # Root
    BY <1>1 DEF Children
  <2> QED BY <2>1, PathHasParent
<1>3. IsFiniteSet(N) /\ N \in SUBSET Nat
  <2>1. IsFiniteSet(C)
    BY <1>1, FS_Subset DEF FiniteTree
  <2> DEFINE f == [c \in C |-> Name(c)]
  <2>2. f \in Surjection(C, N)
    BY DEF Surjection
  <2> HIDE DEF f, C
  <2>3. IsFiniteSet(N)
    BY <2>1, <2>2, FS_Surjection
  <2> QED BY <1>2, <2>3
<1>4. /\ names \in [1 .. n -> N] /\ n \in Nat
      /\ \A k, l \in 1 .. n : k < l => names[k] < names[l]
  <2> HIDE DEF N
  <2> QED BY <1>3, InOrderProperties
<1>5. Entries(t, d) = [k \in DOMAIN names |-> Append(d, names[k])]
  BY DEF Entries, Children
<1>6. DOMAIN Entries(t, d) = 1 .. n
  <2> HIDE DEF names, n
  <2> QED BY <1>4, <1>5
<1>7. \A k \in 1 .. n : Name(Entries(t, d)[k]) = names[k]
  <2> SUFFICES ASSUME NEW k \in 1 .. n PROVE Name(Entries(t, d)[k]) = names[k]
    OBVIOUS
  <2> HIDE DEF names, n
  <2>1. names[k] \in Nat
    BY <1>3, <1>4
  <2>2. Entries(t, d)[k] = Append(d, names[k])
    BY <1>4, <1>5
  <2> QED BY <2>1, <2>2, PathOfChild
<1> QED BY <1>4, <1>6, <1>7

\* What lies below a lesser name is listed before what lies below a greater one.
LEMMA SiblingsPrecede ==
  ASSUME NEW d \in Path, NEW m \in Nat, NEW n \in Nat, m < n,
         NEW p \in Path, NEW q \in Path, Under(Append(d, m), p), Under(Append(d, n), q)
  PROVE  Precedes(p, q)
<1> DEFINE k == Len(d) + 1
           c == Append(d, m)
           e == Append(d, n)
<1>1. /\ c \in Path /\ e \in Path /\ Len(c) = k /\ Len(e) = k /\ Len(d) \in Nat
      /\ c[k] = m /\ e[k] = n /\ \A i \in 1 .. k - 1 : c[i] = d[i] /\ e[i] = d[i]
  BY AppendProperties DEF Path
<1> HIDE DEF c, e
<1>2. k <= Len(p) /\ \A i \in 1 .. k : p[i] = c[i]
  <2>1. Under(c, p)
    BY DEF c
  <2>2. Len(c) <= Len(p) /\ \A i \in 1 .. Len(c) : c[i] = p[i]
    BY <1>1, <2>1, UnderPositions
  <2> HIDE DEF k
  <2> QED BY <1>1, <2>2
<1>3. k <= Len(q) /\ \A i \in 1 .. k : q[i] = e[i]
  <2>1. Under(e, q)
    BY DEF e
  <2>2. Len(e) <= Len(q) /\ \A i \in 1 .. Len(e) : e[i] = q[i]
    BY <1>1, <2>1, UnderPositions
  <2> HIDE DEF k
  <2> QED BY <1>1, <2>2
<1>4. Len(p) \in Nat /\ Len(q) \in Nat
  BY DEF Path
<1>5. k \in 1 .. Len(p) /\ k \in 1 .. k /\ 1 .. k - 1 \subseteq 1 .. k
  BY <1>1, <1>2, <1>4
<1>6. Parts(p, q, k)
  BY <1>1, <1>2, <1>3, <1>5 DEF Parts
<1>7. p # q
  BY <1>1, <1>2, <1>3, <1>5
<1> QED BY <1>5, <1>6, <1>7 DEF Precedes

-----------------------------------------------------------------------------
\* One step of encode_entry, given the lists for the entries.
Branches(t, f, p) == [i \in DOMAIN Entries(t, p) |-> f[Entries(t, p)[i]]]
Level(t, f) == [p \in DOMAIN t |-> <<EntryRecord(t, p)>> \o FlattenSeq(Branches(t, f, p))]

LEMMA EntryPath ==
  ASSUME NEW t, NEW p
  PROVE  EntryRecord(t, p).path = p
BY DEF EntryRecord, ArchiveRecord

\* The records of a tree.
RecordsOf(t) == {EntryRecord(t, p) : p \in DOMAIN t}

LEMMA LevelTyped ==
  ASSUME NEW t, FiniteTree(t), NEW f \in [DOMAIN t -> Seq(RecordsOf(t))]
  PROVE  /\ \A p \in DOMAIN t : Branches(t, f, p) \in Seq(Seq(RecordsOf(t)))
         /\ Level(t, f) \in [DOMAIN t -> Seq(RecordsOf(t))]
<1> DEFINE B == RecordsOf(t)
<1>1. ASSUME NEW p \in DOMAIN t
      PROVE  Branches(t, f, p) \in Seq(Seq(B))
  <2>1. p \in Path
    BY DEF FiniteTree
  <2>2. /\ Entries(t, p) \in Seq(Path) /\ ToSet(Entries(t, p)) = Children(t, p)
    BY <2>1, EntriesAreChildren
  <2>3. \A i \in DOMAIN Entries(t, p) : Entries(t, p)[i] \in DOMAIN t
    BY <2>2 DEF ToSet, Children
  <2>4. DOMAIN Entries(t, p) = 1 .. Len(Entries(t, p)) /\ Len(Entries(t, p)) \in Nat
    BY <2>2
  <2> DEFINE n == Len(Entries(t, p))
  <2>5. Branches(t, f, p) \in [1 .. n -> Seq(B)]
    <3> HIDE DEF B, n
    <3> QED BY <2>3, <2>4 DEF Branches, B, n
  <2> HIDE DEF B
  <2> QED BY <2>4, <2>5, SeqDef
<1>2. ASSUME NEW p \in DOMAIN t
      PROVE  <<EntryRecord(t, p)>> \o FlattenSeq(Branches(t, f, p)) \in Seq(B)
  <2>1. FlattenSeq(Branches(t, f, p)) \in Seq(B)
    <3> HIDE DEF B
    <3> QED BY <1>1, <1>2, FlattenElements
  <2>2. EntryRecord(t, p) \in B
    BY <1>2 DEF RecordsOf
  <2> HIDE DEF B
  <2> QED BY <2>1, <2>2
<1> QED BY <1>1, <1>2 DEF Level

\* encode_tree ends: there are lists for all entries.
LEMMA ListsExist ==
  ASSUME NEW t, FiniteTree(t)
  PROVE  \E f \in [DOMAIN t -> Seq(RecordsOf(t))] : f = Level(t, f)
<1>1. PICK depth \in Nat : \A p \in DOMAIN t : Len(p) \in Nat /\ Len(p) <= depth
  BY DepthBounded
<1> DEFINE A == [DOMAIN t -> Seq(RecordsOf(t))]
           n == depth + 2
           base == [p \in DOMAIN t |-> << >>]
           step == [x \in (1 .. n) \X A |-> Level(t, x[2])]
<1>2. base \in A
  BY DEF RecordsOf
<1>3. \A h \in A : Level(t, h) \in A
  BY LevelTyped
<1> HIDE DEF A, base
<1>4. step \in [(1 .. n) \X A -> A]
  BY <1>3
<1>5. PICK f : Folded(f, n, A, base, step)
  <2> HIDE DEF step
  <2>1. n \in Nat
    OBVIOUS
  <2> HIDE DEF n
  <2> QED BY <1>2, <1>4, <2>1, LoopExists
<1>6. /\ f \in [0 .. n -> A]
      /\ \A k \in 1 .. n : f[k - 1] \in A /\ f[k] = Level(t, f[k - 1])
  <2>1. f \in [0 .. n -> A] /\ \A k \in 1 .. n : f[k] = step[<<k, f[k - 1]>>]
    <3> HIDE DEF step, n
    <3> QED BY <1>5 DEF Folded
  <2>2. \A k \in 1 .. n : k - 1 \in 0 .. n
    OBVIOUS
  <2> QED BY <2>1, <2>2
<1> HIDE DEF step
<1> DEFINE Stable(k) == \A p \in DOMAIN t : Len(p) + k > depth => f[k][p] = f[k + 1][p]
           S == {k \in Nat : k + 1 <= n => Stable(k)}
<1>7. 0 \in S
  <2>1. \A p \in DOMAIN t : ~(Len(p) + 0 > depth)
    BY <1>1
  <2> QED BY <2>1
<1>8. ASSUME NEW k \in Nat, k \in S PROVE k + 1 \in S
  <2> SUFFICES ASSUME (k + 1) + 1 <= n, NEW p \in DOMAIN t, Len(p) + (k + 1) > depth
               PROVE  f[k + 1][p] = f[(k + 1) + 1][p]
    OBVIOUS
  <2>1. Stable(k) /\ k + 1 \in 1 .. n /\ (k + 1) + 1 \in 1 .. n
    BY <1>8
  <2>2. f[k + 1] = Level(t, f[k]) /\ f[(k + 1) + 1] = Level(t, f[k + 1])
    <3>1. (k + 1) - 1 = k /\ ((k + 1) + 1) - 1 = k + 1
      OBVIOUS
    <3> HIDE DEF n
    <3> QED BY <1>6, <2>1, <3>1
  <2>3. p \in Path
    BY DEF FiniteTree
  <2>4. ASSUME NEW i \in DOMAIN Entries(t, p)
        PROVE  f[k][Entries(t, p)[i]] = f[k + 1][Entries(t, p)[i]]
    <3> DEFINE c == Entries(t, p)[i]
    <3>1. c \in Children(t, p)
      BY <2>3, EntriesAreChildren DEF ToSet
    <3>2. c \in DOMAIN t /\ Len(c) = Len(p) + 1
      BY <2>3, <3>1, EntriesAreChildren DEF Children
    <3> HIDE DEF c
    <3>3. Len(c) + k > depth
      BY <1>1, <3>2
    <3> QED BY <2>1, <3>2, <3>3 DEF c
  <2>5. Branches(t, f[k], p) = Branches(t, f[k + 1], p)
    BY <2>4 DEF Branches
  <2> QED BY <2>2, <2>5 DEF Level
<1>9. Stable(depth + 1)
  <2>1. Nat \subseteq S
    <3> HIDE DEF S
    <3> QED BY <1>7, <1>8, Induction
  <2>2. depth + 1 \in S /\ (depth + 1) + 1 <= n
    BY <2>1
  <2> HIDE DEF Stable
  <2> QED BY <2>2
<1> DEFINE g == f[depth + 1]
           h == f[(depth + 1) + 1]
<1>10. depth + 1 \in 0 .. n /\ (depth + 1) + 1 \in 1 .. n /\ ((depth + 1) + 1) - 1 = depth + 1
  OBVIOUS
<1>11. g \in A /\ h \in A /\ h = Level(t, g)
  <2>1. (depth + 1) + 1 \in 0 .. n
    OBVIOUS
  <2> HIDE DEF n
  <2> QED BY <1>6, <1>10, <2>1
<1>12. \A p \in DOMAIN t : g[p] = h[p]
  <2>1. \A p \in DOMAIN t : Len(p) + (depth + 1) > depth
    BY <1>1
  <2> QED BY <1>9, <2>1
<1> HIDE DEF g, h
<1>13. g = h
  BY <1>11, <1>12 DEF A
<1> QED BY <1>11, <1>13 DEF A

\* The list for an entry has the entries at or under it, in preorder.
LEMMA ListsInPreorder ==
  ASSUME NEW t, FiniteTree(t), NEW f \in [DOMAIN t -> Seq(RecordsOf(t))], f = Level(t, f),
         NEW p \in DOMAIN t
  PROVE  InPreorder(f[p]) /\ ToSet(f[p]) = {EntryRecord(t, q) : q \in {x \in DOMAIN t : Under(p, x)}}
<1> DEFINE Beneath(d) == {EntryRecord(t, q) : q \in {x \in DOMAIN t : Under(d, x)}}
           Good(d) == InPreorder(f[d]) /\ ToSet(f[d]) = Beneath(d)
           B == RecordsOf(t)
<1>1. PICK depth \in Nat : \A d \in DOMAIN t : Len(d) \in Nat /\ Len(d) <= depth
  BY DepthBounded
<1>2. DOMAIN t \subseteq Path
  BY DEF FiniteTree
<1>3. ASSUME NEW d \in DOMAIN t, \A c \in Children(t, d) : Good(c)
      PROVE  Good(d)
  <2> DEFINE es == Entries(t, d)
             bs == Branches(t, f, d)
             own == <<EntryRecord(t, d)>>
  <2>1. d \in Path
    BY <1>2
  <2>2. f[d] = own \o FlattenSeq(bs)
    BY DEF Level
  <2>3. /\ es \in Seq(Path) /\ ToSet(es) = Children(t, d)
    BY <2>1, EntriesAreChildren
  <2>4. bs \in Seq(Seq(B)) /\ DOMAIN bs = DOMAIN es
    <3>1. bs \in Seq(Seq(B))
      BY LevelTyped
    <3> QED BY <3>1 DEF Branches
  <2>5. ASSUME NEW i \in DOMAIN es
        PROVE  /\ es[i] \in Children(t, d) /\ bs[i] = f[es[i]] /\ Good(es[i])
               /\ es[i] \in Path /\ Name(es[i]) \in Nat /\ es[i] = Append(d, Name(es[i]))
    <3>1. es[i] \in Children(t, d)
      BY <2>3 DEF ToSet
    <3>2. es[i] \in Path /\ es[i] # Root /\ Parent(es[i]) = d
      BY <1>2, <3>1 DEF Children
    <3>3. bs[i] = f[es[i]]
      BY DEF Branches
    <3> HIDE DEF es, Good
    <3>4. Good(es[i])
      BY <1>3, <3>1
    <3> QED BY <3>1, <3>2, <3>3, <3>4, PathHasParent
  <2>6. \A i \in DOMAIN bs : InPreorder(bs[i]) /\ ToSet(bs[i]) = Beneath(es[i])
    <3> HIDE DEF Beneath, es, bs
    <3> QED BY <2>4, <2>5
  <2>7. ASSUME NEW i \in DOMAIN bs, NEW j \in DOMAIN bs, i < j,
               NEW x \in ToSet(bs[i]), NEW y \in ToSet(bs[j])
        PROVE  Precedes(x.path, y.path)
    <3>1. PICK q \in DOMAIN t : Under(es[i], q) /\ x = EntryRecord(t, q)
      BY <2>6
    <3>2. PICK r \in DOMAIN t : Under(es[j], r) /\ y = EntryRecord(t, r)
      BY <2>6
    <3>3. x.path = q /\ y.path = r /\ q \in Path /\ r \in Path
      BY <1>2, <3>1, <3>2, EntryPath
    <3>4. i \in DOMAIN es /\ j \in DOMAIN es
      BY <2>4
    <3>5. Name(es[i]) < Name(es[j])
      BY <2>1, <2>7, <3>4, EntriesInOrder
    <3> HIDE DEF es, bs
    <3> DEFINE m == Name(es[i])
               n == Name(es[j])
    <3>6. m \in Nat /\ n \in Nat /\ es[i] = Append(d, m) /\ es[j] = Append(d, n) /\ m < n
      BY <2>5, <3>4, <3>5
    <3> HIDE DEF m, n
    <3>7. Under(Append(d, m), q) /\ Under(Append(d, n), r)
      BY <3>1, <3>2, <3>6
    <3>8. Precedes(q, r)
      BY <2>1, <3>3, <3>6, <3>7, SiblingsPrecede
    <3> QED BY <3>3, <3>8
  <2>8. InPreorder(FlattenSeq(bs)) /\ FlattenSeq(bs) \in Seq(B)
        /\ ToSet(FlattenSeq(bs)) = UNION {ToSet(bs[i]) : i \in DOMAIN bs}
    <3> HIDE DEF bs, B, Beneath
    <3>1. InPreorder(FlattenSeq(bs))
      BY <2>4, <2>6, <2>7, PreorderFlatten
    <3> QED BY <2>4, <3>1, FlattenElements
  <2> DEFINE rest == FlattenSeq(bs)
  <2>9. \A x \in ToSet(rest) : \E q \in DOMAIN t : /\ x = EntryRecord(t, q) /\ Under(d, q) /\ d # q
    <3> SUFFICES ASSUME NEW x \in ToSet(rest)
                 PROVE  \E q \in DOMAIN t : x = EntryRecord(t, q) /\ Under(d, q) /\ d # q
      OBVIOUS
    <3>1. PICK i \in DOMAIN bs : x \in ToSet(bs[i])
      BY <2>8
    <3>2. PICK q \in DOMAIN t : x = EntryRecord(t, q) /\ Under(es[i], q)
      BY <2>6, <3>1
    <3> DEFINE c == es[i]
    <3>3. c \in Children(t, d) /\ c \in Path /\ q \in Path
      BY <1>2, <2>4, <2>5
    <3> HIDE DEF c
    <3>4. Under(d, c) /\ Len(c) = Len(d) + 1
      BY <2>1, <3>3, EntriesAreChildren
    <3>5. Under(c, q)
      BY <3>2 DEF c
    <3>6. Under(d, q)
      BY <2>1, <3>3, <3>4, <3>5, UnderOrder
    <3>7. d # q
      <4>1. Len(c) <= Len(q)
        BY <3>3, <3>5, UnderOrder
      <4>2. Len(d) \in Nat
        BY <1>1
      <4> QED BY <3>4, <4>1, <4>2
    <3> QED BY <3>2, <3>6, <3>7
  <2>10. ASSUME NEW q \in DOMAIN t, Under(d, q), d # q PROVE EntryRecord(t, q) \in ToSet(rest)
    <3>1. PICK c \in Children(t, d) : Under(c, q)
      BY <2>1, <2>10, BelowChild
    <3>2. PICK i \in DOMAIN es : es[i] = c
      BY <2>3 DEF ToSet
    <3>3. EntryRecord(t, q) \in ToSet(bs[i]) /\ i \in DOMAIN bs
      <4>1. i \in DOMAIN bs /\ ToSet(bs[i]) = Beneath(es[i])
        BY <2>4, <2>6
      <4> QED BY <2>10, <3>1, <3>2, <4>1
    <3> HIDE DEF bs, es
    <3> QED BY <2>8, <3>3
  <2>11. own \in Seq(B) /\ ToSet(own) = {EntryRecord(t, d)} /\ InPreorder(own)
    <3>1. EntryRecord(t, d) \in B
      BY <1>3 DEF RecordsOf
    <3>2. DOMAIN own = {1} /\ own[1] = EntryRecord(t, d)
      OBVIOUS
    <3>3. own \in Seq(B)
      BY <3>1
    <3>4. InPreorder(own)
      <4>1. \A i, j \in DOMAIN own : ~(i < j)
        BY <3>2
      <4> QED BY <4>1 DEF InPreorder
    <3>5. ToSet(own) = {EntryRecord(t, d)}
      BY <3>2 DEF ToSet
    <3> QED BY <3>3, <3>4, <3>5
  <2>12. \A x \in ToSet(own), y \in ToSet(rest) : Precedes(x.path, y.path)
    <3> SUFFICES ASSUME NEW y \in ToSet(rest) PROVE Precedes(EntryRecord(t, d).path, y.path)
      BY <2>11
    <3>1. PICK q \in DOMAIN t : y = EntryRecord(t, q) /\ Under(d, q) /\ d # q
      BY <2>9
    <3> QED BY <3>1, EntryPath DEF Precedes
  <2> HIDE DEF rest, own, bs, B
  <2>13. InPreorder(f[d]) /\ ToSet(f[d]) = ToSet(own) \cup ToSet(rest)
    <3>1. rest \in Seq(B) /\ InPreorder(rest) /\ f[d] = own \o rest
      BY <2>2, <2>8 DEF rest
    <3> QED BY <2>11, <2>12, <3>1, PreorderJoin, JoinElements
  <2>14. Under(d, d)
    BY <2>1, UnderOrder
  <2>15. \A x : x \in ToSet(f[d]) <=> x \in Beneath(d)
    BY <2>9, <2>10, <2>11, <2>13, <2>14
  <2> QED BY <2>13, <2>15
<1> DEFINE S == {k \in Nat : \A d \in DOMAIN t : Len(d) + k >= depth => Good(d)}
<1>4. \A d \in DOMAIN t : \A c \in Children(t, d) : c \in DOMAIN t /\ Len(c) = Len(d) + 1
  BY <1>2, EntriesAreChildren DEF Children
<1> HIDE DEF Good
<1>5. 0 \in S
  <2> SUFFICES ASSUME NEW d \in DOMAIN t, Len(d) + 0 >= depth PROVE Good(d)
    OBVIOUS
  <2>1. Children(t, d) = {}
    <3> SUFFICES ASSUME NEW c \in Children(t, d) PROVE FALSE
      OBVIOUS
    <3>1. Len(c) = Len(d) + 1 /\ Len(c) <= depth /\ Len(d) \in Nat
      BY <1>1, <1>4
    <3> QED BY <3>1
  <2> QED BY <1>3, <2>1
<1>6. ASSUME NEW k \in Nat, k \in S PROVE k + 1 \in S
  <2> SUFFICES ASSUME NEW d \in DOMAIN t, Len(d) + (k + 1) >= depth PROVE Good(d)
    OBVIOUS
  <2>1. ASSUME NEW c \in Children(t, d) PROVE Good(c)
    <3>1. c \in DOMAIN t /\ Len(c) = Len(d) + 1 /\ Len(d) \in Nat
      BY <1>1, <1>4
    <3>2. Len(c) + k >= depth
      BY <3>1
    <3> QED BY <1>6, <3>1, <3>2
  <2> QED BY <1>3, <2>1
<1>7. depth \in S
  <2> HIDE DEF S
  <2> QED BY <1>5, <1>6, Induction
<1>8. Len(p) + depth >= depth
  BY <1>1
<1> QED BY <1>7, <1>8 DEF Good

\* encode_tree ends on every finite tree and writes one record for every path
\* of it, directories before what is in them and siblings by name.
THEOREM EncodeInPreorder ==
  ASSUME NEW t, FiniteTree(t)
  PROVE  /\ Encode(t) \in Seq(RecordsOf(t)) /\ InPreorder(Encode(t))
         /\ ToSet(Encode(t)) = RecordsOf(t)
<1> DEFINE below == CHOOSE f : f = [p \in DOMAIN t |->
                      <<EntryRecord(t, p)>>
                        \o FlattenSeq([i \in DOMAIN Entries(t, p) |-> f[Entries(t, p)[i]]])]
<1>1. Encode(t) = below[Root]
  BY DEF Encode
<1>2. PICK g \in [DOMAIN t -> Seq(RecordsOf(t))] : g = Level(t, g)
  BY ListsExist
<1>3. g = [p \in DOMAIN t |->
             <<EntryRecord(t, p)>>
               \o FlattenSeq([i \in DOMAIN Entries(t, p) |-> g[Entries(t, p)[i]]])]
  BY <1>2 DEF Level, Branches
<1>4. below = [p \in DOMAIN t |->
                 <<EntryRecord(t, p)>>
                   \o FlattenSeq([i \in DOMAIN Entries(t, p) |-> below[Entries(t, p)[i]]])]
  BY <1>3
<1> HIDE DEF below
<1>5. below = Level(t, below)
  BY <1>4 DEF Level, Branches
<1>6. PICK depth \in Nat : \A d \in DOMAIN t : Len(d) \in Nat /\ Len(d) <= depth
  BY DepthBounded
<1> DEFINE Good(d) == below[d] = g[d]
<1>7. ASSUME NEW d \in DOMAIN t, \A c \in Children(t, d) : Good(c)
      PROVE  Good(d)
  <2>1. d \in Path
    BY DEF FiniteTree
  <2>2. ASSUME NEW i \in DOMAIN Entries(t, d)
        PROVE  below[Entries(t, d)[i]] = g[Entries(t, d)[i]]
    <3> DEFINE c == Entries(t, d)[i]
    <3>1. c \in Children(t, d)
      BY <2>1, EntriesAreChildren DEF ToSet
    <3> HIDE DEF c
    <3>2. below[c] = g[c]
      BY <1>7, <3>1
    <3> QED BY <3>2 DEF c
  <2>3. Branches(t, below, d) = Branches(t, g, d)
    BY <2>2 DEF Branches
  <2>4. /\ below[d] = <<EntryRecord(t, d)>> \o FlattenSeq(Branches(t, below, d))
        /\ g[d] = <<EntryRecord(t, d)>> \o FlattenSeq(Branches(t, g, d))
    BY <1>2, <1>5 DEF Level
  <2> QED BY <2>3, <2>4
<1> DEFINE S == {k \in Nat : \A d \in DOMAIN t : Len(d) + k >= depth => Good(d)}
<1>8. DOMAIN t \subseteq Path /\ Root \in DOMAIN t
  BY DEF FiniteTree, IsTree
<1>9. \A d \in DOMAIN t : \A c \in Children(t, d) : c \in DOMAIN t /\ Len(c) = Len(d) + 1
  BY <1>8, EntriesAreChildren DEF Children
<1> HIDE DEF Good
<1>10. 0 \in S
  <2> SUFFICES ASSUME NEW d \in DOMAIN t, Len(d) + 0 >= depth PROVE Good(d)
    OBVIOUS
  <2>1. Children(t, d) = {}
    <3> SUFFICES ASSUME NEW c \in Children(t, d) PROVE FALSE
      OBVIOUS
    <3>1. Len(c) = Len(d) + 1 /\ Len(c) <= depth /\ Len(d) \in Nat
      BY <1>6, <1>9
    <3> QED BY <3>1
  <2> QED BY <1>7, <2>1
<1>11. ASSUME NEW k \in Nat, k \in S PROVE k + 1 \in S
  <2> SUFFICES ASSUME NEW d \in DOMAIN t, Len(d) + (k + 1) >= depth PROVE Good(d)
    OBVIOUS
  <2>1. ASSUME NEW c \in Children(t, d) PROVE Good(c)
    <3>1. c \in DOMAIN t /\ Len(c) = Len(d) + 1 /\ Len(d) \in Nat
      BY <1>6, <1>9
    <3>2. Len(c) + k >= depth
      BY <3>1
    <3> QED BY <1>11, <3>1, <3>2
  <2> QED BY <1>7, <2>1
<1>12. depth \in S
  <2> HIDE DEF S
  <2> QED BY <1>10, <1>11, Induction
<1>13. Encode(t) = g[Root]
  <2>1. Len(Root) + depth >= depth
    BY <1>6, <1>8
  <2> QED BY <1>1, <1>8, <1>12, <2>1 DEF Good
<1>14. InPreorder(g[Root]) /\ ToSet(g[Root]) = {EntryRecord(t, q) : q \in {x \in DOMAIN t : Under(Root, x)}}
  BY <1>2, <1>8, ListsInPreorder
<1>15. {x \in DOMAIN t : Under(Root, x)} = DOMAIN t
  BY <1>8, UnderOrder
<1> QED BY <1>2, <1>8, <1>13, <1>14, <1>15 DEF RecordsOf

-----------------------------------------------------------------------------
\* The loop of materialize_validated_payload.
Unpacks(f, s) ==
  /\ f[0] = Nothing
  /\ \A k \in 1 .. Len(s) : f[k] = Unpack(f[k - 1], s[k])

\* What a record is unpacked to.
NodeOf(r) == Node(r.kind, r.data, r.marker # 0)
NodesOf(R) == {Dir} \cup {NodeOf(r) : r \in R}
TreesOf(R) == UNION {[D -> NodesOf(R)] : D \in {P \in SUBSET Path : IsFiniteSet(P)}}

\* There are finitely many directories above a path.
LEMMA AncestorsFinite ==
  ASSUME NEW p \in Path
  PROVE  IsFiniteSet(Ancestors(p))
<1> DEFINE f == [n \in 0 .. Len(p) - 1 |-> SubSeq(p, 1, n)]
<1>1. Len(p) \in Nat
  BY DEF Path
<1>2. f \in Surjection(0 .. Len(p) - 1, Ancestors(p))
  BY DEF Surjection, Ancestors
<1>3. IsFiniteSet(0 .. Len(p) - 1)
  BY <1>1, FS_Interval
<1> HIDE DEF f
<1> QED BY <1>2, <1>3, FS_Surjection

\* A record is put into the tree, with its ancestors where they are missing.
LEMMA UnpackIs ==
  ASSUME NEW t, NEW r
  PROVE  Unpack(t, r) = [q \in DOMAIN t \cup Ancestors(r.path) \cup {r.path} |->
                           IF q = r.path THEN NodeOf(r)
                           ELSE IF q \in DOMAIN t THEN t[q] ELSE Dir]
<1> DEFINE one == [p \in {r.path} |-> NodeOf(r)]
           dirs == [q \in Ancestors(r.path) |-> Dir]
           below == Over(t, dirs)
<1>1. Unpack(t, r) = Over(one, below)
  BY DEF Unpack, NodeOf
<1>2. DOMAIN one = {r.path} /\ DOMAIN dirs = Ancestors(r.path)
  OBVIOUS
<1>3. one[r.path] = NodeOf(r)
  OBVIOUS
<1>4. \A q \in Ancestors(r.path) : dirs[q] = Dir
  OBVIOUS
<1> HIDE DEF one, dirs
<1>5. DOMAIN below = DOMAIN t \cup Ancestors(r.path)
      /\ \A q \in DOMAIN t \cup Ancestors(r.path) :
           below[q] = IF q \in DOMAIN t THEN t[q] ELSE Dir
  BY <1>2, <1>4 DEF Over
<1> HIDE DEF below
<1> QED BY <1>1, <1>2, <1>3, <1>5 DEF Over

LEMMA UnpackTyped ==
  ASSUME NEW R, \A x \in R : x.path \in Path, NEW r \in R, NEW t \in TreesOf(R)
  PROVE  Unpack(t, r) \in TreesOf(R)
<1> DEFINE N == NodesOf(R)
           D == DOMAIN t \cup Ancestors(r.path) \cup {r.path}
           u == Unpack(t, r)
<1>1. NodeOf(r) \in N /\ Dir \in N
  BY DEF NodesOf
<1>2. DOMAIN t \subseteq Path /\ IsFiniteSet(DOMAIN t) /\ \A q \in DOMAIN t : t[q] \in N
  BY DEF TreesOf
<1>3. Ancestors(r.path) \subseteq Path /\ r.path \in Path /\ IsFiniteSet(Ancestors(r.path))
  BY AncestorsAbove, AncestorsFinite
<1> HIDE DEF N
<1>4. u = [q \in D |-> IF q = r.path THEN NodeOf(r) ELSE IF q \in DOMAIN t THEN t[q] ELSE Dir]
  BY UnpackIs
<1> HIDE DEF u
<1>5. u \in [D -> N]
  BY <1>1, <1>2, <1>4
<1>6. D \in SUBSET Path /\ IsFiniteSet(D)
  <2>1. IsFiniteSet(DOMAIN t \cup Ancestors(r.path))
    BY <1>2, <1>3, FS_Union
  <2> QED BY <1>2, <1>3, <2>1, FS_AddElement
<1>7. u \in TreesOf(R)
  BY <1>5, <1>6 DEF TreesOf, N
<1> QED BY <1>7 DEF u

\* The fold is that loop.
LEMMA UnpackSteps ==
  ASSUME NEW R, \A x \in R : x.path \in Path, NEW s \in Seq(R)
  PROVE  \E f \in [0 .. Len(s) -> TreesOf(R)] : Unpacks(f, s) /\ Materialized(s) = f[Len(s)]
<1> DEFINE n == Len(s)
           A == TreesOf(R)
           base == Nothing
           unpack == [x \in (1 .. n) \X A |-> Unpack(x[2], s[x[1]])]
           iter == CHOOSE it : it = [T \in SUBSET DOMAIN s |->
                     IF T = {} THEN Nothing ELSE Unpack(it[T \ {Max(T)}], s[Max(T)])]
<1>1. n \in Nat /\ DOMAIN s = 1 .. n /\ \A k \in 1 .. n : s[k] \in R
  OBVIOUS
<1>2. Materialized(s) = iter[DOMAIN s]
  BY SMT DEF Materialized, FoldLeft, MapThenFoldSet
<1>3. base \in A
  <2>1. Nothing \in [{} -> NodesOf(R)]
    BY DEF Nothing
  <2>2. IsFiniteSet({}) /\ {} \in SUBSET Path
    BY FS_EmptySet
  <2> QED BY <2>1, <2>2 DEF TreesOf
<1> HIDE DEF A
<1>4. unpack \in [(1 .. n) \X A -> A]
  BY <1>1, UnpackTyped DEF A
<1>5. PICK g : IsFold(g, n, A, base, unpack)
  <2> HIDE DEF unpack, n, base
  <2> QED BY <1>1, <1>3, <1>4, FoldExists
<1>6. ASSUME NEW T \in SUBSET (1 .. n), T # {}
      PROVE  g[T] = Unpack(g[T \ {Max(T)}], s[Max(T)])
  <2>1. Max(T) \in 1 .. n
    <3>1. Max(T) \in T
      BY <1>1, <1>6, MaxOf
    <3> QED BY <3>1
  <2>2. g[T \ {Max(T)}] \in A
    BY <1>5 DEF IsFold
  <2> QED BY <1>5, <1>6, <2>1, <2>2 DEF IsFold
<1>7. g = [T \in SUBSET DOMAIN s |->
             IF T = {} THEN Nothing ELSE Unpack(g[T \ {Max(T)}], s[Max(T)])]
  <2>1. \A T \in SUBSET (1 .. n) : T = {} => g[T] = base
    BY <1>5 DEF IsFold
  <2>2. g \in [SUBSET (1 .. n) -> A]
    BY <1>5 DEF IsFold
  <2> HIDE DEF unpack, n
  <2> QED BY <1>1, <1>6, <2>1, <2>2
<1>8. iter = [T \in SUBSET DOMAIN s |->
                IF T = {} THEN Nothing ELSE Unpack(iter[T \ {Max(T)}], s[Max(T)])]
  BY <1>7
<1> HIDE DEF iter
<1>9. \A T \in SUBSET (1 .. n) :
        iter[T] = IF T = {} THEN Nothing ELSE Unpack(iter[T \ {Max(T)}], s[Max(T)])
  <2> HIDE DEF n
  <2> QED BY <1>1, <1>8
<1> DEFINE f == [k \in 0 .. n |-> iter[1 .. k]]
<1>10. Folded(f, n, A, base, unpack)
  <2>1. iter[{}] = base
    BY <1>9
  <2>2. ASSUME NEW T \in SUBSET (1 .. n), T # {}, iter[T \ {Max(T)}] \in A
        PROVE  iter[T] = unpack[<<Max(T), iter[T \ {Max(T)}]>>]
    <3>1. Max(T) \in T
      BY <1>1, <2>2, MaxOf
    <3>2. Max(T) \in 1 .. n
      BY <3>1
    <3> QED BY <1>9, <2>2, <3>2
  <2>3. Iterates(iter, n, A, base, unpack)
    BY <2>1, <2>2 DEF Iterates
  <2> HIDE DEF unpack, n, base
  <2> QED BY <1>1, <1>3, <1>4, <2>3, FoldSteps
<1>11. f \in [0 .. n -> A] /\ f[0] = base /\ \A k \in 1 .. n : f[k] = unpack[<<k, f[k - 1]>>]
  <2> HIDE DEF f, n, base, unpack
  <2> QED BY <1>10 DEF Folded
<1>12. f[n] = iter[1 .. n]
  BY <1>1
<1> HIDE DEF f
<1>13. \A k \in 1 .. n : f[k] = Unpack(f[k - 1], s[k])
  <2> SUFFICES ASSUME NEW k \in 1 .. n PROVE f[k] = Unpack(f[k - 1], s[k])
    OBVIOUS
  <2>1. k - 1 \in 0 .. n
    BY <1>1
  <2>2. f[k - 1] \in A
    BY <1>11, <2>1
  <2> QED BY <1>11, <2>2
<1>14. Unpacks(f, s)
  BY <1>11, <1>13 DEF Unpacks
<1> QED BY <1>1, <1>2, <1>11, <1>12, <1>14 DEF A

\* One record more.
LEMMA UnpackOneMore ==
  ASSUME NEW R, \A x \in R : x.path \in Path, NEW s \in Seq(R), NEW r \in R
  PROVE  /\ Materialized(s) \in TreesOf(R)
         /\ Materialized(Append(s, r)) = Unpack(Materialized(s), r)
<1> DEFINE u == Append(s, r)
           n == Len(s)
<1>1. PICK f \in [0 .. Len(s) -> TreesOf(R)] : Unpacks(f, s) /\ Materialized(s) = f[Len(s)]
  BY UnpackSteps
<1>2. /\ u \in Seq(R) /\ Len(u) = n + 1 /\ n \in Nat /\ u[n + 1] = r
      /\ \A k \in 1 .. n : u[k] = s[k]
  BY AppendProperties
<1> HIDE DEF u
<1>3. PICK g \in [0 .. Len(u) -> TreesOf(R)] : Unpacks(g, u) /\ Materialized(u) = g[Len(u)]
  BY <1>2, UnpackSteps
<1> HIDE DEF n
<1> DEFINE S == {k \in Nat : k <= n => f[k] = g[k]}
<1>4. 0 \in S
  BY <1>1, <1>3 DEF Unpacks
<1>5. ASSUME NEW k \in Nat, k \in S PROVE k + 1 \in S
  <2> SUFFICES ASSUME k + 1 <= n PROVE f[k + 1] = g[k + 1]
    OBVIOUS
  <2>1. k + 1 \in 1 .. n /\ k + 1 \in 1 .. n + 1 /\ (k + 1) - 1 = k /\ f[k] = g[k]
    BY <1>2, <1>5
  <2>2. f[k + 1] = Unpack(f[k], s[k + 1])
    BY <1>1, <2>1 DEF Unpacks, n
  <2>3. g[k + 1] = Unpack(g[k], u[k + 1])
    BY <1>2, <1>3, <2>1 DEF Unpacks
  <2> QED BY <1>2, <2>1, <2>2, <2>3
<1>6. f[n] = g[n]
  <2>1. Nat \subseteq S
    <3> HIDE DEF S
    <3> QED BY <1>4, <1>5, Induction
  <2> QED BY <1>2, <2>1
<1>7. g[n + 1] = Unpack(g[n], r)
  <2>1. n + 1 \in 1 .. n + 1 /\ (n + 1) - 1 = n
    BY <1>2
  <2> QED BY <1>2, <1>3, <2>1 DEF Unpacks
<1>8. Materialized(s) \in TreesOf(R)
  <2>1. n \in 0 .. n
    BY <1>2
  <2> QED BY <1>1, <2>1 DEF n
<1> QED BY <1>1, <1>2, <1>3, <1>6, <1>7, <1>8 DEF n, u

\* Nothing read, nothing unpacked.
LEMMA UnpackNone == Materialized(<< >>) = Nothing
<1> DEFINE R == {}
<1>1. << >> \in Seq(R) /\ Len(<< >>) = 0
  OBVIOUS
<1>2. PICK f \in [0 .. 0 -> TreesOf(R)] : Unpacks(f, << >>) /\ Materialized(<< >>) = f[0]
  <2>1. \A x \in R : x.path \in Path
    OBVIOUS
  <2> HIDE DEF R
  <2> QED BY <1>1, <2>1, UnpackSteps
<1> QED BY <1>2 DEF Unpacks

-----------------------------------------------------------------------------
\* The open directories after the entry m of t: those above it, each with the
\* child that was listed last, and m itself if it is one.
OpenDir == [dir : Path, last : Nat]
StackOf(t, m) ==
  [i \in 1 .. (IF IsDir(t, m) THEN Len(m) + 1 ELSE Len(m)) |->
     [dir |-> SubSeq(m, 1, i - 1), last |-> IF i <= Len(m) THEN m[i] ELSE NoChild]]

LEMMA StackTyped ==
  ASSUME NEW t, NEW m \in Path
  PROVE  /\ StackOf(t, m) \in Seq(OpenDir)
         /\ Len(StackOf(t, m)) = IF IsDir(t, m) THEN Len(m) + 1 ELSE Len(m)
         /\ \A i \in 1 .. Len(StackOf(t, m)) :
              /\ StackOf(t, m)[i].dir \in Path /\ Len(StackOf(t, m)[i].dir) = i - 1
              /\ Under(StackOf(t, m)[i].dir, m)
              /\ StackOf(t, m)[i].last = IF i <= Len(m) THEN m[i] ELSE 0
<1> DEFINE n == IF IsDir(t, m) THEN Len(m) + 1 ELSE Len(m)
           own(i) == [dir |-> SubSeq(m, 1, i - 1), last |-> IF i <= Len(m) THEN m[i] ELSE 0]
           s == StackOf(t, m)
<1>1. /\ Len(m) \in Nat /\ n \in Nat /\ n <= Len(m) + 1
      /\ \A i \in 1 .. Len(m) : m[i] \in Nat
  BY DEF Path
<1> HIDE DEF n
<1>2. ASSUME NEW i \in 1 .. n
      PROVE  /\ SubSeq(m, 1, i - 1) \in Path /\ Len(SubSeq(m, 1, i - 1)) = i - 1
             /\ Under(SubSeq(m, 1, i - 1), m) /\ (IF i <= Len(m) THEN m[i] ELSE 0) \in Nat
  <2> DEFINE d == SubSeq(m, 1, i - 1)
  <2>1. i - 1 \in 0 .. Len(m)
    BY <1>1
  <2>2. \A j \in 1 .. i - 1 : m[j] \in Nat
    BY <1>1, <2>1
  <2>3. d \in Seq(Nat) /\ Len(d) = i - 1 /\ \A j \in 1 .. i - 1 : d[j] = m[j]
    BY <2>1, <2>2, SubSeqProperties
  <2>4. d \in Path
    BY <2>3 DEF Path
  <2> HIDE DEF d
  <2>5. Under(d, m)
    BY <1>1, <2>1, <2>3, <2>4, UnderPositions
  <2>6. (IF i <= Len(m) THEN m[i] ELSE 0) \in Nat
    BY <1>1
  <2> QED BY <2>3, <2>4, <2>5, <2>6 DEF d
<1>3. s = [i \in 1 .. n |-> own(i)]
  BY DEF StackOf, n, NoChild
<1>4. \A i \in 1 .. n : own(i) \in OpenDir
  BY <1>2 DEF OpenDir
<1> HIDE DEF s
<1>5. s \in [1 .. n -> OpenDir]
  <2> HIDE DEF own
  <2> QED BY <1>3, <1>4
<1>6. s \in Seq(OpenDir) /\ Len(s) = n
  BY <1>1, <1>5
<1>7. \A i \in 1 .. n : s[i].dir = SubSeq(m, 1, i - 1) /\ s[i].last = IF i <= Len(m) THEN m[i] ELSE 0
  BY <1>3
<1> QED BY <1>2, <1>6, <1>7 DEF n, s

\* Two paths of a length above another are the same.
LEMMA AboveOfLength ==
  ASSUME NEW d \in Path, NEW e \in Path, NEW m \in Path, Under(d, m), Under(e, m), Len(d) = Len(e)
  PROVE  d = e
<1>1. /\ Len(d) \in Nat
      /\ \A i \in 1 .. Len(d) : d[i] = m[i]
      /\ \A i \in 1 .. Len(d) : e[i] = m[i]
  BY UnderPositions DEF Path
<1>2. \A i \in 1 .. Len(d) : d[i] = e[i]
  BY <1>1
<1> QED BY <1>2, SeqEqual DEF Path

\* Unwinding to a directory succeeds exactly when it is above the last entry,
\* or is the last entry.
LEMMA UnwoundAt ==
  ASSUME NEW t, NEW m \in Path, open = StackOf(t, m), NEW d \in Path
  PROVE  /\ Unwound(d) # << >> <=> Under(d, m) /\ (d = m => IsDir(t, m))
         /\ Unwound(d) # << >> =>
              /\ Len(d) + 1 \in 1 .. Len(open) /\ Unwound(d) = SubSeq(open, 1, Len(d) + 1)
              /\ Unwound(d) \in Seq(OpenDir) /\ Len(Unwound(d)) = Len(d) + 1
              /\ \A i \in 1 .. Len(d) + 1 : Unwound(d)[i] = open[i]
<1> DEFINE n == Len(open)
           k == Len(d) + 1
           P == {i \in DOMAIN open : open[i].dir = d}
<1>1. /\ open \in Seq(OpenDir) /\ n \in Nat /\ DOMAIN open = 1 .. n
      /\ n = IF IsDir(t, m) THEN Len(m) + 1 ELSE Len(m)
      /\ Len(d) \in Nat /\ Len(m) \in Nat
      /\ \A i \in 1 .. n : open[i].dir \in Path /\ Len(open[i].dir) = i - 1 /\ Under(open[i].dir, m)
  BY StackTyped DEF Path
<1>2. Unwound(d) = SubSeq(open, 1, Max({0} \cup P))
  BY DEF Unwound
<1> HIDE DEF n
<1>3. ASSUME NEW i \in P PROVE i = k /\ Under(d, m) /\ i \in 1 .. n
  BY <1>1
<1>4. Under(d, m) /\ (d = m => IsDir(t, m)) => k \in 1 .. n
  <2> SUFFICES ASSUME Under(d, m), d = m => IsDir(t, m) PROVE k \in 1 .. n
    OBVIOUS
  <2>1. Len(d) <= Len(m) /\ (Len(d) = Len(m) => d = m)
    BY UnderOrder
  <2> QED BY <1>1, <2>1
<1>5. k \in 1 .. n /\ Under(d, m) => k \in P
  <2> SUFFICES ASSUME k \in 1 .. n, Under(d, m) PROVE k \in P
    OBVIOUS
  <2>1. open[k].dir \in Path /\ Len(open[k].dir) = Len(d) /\ Under(open[k].dir, m)
    BY <1>1
  <2>2. open[k].dir = d
    BY <2>1, AboveOfLength
  <2> QED BY <1>1, <2>2
<1>6. CASE Under(d, m) /\ (d = m => IsDir(t, m))
  <2>1. k \in 1 .. n /\ P = {k}
    BY <1>3, <1>4, <1>5, <1>6
  <2>2. Max({0} \cup P) = k
    BY <1>1, <2>1 DEF Max
  <2> DEFINE s == SubSeq(open, 1, k)
  <2>3. s \in Seq(OpenDir) /\ Len(s) = k /\ \A i \in 1 .. k : s[i] = open[i]
    <3>1. \A i \in 1 .. k : open[i] \in OpenDir
      BY <1>1, <2>1 DEF n
    <3>2. k \in Nat /\ k >= 1
      BY <1>1
    <3> HIDE DEF k
    <3> QED BY <3>1, <3>2, SubSeqProperties
  <2>4. s # << >>
    <3> HIDE DEF s, k
    <3>1. k > 0
      BY <1>1 DEF k
    <3> QED BY <2>3, <3>1
  <2> HIDE DEF k, P, s
  <2>5. Unwound(d) = s
    BY <1>2, <2>2 DEF s
  <2> QED BY <1>6, <2>1, <2>3, <2>4, <2>5 DEF k, n, s
<1>7. CASE ~(Under(d, m) /\ (d = m => IsDir(t, m)))
  <2>1. P = {}
    <3> SUFFICES ASSUME NEW i \in P PROVE FALSE
      OBVIOUS
    <3>1. i = k /\ Under(d, m) /\ i \in 1 .. n
      BY <1>3
    <3>2. d = m /\ ~IsDir(t, m)
      BY <1>7, <3>1
    <3> QED BY <1>1, <3>1, <3>2
  <2>2. Max({0} \cup P) = 0
    BY <2>1 DEF Max
  <2>3. Unwound(d) = << >>
    BY <1>2, <2>2, SubSeqEmpty
  <2> QED BY <1>7, <2>3
<1> QED BY <1>6, <1>7

-----------------------------------------------------------------------------
\* Nothing comes before itself.
LEMMA PrecedesStrict ==
  ASSUME NEW p \in Path, NEW q \in Path, Precedes(p, q)
  PROVE  ~Precedes(q, p)
<1> SUFFICES ASSUME Precedes(q, p) PROVE FALSE
  OBVIOUS
<1>1. Precedes(p, p)
  BY PrecedesOrder
<1> QED BY <1>1 DEF Precedes

\* What comes after a path, but does not lie in its parent's subtree behind it.
LEMMA BehindLast ==
  ASSUME NEW t, FiniteTree(t), NEW m \in DOMAIN t,
         \A p \in DOMAIN t : p = m \/ Precedes(p, m),
         NEW d \in DOMAIN t, NEW n \in Nat, Precedes(m, Append(d, n))
  PROVE  Under(d, m) /\ (d # m => n > m[Len(d) + 1])
<1> DEFINE q == Append(d, n)
           k == Len(d) + 1
<1>1. /\ d \in Path /\ m \in Path /\ q \in Path /\ Len(q) = k /\ Len(d) \in Nat /\ Len(m) \in Nat
      /\ q[k] = n /\ \A i \in 1 .. Len(d) : q[i] = d[i]
  <2>1. d \in Path /\ m \in Path
    BY DEF FiniteTree
  <2> QED BY <2>1, AppendProperties DEF Path
<1>2. ~Precedes(m, d)
  <2> SUFFICES ASSUME Precedes(m, d) PROVE FALSE
    OBVIOUS
  <2>1. d # m
    BY <2>1 DEF Precedes
  <2> QED BY <1>1, <2>1, PrecedesStrict
<1> HIDE DEF q
<1>3. CASE Under(m, q) /\ m # q
  <2>1. Len(m) <= Len(q) /\ (Len(m) = Len(q) => m = q)
    BY <1>1, <1>3, UnderOrder
  <2>2. Under(d, q)
    BY PathOfChild, <1>1 DEF q
  <2>3. Len(m) <= Len(d)
    BY <1>1, <1>3, <2>1
  <2>4. Under(m, d)
    BY <1>1, <1>3, <2>2, <2>3, UnderOrder
  <2>5. m = d
    BY <1>2, <2>4 DEF Precedes
  <2> QED BY <1>1, <2>5, UnderOrder
<1>4. ASSUME NEW j \in 1 .. Len(m), Parts(m, q, j)
      PROVE  Under(d, m) /\ (d # m => n > m[Len(d) + 1])
  <2>1. j \in 1 .. k /\ (\A i \in 1 .. j - 1 : m[i] = q[i]) /\ m[j] < q[j]
    BY <1>1, <1>4 DEF Parts
  <2>2. j = k
    <3> SUFFICES ASSUME j # k PROVE FALSE
      OBVIOUS
    <3>1. j \in 1 .. Len(d) /\ j \in Nat
      BY <1>1, <2>1, <3>1
    <3>2. \A i \in 1 .. j - 1 : i \in 1 .. Len(d)
      BY <1>1, <3>1
    <3>3. m[j] < d[j] /\ \A i \in 1 .. j - 1 : m[i] = d[i]
      BY <1>1, <2>1, <3>1, <3>2
    <3>4. Parts(m, d, j)
      BY <1>1, <1>4, <3>1, <3>3 DEF Parts
    <3>5. m # d
      <4>1. m[j] \in Nat
        BY <1>1 DEF Path
      <4> QED BY <3>3, <4>1
    <3> QED BY <1>2, <3>4, <3>5 DEF Precedes
  <2>3. Len(d) <= Len(m) /\ \A i \in 1 .. Len(d) : d[i] = m[i]
    <3>1. \A i \in 1 .. Len(d) : i \in 1 .. j - 1
      BY <1>1, <2>2
    <3>2. Len(d) <= Len(m)
      BY <1>1, <2>2
    <3> QED BY <1>1, <2>1, <3>1, <3>2
  <2>4. Under(d, m)
    BY <1>1, <2>3, UnderPositions
  <2>5. m[k] < n
    BY <1>1, <2>1, <2>2
  <2>6. m[k] \in Nat
    BY <1>1, <2>2 DEF Path
  <2> QED BY <2>4, <2>5, <2>6
<1>5. Precedes(m, q)
  BY DEF q
<1> QED BY <1>3, <1>4, <1>5 DEF Precedes

\* A greater sibling comes after all that lies below the lesser ones.
LEMMA AfterLast ==
  ASSUME NEW d \in Path, NEW m \in Path, NEW n \in Nat, Under(d, m), d # m => n > m[Len(d) + 1]
  PROVE  Precedes(m, Append(d, n))
<1> DEFINE q == Append(d, n)
           k == Len(d) + 1
<1>1. /\ q \in Path /\ Len(q) = k /\ Len(d) \in Nat /\ Len(m) \in Nat /\ Under(d, q) /\ q # d
      /\ q[k] = n /\ \A i \in 1 .. Len(d) : q[i] = d[i]
  <2>1. Under(d, q)
    BY PathOfChild
  <2> QED BY <2>1, AppendProperties DEF Path
<1> HIDE DEF q
<1>2. CASE d = m
  BY <1>1, <1>2 DEF Precedes, q
<1>3. CASE d # m
  <2>1. Len(d) <= Len(m) /\ (Len(d) = Len(m) => d = m) /\ \A i \in 1 .. Len(d) : d[i] = m[i]
    BY UnderOrder, UnderPositions
  <2>2. k \in 1 .. Len(m) /\ k - 1 = Len(d)
    BY <1>1, <1>3, <2>1
  <2>3. m[k] < q[k] /\ m[k] \in Nat
    <3>1. m[k] \in Nat
      BY <2>2 DEF Path
    <3> QED BY <1>1, <1>3, <3>1
  <2>4. Parts(m, q, k)
    BY <1>1, <2>1, <2>2, <2>3 DEF Parts
  <2>5. m # q
    BY <1>1, <2>3
  <2> QED BY <2>2, <2>4, <2>5 DEF Precedes, q
<1> QED BY <1>2, <1>3

\* The stack tells where an entry may come next: in a directory that is
\* there, and after all that is there.
LEMMA InPlaceExact ==
  ASSUME NEW t, FiniteTree(t), NEW m \in DOMAIN t, open = StackOf(t, m),
         \A p \in DOMAIN t : p = m \/ Precedes(p, m),
         NEW d \in Path, NEW n \in Nat, n > 0
  PROVE  (Unwound(d) # << >> /\ n > Last(Unwound(d)).last)
           <=> (IsDir(t, d) /\ Precedes(m, Append(d, n)))
<1> DEFINE up == Unwound(d)
           k == Len(d) + 1
<1>1. m \in Path /\ Len(m) \in Nat /\ Len(d) \in Nat
  BY DEF FiniteTree, Path
<1>2. up # << >> <=> Under(d, m) /\ (d = m => IsDir(t, m))
  BY <1>1, UnwoundAt
<1>3. up # << >> => Last(up).last = IF k <= Len(m) THEN m[k] ELSE 0
  <2> SUFFICES ASSUME up # << >> PROVE Last(up).last = IF k <= Len(m) THEN m[k] ELSE 0
    OBVIOUS
  <2>1. k \in 1 .. Len(open) /\ Len(up) = k /\ \A i \in 1 .. k : up[i] = open[i]
    BY <1>1, UnwoundAt
  <2>2. open[k].last = IF k <= Len(m) THEN m[k] ELSE 0
    BY <1>1, <2>1, StackTyped
  <2> HIDE DEF k, up
  <2>3. k \in 1 .. k
    BY <2>1
  <2> QED BY <2>1, <2>2, <2>3 DEF Last
<1> HIDE DEF up
<1>4. Under(d, m) => /\ d = m => ~(k <= Len(m))
                     /\ d # m => k <= Len(m)
  <2> SUFFICES ASSUME Under(d, m) PROVE /\ d = m => ~(k <= Len(m))
                                        /\ d # m => k <= Len(m)
    OBVIOUS
  <2>1. Len(d) <= Len(m) /\ (Len(d) = Len(m) => d = m)
    BY <1>1, UnderOrder
  <2> QED BY <1>1, <2>1
<1>5. ASSUME up # << >>, n > Last(up).last
      PROVE  IsDir(t, d) /\ Precedes(m, Append(d, n))
  <2>1. IsDir(t, d)
    <3>1. CASE d = m
      BY <1>2, <1>5, <3>1
    <3>2. CASE d # m
      BY <1>2, <1>5, <3>2, BelowChild
    <3> QED BY <3>1, <3>2
  <2>2. Under(d, m) /\ (d # m => n > m[k])
    BY <1>2, <1>3, <1>4, <1>5
  <2> QED BY <1>1, <2>1, <2>2, AfterLast
<1>6. ASSUME IsDir(t, d), Precedes(m, Append(d, n))
      PROVE  up # << >> /\ n > Last(up).last
  <2>1. d \in DOMAIN t
    BY <1>6 DEF IsDir
  <2>2. Under(d, m) /\ (d # m => n > m[k])
    BY <1>6, <2>1, BehindLast
  <2>3. up # << >>
    BY <1>2, <1>6, <2>2
  <2> QED BY <1>3, <1>4, <2>2, <2>3
<1> QED BY <1>5, <1>6 DEF up

\* The stack is that of the entry once it is read.
LEMMA OpenedExact ==
  ASSUME NEW t, NEW m \in Path, open = StackOf(t, m),
         NEW d \in Path, NEW n \in Nat, Unwound(d) # << >>,
         NEW r, r.path = Append(d, n), NEW u, IsDir(u, r.path) <=> r.kind = "dir"
  PROVE  Opened(r) = StackOf(u, r.path)
<1> DEFINE q == Append(d, n)
           k == Len(d) + 1
           up == Unwound(d)
           own == [dir |-> q, last |-> NoChild]
           noted == [up EXCEPT ![Len(up)].last = n]
<1>1. /\ q \in Path /\ q # Root /\ Parent(q) = d /\ Name(q) = n /\ Under(d, q)
      /\ Len(q) = k /\ Len(d) \in Nat /\ q[k] = n /\ \A i \in 1 .. Len(d) : q[i] = d[i]
  BY PathOfChild, AppendProperties DEF Path
<1>2. /\ k \in 1 .. Len(open) /\ up \in Seq(OpenDir) /\ Len(up) = k
      /\ \A i \in 1 .. k : up[i] = open[i]
      /\ Under(d, m)
  BY UnwoundAt
<1>3. Opened(r) = IF r.kind = "dir" THEN Append(noted, own) ELSE noted
  <2> HIDE DEF q
  <2> QED BY <1>1 DEF Opened, q
<1> HIDE DEF q, up, k
<1>4. \A i \in 1 .. k : i \in 1 .. Len(open) /\ up[i] = open[i] /\ up[i] \in OpenDir
  BY <1>2 DEF k
<1>5. ASSUME NEW i \in 1 .. k
      PROVE  /\ up[i].dir \in Path /\ Len(up[i].dir) = i - 1 /\ Under(up[i].dir, q)
             /\ i < k => up[i].last = q[i]
  <2>1. /\ open[i].dir \in Path /\ Len(open[i].dir) = i - 1 /\ Under(open[i].dir, m)
        /\ open[i].last = IF i <= Len(m) THEN m[i] ELSE 0
    BY <1>4, StackTyped
  <2>2. Len(open[i].dir) <= Len(d)
    BY <1>1, <2>1 DEF k
  <2>3. Under(open[i].dir, d)
    BY <1>2, <2>1, <2>2, UnderOrder
  <2>4. Under(open[i].dir, q)
    BY <1>1, <2>1, <2>3, UnderOrder
  <2>5. i < k => open[i].last = q[i]
    <3> SUFFICES ASSUME i < k PROVE open[i].last = q[i]
      OBVIOUS
    <3>1. i \in 1 .. Len(d)
      BY <1>1 DEF k
    <3>2. Len(d) <= Len(m) /\ d[i] = m[i] /\ Len(m) \in Nat
      BY <1>2, <3>1, UnderPositions DEF Path
    <3> QED BY <1>1, <2>1, <3>1, <3>2
  <2> QED BY <1>4, <2>1, <2>4, <2>5
<1>6. /\ noted \in Seq(OpenDir) /\ Len(noted) = k
      /\ \A i \in 1 .. k : /\ noted[i].dir = up[i].dir
                           /\ noted[i].last = IF i = k THEN n ELSE up[i].last
  <2>1. up \in [1 .. k -> OpenDir] /\ k \in Nat /\ k \in 1 .. k
    BY <1>1, <1>2 DEF k
  <2>2. noted = [up EXCEPT ![k] = [up[k] EXCEPT !.last = n]]
    BY <1>2
  <2>3. [up[k] EXCEPT !.last = n] \in OpenDir
        /\ [up[k] EXCEPT !.last = n].dir = up[k].dir /\ [up[k] EXCEPT !.last = n].last = n
    BY <1>4, <2>1 DEF OpenDir
  <2>4. noted \in [1 .. k -> OpenDir]
    BY <2>1, <2>2, <2>3
  <2>5. noted \in Seq(OpenDir) /\ Len(noted) = k
    BY <2>1, <2>4
  <2>6. \A i \in 1 .. k : noted[i] = IF i = k THEN [up[k] EXCEPT !.last = n] ELSE up[i]
    BY <2>1, <2>2
  <2> HIDE DEF noted
  <2> QED BY <2>3, <2>5, <2>6
<1> HIDE DEF noted
<1> DEFINE s == StackOf(u, q)
           o == Opened(r)
<1>7. /\ s \in Seq(OpenDir)
      /\ Len(s) = IF r.kind = "dir" THEN k + 1 ELSE k
      /\ \A i \in 1 .. Len(s) :
           /\ s[i].dir \in Path /\ Len(s[i].dir) = i - 1 /\ Under(s[i].dir, q)
           /\ s[i].last = IF i <= k THEN q[i] ELSE 0
  BY <1>1, StackTyped DEF q
<1>8. own \in OpenDir /\ own.dir = q /\ own.last = 0
  BY <1>1 DEF OpenDir, NoChild
<1> HIDE DEF own
<1>9. k \in Nat /\ k >= 1 /\ q[k] = n
  BY <1>1 DEF k
<1>10. /\ o \in Seq(OpenDir) /\ Len(o) = Len(s)
       /\ \A i \in 1 .. k : o[i] = noted[i]
       /\ r.kind = "dir" => o[k + 1] = own
  <2>1. CASE r.kind = "dir"
    <3>1. o = Append(noted, own)
      BY <1>3, <2>1
    <3> HIDE DEF o, s
    <3> QED BY <1>6, <1>7, <1>8, <2>1, <3>1, AppendProperties
  <2>2. CASE r.kind # "dir"
    <3>1. o = noted
      BY <1>3, <2>2
    <3> HIDE DEF o, s
    <3> QED BY <1>6, <1>7, <2>2, <3>1
  <2> QED BY <2>1, <2>2
<1> HIDE DEF o, s
<1>11. ASSUME NEW i \in 1 .. Len(s) PROVE o[i] = s[i]
  <2>1. o[i] \in OpenDir /\ s[i] \in OpenDir
    <3>1. i \in 1 .. Len(o)
      BY <1>10
    <3> QED BY <1>7, <1>10, <3>1
  <2>2. CASE i \in 1 .. k
    <3>1. o[i].dir = up[i].dir /\ o[i].last = IF i = k THEN n ELSE up[i].last
      BY <1>6, <1>10, <2>2
    <3>2. o[i].dir = s[i].dir
      <4>1. up[i].dir \in Path /\ Len(up[i].dir) = i - 1 /\ Under(up[i].dir, q)
        BY <1>5, <2>2
      <4>2. s[i].dir \in Path /\ Len(s[i].dir) = i - 1 /\ Under(s[i].dir, q)
        BY <1>7
      <4>3. up[i].dir = s[i].dir
        BY <1>1, <4>1, <4>2, AboveOfLength
      <4> QED BY <3>1, <4>3
    <3>3. o[i].last = s[i].last
      BY <1>5, <1>7, <1>9, <2>2, <3>1
    <3> QED BY <2>1, <3>2, <3>3 DEF OpenDir
  <2>3. CASE i \notin 1 .. k
    <3>1. i = k + 1 /\ r.kind = "dir"
      BY <1>7, <1>9, <2>3
    <3>2. o[i].dir = q /\ o[i].last = 0 /\ s[i].last = 0
      BY <1>7, <1>8, <1>9, <1>10, <3>1
    <3>3. Len(s[i].dir) = Len(q)
      BY <1>1, <1>7, <1>9, <3>1
    <3>4. s[i].dir = q
      BY <1>1, <1>7, <3>3, UnderOrder
    <3> QED BY <2>1, <3>2, <3>4 DEF OpenDir
  <2> QED BY <2>2, <2>3
<1>12. o = s
  BY <1>7, <1>10, <1>11, SeqEqual
<1> QED BY <1>12 DEF o, s, q

-----------------------------------------------------------------------------
\* The spelling of one record dropped, as Plain drops it.
PlainOf(r) == [r EXCEPT !.spelling = IF @ = "dotted" THEN "plain" ELSE @]

\* What there is to know of a record.
RecordKinds == {"dir", "link", "other", "file"}
LEMMA RecordFields ==
  ASSUME NEW r \in ArchiveRecords
  PROVE  /\ r.path \in ArchivePaths /\ r.kind \in RecordKinds
         /\ r.marker \in 0 .. 2 /\ (r.kind # "file" => r.marker = 0)
         /\ r.spelling \in {"plain", "dotted", "unsafe"}
         /\ r = ArchiveRecord(r.path, r.kind, r.data, r.marker, r.spelling)
<1>1. CASE r \in {ArchiveRecord(p, k, NoData, 0, "plain") : p \in ArchivePaths, k \in {"dir", "link", "other"}}
  <2>1. PICK p \in ArchivePaths, k \in {"dir", "link", "other"} : r = ArchiveRecord(p, k, NoData, 0, "plain")
    BY <1>1
  <2> QED BY <2>1 DEF ArchiveRecord, RecordKinds
<1>2. CASE r \in {ArchiveRecord(p, "file", NoData, x, "plain") : p \in ArchivePaths, x \in 0 .. 2}
  <2>1. PICK p \in ArchivePaths, x \in 0 .. 2 : r = ArchiveRecord(p, "file", NoData, x, "plain")
    BY <1>2
  <2> QED BY <2>1 DEF ArchiveRecord, RecordKinds
<1>3. CASE r \in {ArchiveRecord(p, "dir", NoData, 0, s) : p \in ArchivePaths \ {Root}, s \in {"dotted", "unsafe"}}
  <2>1. PICK p \in ArchivePaths \ {Root}, s \in {"dotted", "unsafe"} : r = ArchiveRecord(p, "dir", NoData, 0, s)
    BY <1>3
  <2> QED BY <2>1 DEF ArchiveRecord, RecordKinds
<1> QED BY <1>1, <1>2, <1>3 DEF ArchiveRecords

\* Its path.
LEMMA RecordPath ==
  ASSUME NEW r \in ArchiveRecords
  PROVE  r.path \in Path /\ (r.path # Root => Name(r.path) > 0)
<1>1. PICK n \in 0 .. MaxDepth : r.path \in [1 .. n -> Names]
  BY RecordFields DEF ArchivePaths
<1>2. Names \subseteq Nat \ {0}
  BY NamesAssumption
<1>3. n \in Nat
  BY ArchiveBounds
<1>4. r.path \in Seq(Nat) /\ Len(r.path) = n
  <2>1. r.path \in [1 .. n -> Nat]
    BY <1>1, <1>2
  <2> QED BY <1>3, <2>1
<1>5. r.path # Root => n \in 1 .. n
  BY <1>3, <1>4 DEF Root
<1> QED BY <1>1, <1>2, <1>4, <1>5 DEF Path, Name, Last

\* Written again, a record is what it was, if it was fit to be written.
LEMMA RecordOfNode ==
  ASSUME NEW r \in ArchiveRecords, NEW t, t[r.path] = NodeOf(r)
  PROVE  PlainOf(r) = EntryRecord(t, r.path) <=> r.spelling # "unsafe" /\ r.marker <= 1
<1>1. /\ r.marker \in 0 .. 2
      /\ r.spelling \in {"plain", "dotted", "unsafe"}
      /\ r = ArchiveRecord(r.path, r.kind, r.data, r.marker, r.spelling)
  BY RecordFields
<1>2. PlainOf(r) = ArchiveRecord(r.path, r.kind, r.data, r.marker,
                                 IF r.spelling = "dotted" THEN "plain" ELSE r.spelling)
  BY <1>1 DEF PlainOf, ArchiveRecord
<1>3. EntryRecord(t, r.path) = ArchiveRecord(r.path, r.kind, r.data, IF r.marker # 0 THEN 1 ELSE 0, "plain")
  <2>1. t[r.path].kind = r.kind /\ t[r.path].data = r.data
    BY DEF Node, NodeOf
  <2> DEFINE old == t[r.path]
  <2>2. CASE r.marker # 0
    <3>1. old = Node(r.kind, r.data, TRUE)
      BY <2>2 DEF NodeOf
    <3> HIDE DEF old
    <3>2. old.exec = TRUE
      BY <3>1 DEF Node
    <3> QED BY <2>1, <2>2, <3>2 DEF EntryRecord, old
  <2>3. CASE ~(r.marker # 0)
    <3>1. (r.marker # 0) = FALSE
      BY <2>3
    <3>2. old = Node(r.kind, r.data, FALSE)
      BY <3>1 DEF NodeOf
    <3> HIDE DEF old
    <3>3. old.exec = FALSE
      BY <3>2 DEF Node
    <3> QED BY <2>1, <2>3, <3>3 DEF EntryRecord, old
  <2> QED BY <2>2, <2>3
<1>4. (IF r.spelling = "dotted" THEN "plain" ELSE r.spelling) = "plain" <=> r.spelling # "unsafe"
  BY <1>1
<1>5. (IF r.marker # 0 THEN 1 ELSE 0) = r.marker <=> r.marker <= 1
  BY <1>1
<1> QED BY <1>2, <1>3, <1>4, <1>5 DEF ArchiveRecord

\* Dropping the spelling leaves the rest.
LEMMA PlainFields ==
  ASSUME NEW r \in ArchiveRecords
  PROVE  /\ PlainOf(r).path = r.path /\ PlainOf(r).kind = r.kind /\ PlainOf(r).marker = r.marker
         /\ PlainOf(r).spelling = "plain" => r.spelling # "unsafe"
<1>1. /\ r.spelling \in {"plain", "dotted", "unsafe"}
      /\ r = ArchiveRecord(r.path, r.kind, r.data, r.marker, r.spelling)
  BY RecordFields
<1> QED BY <1>1 DEF PlainOf, ArchiveRecord

\* The records s, taken for those of t: one for each entry, in preorder, each
\* fit to be written again.
ListsTree(s, t) ==
  /\ FiniteTree(t) /\ IsDir(t, Root)
  /\ DOMAIN t = {s[i].path : i \in DOMAIN s}
  /\ \A i \in DOMAIN s : /\ PlainOf(s[i]) = EntryRecord(t, s[i].path)
                         /\ s[i].kind \in {"dir", "file", "link"}
  /\ InPreorder(s)

\* What a list of records unpacks to.
LEMMA MaterializedFinite ==
  ASSUME NEW s \in Seq(ArchiveRecords)
  PROVE  DOMAIN Materialized(s) \subseteq Path /\ IsFiniteSet(DOMAIN Materialized(s))
<1>1. \E f \in [0 .. Len(s) -> TreesOf(ArchiveRecords)] : Materialized(s) = f[Len(s)]
  BY RecordPath, UnpackSteps
<1>2. Len(s) \in 0 .. Len(s)
  OBVIOUS
<1>3. Materialized(s) \in TreesOf(ArchiveRecords)
  BY <1>1, <1>2
<1> QED BY <1>3 DEF TreesOf

LEMMA PlainList ==
  ASSUME NEW s \in Seq(ArchiveRecords)
  PROVE  /\ DOMAIN Plain(s) = DOMAIN s /\ DOMAIN s = 1 .. Len(s) /\ Len(s) \in Nat
         /\ \A i \in DOMAIN s : Plain(s)[i] = PlainOf(s[i]) /\ s[i] \in ArchiveRecords
<1>1. DOMAIN s = 1 .. Len(s) /\ Len(s) \in Nat /\ \A i \in DOMAIN s : s[i] \in ArchiveRecords
  OBVIOUS
<1> QED BY <1>1 DEF Plain, PlainOf

\* They are what encode_tree writes exactly if they list the tree they unpack to.
LEMMA EncodingLists ==
  ASSUME NEW s \in Seq(ArchiveRecords), s # << >>
  PROVE  IsEncoding(s) <=> ListsTree(s, Materialized(s))
<1> DEFINE t == Materialized(s)
<1>1. DOMAIN t \subseteq Path /\ IsFiniteSet(DOMAIN t)
  BY MaterializedFinite
<1>2. IsEncoding(s) <=> /\ Root \in {s[i].path : i \in DOMAIN s}
                        /\ IsTree(t) /\ IsDir(t, Root) /\ Encodable(t) /\ Encode(t) = Plain(s)
  BY DEF IsEncoding
<1> HIDE DEF t
<1>3. /\ DOMAIN Plain(s) = DOMAIN s /\ DOMAIN s = 1 .. Len(s) /\ Len(s) \in Nat
      /\ \A i \in DOMAIN s : Plain(s)[i] = PlainOf(s[i]) /\ s[i] \in ArchiveRecords
  BY PlainList
<1>4. \A i \in DOMAIN s : Plain(s)[i].path = s[i].path
  BY <1>3, PlainFields
<1>5. InPreorder(Plain(s)) <=> InPreorder(s)
  BY <1>3, <1>4 DEF InPreorder
<1>6. ASSUME IsTree(t), IsDir(t, Root), Encodable(t), Encode(t) = Plain(s)
      PROVE  ListsTree(s, t)
  <2>1. FiniteTree(t)
    BY <1>1, <1>6 DEF FiniteTree
  <2>2. InPreorder(Plain(s)) /\ ToSet(Plain(s)) = RecordsOf(t)
    BY <1>6, <2>1, EncodeInPreorder
  <2>3. ASSUME NEW i \in DOMAIN s
        PROVE  /\ PlainOf(s[i]) = EntryRecord(t, s[i].path) /\ s[i].path \in DOMAIN t
               /\ s[i].kind \in {"dir", "file", "link"}
    <3>1. Plain(s)[i] \in ToSet(Plain(s))
      BY <1>3 DEF ToSet
    <3>2. PICK p \in DOMAIN t : PlainOf(s[i]) = EntryRecord(t, p)
      BY <1>3, <2>2, <3>1 DEF RecordsOf
    <3>3. p = s[i].path
      BY <1>3, <3>2, EntryPath, PlainFields
    <3>4. EntryRecord(t, p).kind = t[p].kind
      BY DEF EntryRecord, ArchiveRecord
    <3>5. s[i].kind = t[p].kind
      BY <1>3, <3>2, <3>4, PlainFields
    <3>6. t[p].kind \in {"dir", "file", "link"}
      BY <1>6 DEF Encodable
    <3> QED BY <3>2, <3>3, <3>5, <3>6
  <2>4. ASSUME NEW p \in DOMAIN t PROVE \E i \in DOMAIN s : s[i].path = p
    <3>1. EntryRecord(t, p) \in ToSet(Plain(s))
      BY <2>2 DEF RecordsOf
    <3>2. PICK i \in DOMAIN s : Plain(s)[i] = EntryRecord(t, p)
      BY <1>3, <3>1 DEF ToSet
    <3> QED BY <1>4, <3>2, EntryPath
  <2>5. DOMAIN t = {s[i].path : i \in DOMAIN s}
    BY <2>3, <2>4
  <2> QED BY <1>5, <1>6, <2>1, <2>2, <2>3, <2>5 DEF ListsTree
<1>7. ASSUME ListsTree(s, t)
      PROVE  /\ Root \in {s[i].path : i \in DOMAIN s}
             /\ IsTree(t) /\ IsDir(t, Root) /\ Encodable(t) /\ Encode(t) = Plain(s)
  <2> DEFINE B == RecordsOf(t)
  <2>1. FiniteTree(t) /\ IsTree(t) /\ IsDir(t, Root) /\ Root \in DOMAIN t
    BY <1>7 DEF ListsTree, FiniteTree, IsTree
  <2>2. DOMAIN t = {s[i].path : i \in DOMAIN s}
    BY <1>7 DEF ListsTree
  <2>3. \A i \in DOMAIN s : s[i].path \in DOMAIN t /\ Plain(s)[i] = EntryRecord(t, s[i].path)
    BY <1>3, <1>7, <2>2 DEF ListsTree
  <2>4. \A p \in DOMAIN t : \E i \in DOMAIN s : s[i].path = p /\ Plain(s)[i] = EntryRecord(t, p)
    BY <2>2, <2>3
  <2>5. Encodable(t)
    <3> SUFFICES ASSUME NEW p \in DOMAIN t PROVE t[p].kind \in {"dir", "file", "link"}
      BY DEF Encodable
    <3>1. PICK i \in DOMAIN s : s[i].path = p /\ Plain(s)[i] = EntryRecord(t, p)
      BY <2>4
    <3>2. EntryRecord(t, p).kind = t[p].kind
      BY DEF EntryRecord, ArchiveRecord
    <3>3. t[p].kind = s[i].kind
      BY <1>3, <3>1, <3>2, PlainFields
    <3> QED BY <1>7, <3>3 DEF ListsTree
  <2>6. \A i \in DOMAIN s : Plain(s)[i] \in B
    BY <2>3 DEF RecordsOf
  <2>7. \A x \in B : \E i \in DOMAIN s : Plain(s)[i] = x
    BY <2>4 DEF RecordsOf
  <2> HIDE DEF B
  <2>8. Plain(s) \in Seq(B)
    <3>1. Plain(s) = [i \in 1 .. Len(s) |-> Plain(s)[i]]
      BY <1>3 DEF Plain
    <3>2. Plain(s) \in [1 .. Len(s) -> B]
      BY <1>3, <2>6, <3>1
    <3> QED BY <1>3, <3>2, SeqDef
  <2>9. ToSet(Plain(s)) = B
    BY <1>3, <2>6, <2>7 DEF ToSet
  <2>10. InPreorder(Plain(s))
    BY <1>5, <1>7 DEF ListsTree
  <2>11. Encode(t) \in Seq(B) /\ InPreorder(Encode(t)) /\ ToSet(Encode(t)) = B
    BY <2>1, EncodeInPreorder DEF B
  <2>12. \A x \in B : x.path \in Path
    BY <2>1, EntryPath DEF B, RecordsOf, FiniteTree
  <2>13. Encode(t) = Plain(s)
    BY <2>8, <2>9, <2>10, <2>11, <2>12, OnePreorder
  <2> QED BY <2>1, <2>2, <2>5, <2>13
<1> QED BY <1>2, <1>6, <1>7 DEF t

-----------------------------------------------------------------------------
\* All that is listed is the last entry or comes before it.
LEMMA LastOfAll ==
  ASSUME NEW s \in Seq(ArchiveRecords), s # << >>, NEW t, ListsTree(s, t)
  PROVE  /\ Last(s) \in ArchiveRecords /\ Last(s).path \in DOMAIN t
         /\ \A p \in DOMAIN t : p = Last(s).path \/ Precedes(p, Last(s).path)
<1> DEFINE n == Len(s)
<1>1. n \in DOMAIN s /\ DOMAIN s = 1 .. n /\ n \in Nat
  BY EmptySeq
<1>2. \A i \in DOMAIN s : i = n \/ i < n
  BY <1>1
<1>3. DOMAIN t = {s[i].path : i \in DOMAIN s}
  BY DEF ListsTree
<1>4. \A i \in DOMAIN s : i < n => Precedes(s[i].path, s[n].path)
  BY <1>1 DEF ListsTree, InPreorder
<1> HIDE DEF n
<1>5. s[n] \in ArchiveRecords
  BY <1>1
<1>6. Last(s) = s[n]
  BY DEF Last, n
<1> QED BY <1>1, <1>2, <1>3, <1>4, <1>5, <1>6

\* One more entry, of which the reader has to decide.
LEMMA OneMore ==
  ASSUME NEW s \in Seq(ArchiveRecords), NEW r \in ArchiveRecords
  PROVE  /\ Append(s, r) \in Seq(ArchiveRecords) /\ Append(s, r) # << >>
         /\ DOMAIN Append(s, r) = DOMAIN s \cup {Len(s) + 1} /\ Len(s) \in Nat
         /\ DOMAIN s = 1 .. Len(s)
         /\ \A i \in DOMAIN s : Append(s, r)[i] = s[i]
         /\ Append(s, r)[Len(s) + 1] = r /\ Last(Append(s, r)) = r
<1> DEFINE u == Append(s, r)
<1>1. /\ u \in Seq(ArchiveRecords) /\ u # << >> /\ Len(u) = Len(s) + 1
      /\ \A i \in 1 .. Len(s) : u[i] = s[i]
      /\ u[Len(s) + 1] = r
  BY AppendProperties
<1>2. DOMAIN s = 1 .. Len(s) /\ Len(s) \in Nat
  OBVIOUS
<1> HIDE DEF u
<1>3. DOMAIN u = 1 .. Len(s) + 1
  BY <1>1
<1>4. DOMAIN u = DOMAIN s \cup {Len(s) + 1}
  BY <1>2, <1>3
<1>5. Last(u) = r
  BY <1>1 DEF Last
<1> QED BY <1>1, <1>2, <1>4, <1>5 DEF u

\* What one more record adds to the tree.
LEMMA OneMoreUnpacked ==
  ASSUME NEW s \in Seq(ArchiveRecords), NEW r \in ArchiveRecords
  PROVE  /\ DOMAIN Materialized(Append(s, r))
              = DOMAIN Materialized(s) \cup Ancestors(r.path) \cup {r.path}
         /\ Materialized(Append(s, r))[r.path] = NodeOf(r)
         /\ \A q \in DOMAIN Materialized(s) :
              q # r.path => Materialized(Append(s, r))[q] = Materialized(s)[q]
<1> DEFINE t == Materialized(s)
           v == Materialized(Append(s, r))
<1>1. t \in TreesOf(ArchiveRecords) /\ v = Unpack(t, r)
  BY RecordPath, UnpackOneMore
<1> HIDE DEF t, v
<1>2. v = [q \in DOMAIN t \cup Ancestors(r.path) \cup {r.path} |->
             IF q = r.path THEN NodeOf(r) ELSE IF q \in DOMAIN t THEN t[q] ELSE Dir]
  BY <1>1, UnpackIs
<1>3. DOMAIN v = DOMAIN t \cup Ancestors(r.path) \cup {r.path}
  BY <1>2
<1>4. v[r.path] = NodeOf(r)
  BY <1>2
<1>5. \A q \in DOMAIN t : q # r.path => v[q] = t[q]
  BY <1>2
<1> QED BY <1>3, <1>4, <1>5 DEF t, v

\* The kind of an entry is that of its record.
LEMMA KindOfEntry ==
  ASSUME NEW s \in Seq(ArchiveRecords), NEW t, ListsTree(s, t), NEW i \in DOMAIN s
  PROVE  t[s[i].path].kind = s[i].kind
<1>1. PlainOf(s[i]) = EntryRecord(t, s[i].path) /\ s[i] \in ArchiveRecords
  BY DEF ListsTree
<1>2. EntryRecord(t, s[i].path).kind = t[s[i].path].kind
  BY DEF EntryRecord, ArchiveRecord
<1> QED BY <1>1, <1>2, PlainFields

\* What encode_tree may write next, the reader takes.
LEMMA TakesWhatIsWritten ==
  ASSUME read \in Seq(ArchiveRecords), NEW r \in ArchiveRecords,
         NEW v, v[r.path] = NodeOf(r), ListsTree(Append(read, r), v)
  PROVE  WellFormed(r) /\ \A i \in DOMAIN read : Precedes(read[i].path, r.path)
<1> DEFINE u == Append(read, r)
           n == Len(read) + 1
<1>1. /\ DOMAIN u = DOMAIN read \cup {n} /\ DOMAIN read = 1 .. Len(read) /\ Len(read) \in Nat
      /\ \A i \in DOMAIN read : u[i] = read[i]
      /\ u[n] = r
  BY OneMore
<1> HIDE DEF u
<1>2. PlainOf(r) = EntryRecord(v, r.path) /\ r.kind \in {"dir", "file", "link"}
  <2>1. n \in DOMAIN u /\ u[n] = r
    BY <1>1
  <2> HIDE DEF n
  <2>2. /\ PlainOf(u[n]) = EntryRecord(v, u[n].path)
        /\ u[n].kind \in {"dir", "file", "link"}
    BY <2>1 DEF ListsTree, u
  <2> QED BY <2>1, <2>2
<1>3. \A i \in DOMAIN read : Precedes(read[i].path, r.path)
  <2> SUFFICES ASSUME NEW i \in DOMAIN read PROVE Precedes(read[i].path, r.path)
    OBVIOUS
  <2>1. i \in DOMAIN u /\ n \in DOMAIN u /\ i < n /\ u[i] = read[i] /\ u[n] = r
    BY <1>1
  <2> HIDE DEF n
  <2>2. Precedes(u[i].path, u[n].path)
    BY <2>1 DEF ListsTree, InPreorder, u
  <2> QED BY <2>1, <2>2
<1>4. r.spelling # "unsafe" /\ r.marker <= 1
  BY <1>2, RecordOfNode
<1>5. ~ \E i \in DOMAIN read : read[i].path = r.path /\ read[i].spelling = r.spelling
  BY <1>3 DEF Precedes
<1> QED BY <1>2, <1>3, <1>4, <1>5 DEF WellFormed

\* The invariant of the reader: what it has taken lists a tree, and the open
\* directories are those on the way to the last entry.
ReaderInv ==
  /\ read \in Seq(ArchiveRecords)
  /\ PayloadLanguage
  /\ verdict # "rejected" /\ read = << >> => open = << >>
  /\ verdict # "rejected" /\ read # << >> => open = StackOf(Materialized(read), Last(read).path)

\* The first record has to be the root.
LEMMA FirstRecord ==
  ASSUME read = << >>, open = << >>, NEW r \in ArchiveRecords
  PROVE  /\ IsEncoding(Append(read, r)) <=> WellFormed(r) /\ InPlace(r)
         /\ WellFormed(r) /\ InPlace(r) => Opened(r) = StackOf(Materialized(Append(read, r)), r.path)
<1> DEFINE u == Append(read, r)
           v == Materialized(u)
<1>1. read \in Seq(ArchiveRecords) /\ DOMAIN read = {} /\ Len(read) + 1 = 1
  OBVIOUS
<1>2. /\ u \in Seq(ArchiveRecords) /\ u # << >> /\ DOMAIN u = {1} /\ u[1] = r
  BY <1>1, OneMore
<1>3. /\ DOMAIN v = Ancestors(r.path) \cup {r.path}
      /\ v[r.path] = NodeOf(r)
  <2> DEFINE t == Materialized(read)
  <2>1. t = Nothing
    BY UnpackNone
  <2>2. DOMAIN t = {}
    BY <2>1 DEF Nothing
  <2> HIDE DEF t, v
  <2>3. DOMAIN v = DOMAIN t \cup Ancestors(r.path) \cup {r.path}
    BY <1>1, OneMoreUnpacked DEF t, v
  <2>4. v[r.path] = NodeOf(r)
    BY <1>1, OneMoreUnpacked DEF v
  <2> QED BY <2>2, <2>3, <2>4
<1>4. r.path \in Path
  BY RecordPath
<1> HIDE DEF v
<1>5. IsEncoding(u) <=> ListsTree(u, v)
  <2> HIDE DEF u
  <2> QED BY <1>2, EncodingLists DEF v
<1>6. v[r.path].kind = r.kind
  <2> DEFINE new == v[r.path]
  <2>1. new = NodeOf(r)
    BY <1>3
  <2> HIDE DEF new
  <2>2. new.kind = r.kind
    BY <2>1 DEF Node, NodeOf
  <2> QED BY <2>2 DEF new
<1>7. ~(Unwound(Parent(r.path)) # << >>)
  <2>1. Unwound(Parent(r.path)) = SubSeq(open, 1, Max({0}))
    <3>1. {i \in DOMAIN open : open[i].dir = Parent(r.path)} = {}
      OBVIOUS
    <3> QED BY <3>1 DEF Unwound
  <2>2. Max({0}) = 0
    BY DEF Max
  <2> QED BY <2>1, <2>2, SubSeqEmpty
<1>8. InPlace(r) <=> r.path = Root /\ r.kind = "dir"
  BY <1>7 DEF InPlace
<1>9. ASSUME ListsTree(u, v) PROVE WellFormed(r) /\ InPlace(r)
  <2>1. WellFormed(r)
    BY <1>1, <1>3, <1>9, TakesWhatIsWritten
  <2>2. IsDir(v, Root) /\ DOMAIN v = {u[i].path : i \in DOMAIN u}
    BY <1>9 DEF ListsTree
  <2> HIDE DEF u
  <2>3. r.path = Root
    BY <1>2, <2>2 DEF IsDir
  <2>4. r.kind = "dir"
    BY <1>6, <2>2, <2>3 DEF IsDir
  <2> QED BY <1>8, <2>1, <2>3, <2>4
<1>10. ASSUME WellFormed(r), InPlace(r) PROVE ListsTree(u, v)
  <2>1. r.path = Root /\ r.kind = "dir" /\ r.spelling # "unsafe"
    BY <1>8, <1>10 DEF WellFormed
  <2>2. Ancestors(Root) = {} /\ Root \in Path
    <3>1. 0 .. Len(Root) - 1 = {}
      BY DEF Root
    <3> QED BY <1>4, <2>1, <3>1 DEF Ancestors
  <2>3. DOMAIN v = {Root}
    BY <1>3, <2>1, <2>2
  <2>4. IsDir(v, Root)
    BY <1>6, <2>1, <2>3 DEF IsDir
  <2>5. FiniteTree(v)
    <3>1. IsTree(v)
      BY <2>3 DEF IsTree
    <3>2. IsFiniteSet({Root})
      BY FS_Singleton
    <3> QED BY <2>2, <2>3, <3>1, <3>2 DEF FiniteTree
  <2>6. r.marker = 0
    BY <2>1, RecordFields
  <2>7. PlainOf(r) = EntryRecord(v, r.path)
    BY <1>3, <2>1, <2>6, RecordOfNode
  <2> HIDE DEF u
  <2>8. DOMAIN v = {u[i].path : i \in DOMAIN u}
    BY <1>2, <2>1, <2>3
  <2>9. InPreorder(u)
    <3>1. \A i, j \in DOMAIN u : ~(i < j)
      BY <1>2
    <3> QED BY <3>1 DEF InPreorder
  <2>10. \A i \in DOMAIN u : u[i] = r
    BY <1>2
  <2> QED BY <2>1, <2>4, <2>5, <2>7, <2>8, <2>9, <2>10 DEF ListsTree
<1>11. ASSUME WellFormed(r), InPlace(r) PROVE Opened(r) = StackOf(v, r.path)
  <2> DEFINE own == [dir |-> Root, last |-> NoChild]
             s == StackOf(v, Root)
  <2>1. r.path = Root /\ r.kind = "dir" /\ IsDir(v, Root) /\ Root \in Path /\ Len(Root) = 0
    <3>1. IsDir(v, Root)
      BY <1>10, <1>11 DEF ListsTree
    <3> QED BY <1>4, <1>8, <1>11, <3>1 DEF Root
  <2>2. Opened(r) = <<own>>
    BY <2>1 DEF Opened
  <2>3. /\ s \in Seq(OpenDir) /\ Len(s) = 1 /\ 1 \in 1 .. 1
        /\ s[1].dir \in Path /\ Len(s[1].dir) = 0 /\ s[1].last = 0
    <3> DEFINE m == Root
    <3>1. m \in Path /\ IsDir(v, m) /\ Len(m) = 0
      BY <2>1
    <3> HIDE DEF m
    <3>2. /\ StackOf(v, m) \in Seq(OpenDir)
          /\ Len(StackOf(v, m)) = IF IsDir(v, m) THEN Len(m) + 1 ELSE Len(m)
          /\ \A i \in 1 .. Len(StackOf(v, m)) :
               /\ StackOf(v, m)[i].dir \in Path /\ Len(StackOf(v, m)[i].dir) = i - 1
               /\ StackOf(v, m)[i].last = IF i <= Len(m) THEN m[i] ELSE 0
      BY <3>1, StackTyped
    <3>3. s = StackOf(v, m)
      BY DEF m
    <3> HIDE DEF s
    <3> QED BY <3>1, <3>2, <3>3
  <2>4. s[1].dir = Root
    BY <2>1, <2>3, EmptySeq DEF Path, Root
  <2>5. s[1] \in OpenDir /\ own \in OpenDir /\ own.dir = Root /\ own.last = 0
    <3>1. own = [dir |-> Root, last |-> 0] /\ 0 \in Nat
      BY DEF NoChild
    <3>2. own \in OpenDir
      BY <2>1, <3>1 DEF OpenDir
    <3>3. s[1] \in OpenDir
      <4> HIDE DEF s
      <4> QED BY <2>3
    <3> QED BY <3>1, <3>2, <3>3
  <2> HIDE DEF s, own
  <2>6. s[1] = own
    BY <2>3, <2>4, <2>5 DEF OpenDir
  <2>7. s = <<own>>
    BY <2>3, <2>6
  <2> QED BY <2>1, <2>2, <2>7 DEF s
<1> QED BY <1>5, <1>9, <1>10, <1>11 DEF u, v

-----------------------------------------------------------------------------
\* The new entry of a tree, and the others as they were.
LEMMA NewEntry ==
  ASSUME NEW t, FiniteTree(t), IsDir(t, Root),
         NEW q \in Path, q # Root, IsDir(t, Parent(q)), q \notin DOMAIN t,
         NEW v, DOMAIN v = DOMAIN t \cup Ancestors(q) \cup {q}, \A p \in DOMAIN t : v[p] = t[p]
  PROVE  FiniteTree(v) /\ IsDir(v, Root) /\ DOMAIN v = DOMAIN t \cup {q}
<1> DEFINE d == Parent(q)
<1>1. /\ DOMAIN t \subseteq Path /\ IsFiniteSet(DOMAIN t) /\ d \in DOMAIN t /\ d \in Path
      /\ Root \in DOMAIN t /\ \A p \in DOMAIN t \ {Root} : IsDir(t, Parent(p))
  BY DEF FiniteTree, IsTree, IsDir
<1>2. Under(d, q) /\ Len(q) = Len(d) + 1
  <2>1. Under(d, q) /\ Len(d) = Len(q) - 1 /\ Len(q) \in Nat
    BY PathHasParent
  <2> QED BY <2>1
<1> HIDE DEF d
<1>3. Ancestors(q) \subseteq DOMAIN t
  <2> SUFFICES ASSUME NEW a \in Ancestors(q) PROVE a \in DOMAIN t
    OBVIOUS
  <2>1. a = d \/ a \in Ancestors(d)
    <3>1. Ancestors(q) = Ancestors(d) \cup {d}
      BY <1>1, <1>2, AncestorsOfChild
    <3> QED BY <3>1
  <2>2. a \in Ancestors(d) => a \in Path /\ Under(a, d)
    BY <1>1, AncestorsAbove
  <2> QED BY <1>1, <2>1, <2>2, AboveIsThere
<1>4. DOMAIN v = DOMAIN t \cup {q}
  BY <1>3
<1>5. \A p : IsDir(t, p) => IsDir(v, p)
  BY <1>4 DEF IsDir
<1>6. IsTree(v)
  <2>1. IsDir(v, Parent(q))
    BY <1>5
  <2> QED BY <1>1, <1>4, <1>5, <2>1 DEF IsTree
<1>7. DOMAIN v \subseteq Path /\ IsFiniteSet(DOMAIN v)
  <2>1. IsFiniteSet(DOMAIN t \cup {q})
    BY <1>1, FS_AddElement
  <2> QED BY <1>1, <1>4, <2>1
<1> QED BY <1>4, <1>5, <1>6, <1>7 DEF FiniteTree

\* A list with one more record of one more entry.
LEMMA ListsOneMore ==
  ASSUME NEW s \in Seq(ArchiveRecords), NEW r \in ArchiveRecords, NEW t, ListsTree(s, t),
         NEW v, FiniteTree(v), IsDir(v, Root), DOMAIN v = DOMAIN t \cup {r.path},
         \A p \in DOMAIN t : v[p] = t[p],
         PlainOf(r) = EntryRecord(v, r.path), r.kind \in {"dir", "file", "link"},
         \A i \in DOMAIN s : Precedes(s[i].path, r.path)
  PROVE  ListsTree(Append(s, r), v)
<1> DEFINE u == Append(s, r)
           n == Len(s) + 1
<1>1. /\ DOMAIN u = DOMAIN s \cup {n} /\ DOMAIN s = 1 .. Len(s) /\ Len(s) \in Nat
      /\ \A i \in DOMAIN s : u[i] = s[i]
      /\ u[n] = r
  BY OneMore
<1>2. \A i \in DOMAIN s : i < n /\ ~(n < i) /\ i # n
  BY <1>1
<1>3. ~(n < n)
  BY <1>1
<1> HIDE DEF u, n
<1>4. DOMAIN t = {s[i].path : i \in DOMAIN s} /\ InPreorder(s)
  BY DEF ListsTree
<1>5. DOMAIN v = {u[i].path : i \in DOMAIN u}
  BY <1>1, <1>4
<1>6. ASSUME NEW i \in DOMAIN u
      PROVE  PlainOf(u[i]) = EntryRecord(v, u[i].path) /\ u[i].kind \in {"dir", "file", "link"}
  <2>1. CASE i = n
    BY <1>1, <2>1
  <2>2. CASE i \in DOMAIN s
    <3>1. u[i] = s[i] /\ s[i].path \in DOMAIN t
      BY <1>1, <1>4, <2>2
    <3>2. PlainOf(s[i]) = EntryRecord(t, s[i].path) /\ s[i].kind \in {"dir", "file", "link"}
      BY <2>2 DEF ListsTree
    <3>3. EntryRecord(v, s[i].path) = EntryRecord(t, s[i].path)
      BY <3>1 DEF EntryRecord
    <3> QED BY <3>1, <3>2, <3>3
  <2> QED BY <1>1, <2>1, <2>2
<1>7. InPreorder(u)
  <2> SUFFICES ASSUME NEW i \in DOMAIN u, NEW j \in DOMAIN u, i < j
               PROVE  Precedes(u[i].path, u[j].path)
    BY DEF InPreorder
  <2>1. i \in DOMAIN s /\ u[i] = s[i]
    BY <1>1, <1>2, <1>3
  <2>2. CASE j = n
    BY <1>1, <2>1, <2>2
  <2>3. CASE j \in DOMAIN s
    BY <1>1, <1>4, <2>1, <2>3 DEF InPreorder
  <2> QED BY <1>1, <2>2, <2>3
<1> QED BY <1>5, <1>6, <1>7 DEF ListsTree, u

\* A further record: the reader takes it exactly if encode_tree may write it.
LEMMA NextRecord ==
  ASSUME read \in Seq(ArchiveRecords), read # << >>, ListsTree(read, Materialized(read)),
         open = StackOf(Materialized(read), Last(read).path), NEW r \in ArchiveRecords
  PROVE  /\ IsEncoding(Append(read, r)) <=> (WellFormed(r) /\ InPlace(r))
         /\ WellFormed(r) /\ InPlace(r) =>
              Opened(r) = StackOf(Materialized(Append(read, r)), r.path)
<1> DEFINE t == Materialized(read)
           u == Append(read, r)
           v == Materialized(u)
           m == Last(read).path
           q == r.path
           d == Parent(q)
           n == Name(q)
<1>1. /\ FiniteTree(t) /\ IsDir(t, Root) /\ DOMAIN t \subseteq Path /\ Root \in DOMAIN t
      /\ DOMAIN t = {read[i].path : i \in DOMAIN read}
  BY DEF ListsTree, FiniteTree, IsDir
<1>2. m \in DOMAIN t /\ \A p \in DOMAIN t : p = m \/ Precedes(p, m)
  BY LastOfAll
<1>3. DOMAIN v = DOMAIN t \cup Ancestors(q) \cup {q}
  BY OneMoreUnpacked
<1>4. v[q] = NodeOf(r)
  BY OneMoreUnpacked
<1>5. \A p \in DOMAIN t : p # q => v[p] = t[p]
  BY OneMoreUnpacked
<1>6. q \in Path /\ (q # Root => n > 0)
  BY RecordPath
<1>7. q # Root => d \in Path /\ n \in Nat /\ q = Append(d, n) /\ d # q
  <2> SUFFICES ASSUME q # Root PROVE d \in Path /\ n \in Nat /\ q = Append(d, n) /\ d # q
    OBVIOUS
  <2>1. d \in Path /\ n \in Nat /\ q = Append(d, n) /\ Len(d) = Len(q) - 1 /\ Len(q) \in Nat
    BY <1>6, PathHasParent
  <2>2. Len(d) # Len(q)
    BY <2>1
  <2> QED BY <2>1, <2>2
<1>8. u \in Seq(ArchiveRecords) /\ u # << >>
  BY OneMore
<1>9. IsEncoding(u) <=> ListsTree(u, v)
  <2> HIDE DEF u
  <2> QED BY <1>8, EncodingLists DEF v
<1>10. DOMAIN read = 1 .. Len(read) /\ Len(read) \in DOMAIN read
       /\ \A i \in DOMAIN read : read[i] \in ArchiveRecords
  BY EmptySeq
<1> HIDE DEF t, u, v, m, d, n
<1>11. m = read[Len(read)].path
  BY DEF m, Last
<1>12. open = StackOf(t, m)
  BY DEF t, m
<1>13. open # << >>
  <2>1. m \in Path
    BY <1>1, <1>2
  <2>2. Len(open) = IF IsDir(t, m) THEN Len(m) + 1 ELSE Len(m)
    BY <1>12, <2>1, StackTyped
  <2>3. m = Root => IsDir(t, m)
    BY <1>1
  <2>4. Len(m) \in Nat /\ (m # Root => Len(m) # 0)
    BY <2>1, EmptySeq DEF Path, Root
  <2> QED BY <2>2, <2>3, <2>4
<1>14. InPlace(r) <=> q # Root /\ IsDir(t, d) /\ Precedes(m, q)
  <2>1. CASE q = Root
    BY <1>13, <2>1 DEF InPlace
  <2>2. CASE q # Root
    <3>1. InPlace(r) <=> (Unwound(d) # << >> /\ n > Last(Unwound(d)).last)
      BY <2>2 DEF InPlace, d, n
    <3>2. (Unwound(d) # << >> /\ n > Last(Unwound(d)).last) <=> (IsDir(t, d) /\ Precedes(m, Append(d, n)))
      BY <1>1, <1>2, <1>6, <1>7, <1>12, <2>2, InPlaceExact
    <3> QED BY <1>7, <2>2, <3>1, <3>2
  <2> QED BY <2>1, <2>2
<1>15. v[q].kind = r.kind
  <2> DEFINE new == v[q]
  <2>1. new = Node(r.kind, r.data, r.marker # 0)
    BY <1>4 DEF NodeOf
  <2> HIDE DEF new
  <2>2. new.kind = r.kind
    BY <2>1 DEF Node
  <2> QED BY <2>2 DEF new
<1>16. ASSUME ListsTree(u, v) PROVE WellFormed(r) /\ InPlace(r)
  <2>1. WellFormed(r) /\ \A i \in DOMAIN read : Precedes(read[i].path, q)
    BY <1>4, <1>16, TakesWhatIsWritten DEF u
  <2>2. Precedes(m, q)
    BY <1>10, <1>11, <2>1
  <2>3. q \notin DOMAIN t
    BY <1>1, <2>1 DEF Precedes
  <2>4. q # Root
    BY <1>1, <2>3
  <2>5. IsDir(v, d)
    <3>1. q \in DOMAIN v \ {Root}
      BY <1>3, <2>4
    <3> QED BY <1>16, <3>1 DEF ListsTree, FiniteTree, IsTree, d
  <2>6. d \in DOMAIN t
    <3>1. d \in DOMAIN v /\ d # q
      BY <1>7, <2>4, <2>5 DEF IsDir
    <3>2. DOMAIN v = {u[i].path : i \in DOMAIN u}
      BY <1>16 DEF ListsTree
    <3>3. \A i \in DOMAIN u : u[i] = r \/ (i \in DOMAIN read /\ u[i] = read[i])
      BY OneMore DEF u
    <3> QED BY <1>1, <3>1, <3>2, <3>3
  <2>7. IsDir(t, d)
    BY <1>5, <1>7, <2>4, <2>5, <2>6 DEF IsDir
  <2> QED BY <1>14, <2>1, <2>2, <2>4, <2>7
<1>17. ASSUME WellFormed(r), InPlace(r) PROVE ListsTree(u, v)
  <2>1. q # Root /\ IsDir(t, d) /\ Precedes(m, q)
    BY <1>14, <1>17
  <2>2. \A p \in DOMAIN t : Precedes(p, q)
    <3> SUFFICES ASSUME NEW p \in DOMAIN t PROVE Precedes(p, q)
      OBVIOUS
    <3>1. p \in Path /\ m \in Path /\ (p = m \/ Precedes(p, m))
      BY <1>1, <1>2
    <3> QED BY <1>6, <2>1, <3>1, PrecedesOrder
  <2>3. q \notin DOMAIN t
    BY <2>2 DEF Precedes
  <2>4. \A p \in DOMAIN t : v[p] = t[p]
    BY <1>5, <2>3
  <2>5. FiniteTree(v) /\ IsDir(v, Root) /\ DOMAIN v = DOMAIN t \cup {q}
    BY <1>1, <1>3, <1>6, <2>1, <2>3, <2>4, NewEntry DEF d
  <2>6. PlainOf(r) = EntryRecord(v, q)
    <3>1. r.marker <= 1
      BY <1>17, RecordFields DEF WellFormed
    <3> QED BY <1>4, <1>17, <3>1, RecordOfNode DEF WellFormed
  <2>7. \A i \in DOMAIN read : Precedes(read[i].path, q)
    BY <1>1, <2>2
  <2>8. r.kind \in {"dir", "file", "link"}
    BY <1>17 DEF WellFormed
  <2>9. ListsTree(read, t)
    BY DEF t
  <2> QED BY <2>4, <2>5, <2>6, <2>7, <2>8, <2>9, ListsOneMore DEF u
<1>18. ASSUME WellFormed(r), InPlace(r) PROVE Opened(r) = StackOf(v, q)
  <2>1. q # Root /\ Unwound(d) # << >>
    BY <1>14, <1>18 DEF InPlace, d
  <2>2. IsDir(v, q) <=> r.kind = "dir"
    BY <1>3, <1>15 DEF IsDir
  <2>3. m \in Path
    BY <1>1, <1>2
  <2> QED BY <1>7, <1>12, <2>1, <2>2, <2>3, OpenedExact
<1> QED BY <1>9, <1>16, <1>17, <1>18 DEF u, v

-----------------------------------------------------------------------------
\* What the reader decides at a record.
LEMMA AtRecord ==
  ASSUME ReaderInv, verdict = "reading", NEW r \in ArchiveRecords
  PROVE  /\ IsEncoding(Append(read, r)) <=> (WellFormed(r) /\ InPlace(r))
         /\ WellFormed(r) /\ InPlace(r) =>
              Opened(r) = StackOf(Materialized(Append(read, r)), r.path)
<1>1. CASE read = << >>
  BY <1>1, FirstRecord DEF ReaderInv
<1>2. CASE read # << >>
  <2>1. ListsTree(read, Materialized(read))
    BY <1>2, EncodingLists DEF ReaderInv, PayloadLanguage
  <2>2. open = StackOf(Materialized(read), Last(read).path) /\ read \in Seq(ArchiveRecords)
    BY <1>2 DEF ReaderInv
  <2> QED BY <1>2, <2>1, <2>2, NextRecord
<1> QED BY <1>1, <1>2

LEMMA ReaderInit == ArchiveInit => ReaderInv
<1> SUFFICES ASSUME ArchiveInit PROVE ReaderInv
  OBVIOUS
<1>1. read = << >> /\ open = << >> /\ verdict = "idle"
  BY DEF ArchiveInit
<1>2. IsEncoding(read)
  BY <1>1 DEF IsEncoding
<1> QED BY <1>1, <1>2 DEF ReaderInv, PayloadLanguage

LEMMA ReaderStep == ReaderInv /\ [ArchiveNext]_archiveVars => ReaderInv'
<1> SUFFICES ASSUME ReaderInv, [ArchiveNext]_archiveVars PROVE ReaderInv'
  OBVIOUS
<1>1. ASSUME read' = read, open' = open, (verdict' = "rejected") <=> (verdict = "rejected")
      PROVE  ReaderInv'
  <2>1. PayloadLanguage'
    BY <1>1 DEF ReaderInv, PayloadLanguage
  <2> QED BY <1>1, <2>1 DEF ReaderInv
<1>2. CASE OpenArchive
  BY <1>1, <1>2 DEF OpenArchive
<1>3. ASSUME NEW r \in ArchiveRecords, AcceptRecord(r) PROVE ReaderInv'
  <2>1. /\ verdict = "reading" /\ WellFormed(r) /\ InPlace(r)
        /\ read' = Append(read, r) /\ open' = Opened(r) /\ verdict' = verdict
    BY <1>3 DEF AcceptRecord
  <2>2. IsEncoding(Append(read, r)) /\ Opened(r) = StackOf(Materialized(Append(read, r)), r.path)
    BY <2>1, AtRecord
  <2>3. Append(read, r) \in Seq(ArchiveRecords) /\ Append(read, r) # << >> /\ Last(Append(read, r)) = r
    BY OneMore DEF ReaderInv
  <2>4. PayloadLanguage'
    BY <2>1, <2>2 DEF PayloadLanguage
  <2> QED BY <2>1, <2>2, <2>3, <2>4 DEF ReaderInv
<1>4. ASSUME NEW r \in ArchiveRecords, RejectRecord(r) PROVE ReaderInv'
  <2>1. /\ verdict = "reading" /\ ~(WellFormed(r) /\ InPlace(r))
        /\ read' = Append(read, r) /\ verdict' = "rejected"
    BY <1>4 DEF RejectRecord
  <2>2. ~IsEncoding(Append(read, r))
    BY <2>1, AtRecord
  <2>3. Append(read, r) \in Seq(ArchiveRecords)
    BY OneMore DEF ReaderInv
  <2>4. PayloadLanguage'
    BY <2>1, <2>2 DEF PayloadLanguage
  <2> QED BY <2>1, <2>3, <2>4 DEF ReaderInv
<1>5. CASE AcceptEnd
  BY <1>1, <1>5 DEF AcceptEnd
<1>6. CASE MalformedEnd
  BY <1>1, <1>6 DEF MalformedEnd
<1>7. CASE UNCHANGED archiveVars
  BY <1>1, <1>7 DEF archiveVars
<1> QED BY <1>2, <1>3, <1>4, <1>5, <1>6, <1>7 DEF ArchiveNext

\* PayloadLanguage, for paths of any length and archives of any size:
\* validate_payload goes on exactly as long as what it has read is what
\* encode_tree writes for the tree it unpacks to.
THEOREM ReaderSpeaksForWriter == ArchiveSpec => []PayloadLanguage
<1>1. ReaderInv => PayloadLanguage
  BY DEF ReaderInv
<1> QED BY <1>1, ReaderInit, ReaderStep, PTL DEF ArchiveSpec
=============================================================================
