--------------------------- MODULE ObjectManifest ---------------------------
(* The manifest of a store object: written by export_store_object, given a  *)
(* CAS root by add_cas_manifest or edited by a reviewer, and compared with  *)
(* what a rule expects by import_store_object. A store path is a number,    *)
(* so that < is the order of strings; 0 is a string that names no store     *)
(* entry.                                                                   *)
EXTENDS Orders, SequencesExt

CONSTANTS Own,         \* the path of the object
          Others,      \* paths it may reference
          MaxList      \* bound: the longest list an argument gives

ASSUME OwnAssumption ==
  Own \in Nat \ {0} /\ Own \notin Others /\ Others \subseteq Nat \ {0} /\ MaxList \in Nat

VARIABLES manifest,    \* the manifest file, or one of the two below
          wanted,      \* what the importer expects
          answer       \* idle, exported, refused, imported, rejected

manifestVars == <<manifest, wanted, answer>>

NoManifest == [file |-> "none"]
Paths == Others \cup {Own}
Lists(S) == UNION {[1 .. n -> S] : n \in 0 .. MaxList}

\* sort and dedup.
CanonicalStorePaths(list) == InOrder(ToSet(list))

\* The three lists, the identity (key, entry and path agree), the package and
\* target fields, and the cas key no reader of the manifest looks at.
Manifest(refs, runtime, tools, identity, package, cas) ==
  [file |-> "manifest", refs |-> refs, runtime |-> runtime, tools |-> tools,
   identity |-> identity, package |-> package, cas |-> cas]

EffectiveTools(m) == IF m.tools = << >> THEN m.runtime ELSE m.tools

-----------------------------------------------------------------------------
ManifestInit == manifest = NoManifest /\ wanted = NoManifest /\ answer = "idle"

\* Mutant: the own path may be missing.
ValidManifestAnyOwner(m) ==
  /\ m.identity
  /\ 0 \notin ToSet(m.refs) \cup ToSet(m.runtime) \cup ToSet(m.tools)
  /\ CanonicalStorePaths(m.refs) = m.refs
  /\ \A list \in {m.runtime, EffectiveTools(m)} :
       CanonicalStorePaths(list) = list /\ ToSet(list) \subseteq ToSet(m.refs) \cup {Own}

\* validate_manifest.
ValidManifest(m) ==
  /\ m.identity
  /\ 0 \notin ToSet(m.refs) \cup ToSet(m.runtime) \cup ToSet(m.tools)
  /\ CanonicalStorePaths(m.refs) = m.refs
  /\ \A list \in {m.runtime, EffectiveTools(m)} :
       /\ CanonicalStorePaths(list) = list
       /\ Own \in ToSet(list)
       /\ ToSet(list) \subseteq ToSet(m.refs) \cup {Own}

\* export_store_object: no tools means those needed at run time.
Exported(refs, runtime, tools, identity) ==
  Manifest(CanonicalStorePaths(refs), CanonicalStorePaths(runtime),
           CanonicalStorePaths(IF tools = << >> THEN runtime ELSE tools),
           identity, "package", FALSE)

ExportStoreObject(refs, runtime, tools, identity) ==
  /\ answer = "idle"
  /\ IF ValidManifest(Exported(refs, runtime, tools, identity))
     THEN manifest' = Exported(refs, runtime, tools, identity) /\ answer' = "exported"
     ELSE answer' = "refused" /\ UNCHANGED manifest
  /\ UNCHANGED wanted

\* A manifest from the repository, whatever its history.
PinManifest(m) ==
  /\ answer = "idle"
  /\ manifest' = m
  /\ answer' = "exported"
  /\ UNCHANGED wanted

\* add_cas_manifest: a digest that is no REAPI digest leaves no output; the
\* written copy has one key more.
AddCasManifest(digestValid) ==
  /\ answer = "exported" /\ ~manifest.cas
  /\ ValidManifest(manifest) /\ digestValid
  /\ manifest' = [manifest EXCEPT !.cas = TRUE]
  /\ UNCHANGED <<wanted, answer>>

\* Mutant: the importer compares the tool lists as they are written.
ExpectedLiteral(m, refs, runtime, tools, package) ==
  /\ m.package = package
  /\ m.refs = CanonicalStorePaths(refs)
  /\ m.runtime = CanonicalStorePaths(runtime)
  /\ m.tools = CanonicalStorePaths(tools)

\* validate_expected_manifest; package stands for the path and every field the
\* code compares one by one.
Expected(m, refs, runtime, tools, package) ==
  /\ m.package = package
  /\ m.refs = CanonicalStorePaths(refs)
  /\ m.runtime = CanonicalStorePaths(runtime)
  /\ EffectiveTools(m) = CanonicalStorePaths(IF tools = << >> THEN runtime ELSE tools)

ImportStoreObject(refs, runtime, tools, package) ==
  /\ answer = "exported"
  /\ wanted' = Manifest(refs, runtime, tools, TRUE, package, FALSE)
  /\ answer' = IF ValidManifest(manifest) /\ Expected(manifest, refs, runtime, tools, package)
               THEN "imported" ELSE "rejected"
  /\ UNCHANGED manifest

ManifestNext ==
  \/ /\ answer = "idle"
     /\ \/ \E refs \in Lists(Paths \cup {0}), runtime, tools \in Lists(Paths), id \in BOOLEAN :
             ExportStoreObject(refs, runtime, tools, id)
        \/ \E refs, runtime, tools \in Lists(Paths) :
             PinManifest(Manifest(refs, runtime, tools, TRUE, "package", FALSE))
  \/ \E valid \in BOOLEAN : AddCasManifest(valid)
  \/ /\ answer = "exported"
     /\ \E refs, runtime, tools \in Lists(Paths), package \in {"package", "other"} :
          ImportStoreObject(refs, runtime, tools, package)

ManifestSpec == ManifestInit /\ [][ManifestNext]_manifestVars

-----------------------------------------------------------------------------
\* The manifest describes an object that needs itself at run time and as a
\* tool, and nothing it does not reference.
Describes(m) ==
  /\ m.identity
  /\ ToSet(m.refs) \subseteq Paths
  /\ \A list \in {m.runtime, EffectiveTools(m)} :
       Own \in ToSet(list) /\ ToSet(list) \subseteq ToSet(m.refs) \cup {Own}

\* A rule gives its lists in an order of its own, with repetitions, and leaves
\* the tools out when they are those of run time; the exporter wrote them from
\* another rule's arguments. The import takes place exactly if both mean the
\* same sets, and a manifest that is not written canonically is never imported.
ImportAgrees ==
  answer \in {"imported", "rejected"} =>
    ((answer = "imported") <=>
       /\ Describes(manifest)
       /\ \A list \in {manifest.refs, manifest.runtime, manifest.tools} :
            \A i, j \in DOMAIN list : i < j => list[i] < list[j]
       /\ manifest.package = wanted.package
       /\ ToSet(manifest.refs) = ToSet(wanted.refs)
       /\ ToSet(manifest.runtime) = ToSet(wanted.runtime)
       /\ ToSet(EffectiveTools(manifest)) = ToSet(EffectiveTools(wanted)))
=============================================================================
