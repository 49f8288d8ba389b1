------------------------- MODULE MCSequentialParts -------------------------
(* The sequential parts of the system on small inputs: tools of pkgs-tool   *)
(* and the analysis of rules/pkgs.bzl. They share no state: a behaviour     *)
(* first chooses a part, and then only that part takes steps, so that the   *)
(* state spaces are added and not multiplied.                               *)
EXTENDS TreeArchive, ObjectManifest, BundleExport, OutputRewrites, ComposeSources,
        HydratedUse, TreeVerifiers, TreeCompare, HeadersInstall, ClosureLists

VARIABLE part

UpTo(S, n) == UNION {[1 .. k -> S] : k \in 0 .. n}
File(data) == Node("file", data, FALSE)

-----------------------------------------------------------------------------
(* BundleExport: two manifests of one entry that reference each other's     *)
(* slot, another entry, and one for a foreign target.                       *)
MCObjectManifests ==
  {[entry |-> "e1", tree |-> "t1", refs |-> {}, target |-> "native"],
   [entry |-> "e1", tree |-> "t2", refs |-> {"e2"}, target |-> "native"],
   [entry |-> "e2", tree |-> "t2", refs |-> {"e1"}, target |-> "native"],
   [entry |-> "e2", tree |-> "t1", refs |-> {}, target |-> "foreign"]}

-----------------------------------------------------------------------------
(* SplitOutputs and OutputRewrites: lists of disjoint paths, of nested ones *)
(* and of repeated ones; a tree has two levels.                             *)
MCPathLists ==
  {<< >>, <<<<1>>>>, <<<<1, 1>>>>, <<<<2>>>>, <<<<1, 1>>, <<2>>>>,
   <<<<1, 2>>, <<1, 1>>>>, <<<<1>>, <<1, 1>>>>}
MCInstalled ==
  {t \in TreesOver({<<1>>, <<2>>, <<1, 1>>, <<1, 2>>}, {Dir, File("x")}) : IsDir(t, Root)}
MCLinkPaths == {<<1, 1>>, <<2>>}

-----------------------------------------------------------------------------
(* ComposeSources: all pairs of small trees.                                *)
ComposedTrees ==
  TreesOver({<<1>>, <<1, 1>>, <<2>>}, {Dir, Node("dir", "sealed", FALSE), File("x")})
MCSourceLists == {<<t>> : t \in ComposedTrees} \cup (ComposedTrees \X ComposedTrees)

-----------------------------------------------------------------------------
(* TreeCompare: trees with two levels, and one entry of every kind.         *)
PlainStats ==
  {Stat("dir", "", {"x"}, 1), Stat("file", "a", {"w"}, 1), Stat("file", "a", {}, 1),
   Stat("link", "a", {}, 1)}
OtherStats ==
  {Stat("file", "b", {}, 1), Stat("file", "a", {"x"}, 1), Stat("file", "a", {}, 2),
   Stat("other", "a", {}, 1), Stat("dir", "", {}, 1)}
MCTreePairs ==
  LET deep == TreesOver({<<1>>, <<1, 1>>, <<2>>}, PlainStats) \cup {Nothing}
      flat == TreesOver({<<1>>}, PlainStats \cup OtherStats)
  IN  ((deep \X deep) \cup (flat \X flat)) \ {<<Nothing, Nothing>>}

-----------------------------------------------------------------------------
(* TreeVerifiers: one file with every content, or a small tree. The store   *)
(* prefix overlaps itself in no byte but the slash; one declared name       *)
(* continues the other. A library is a value of one string.                 *)
MCStorePrefix == <<0, 1, 0, 2, 0>>
Alone(data) == <<(Root :> File(data))>>
WalkTrees(nodes) == TreesOver({<<1>>, <<2>>, <<1, 1>>}, nodes)

DeclaredTexts ==
  LET chunks == {<<0>>, MCStorePrefix, <<1>>, <<3>>}
  IN  {FlattenSeq(w) : w \in UpTo(chunks, 3)}
        \cup {MCStorePrefix \o FlattenSeq(w) : w \in [1 .. 3 -> chunks]}

LibC == <<<<3>>>>
LibD == <<<<3, 3>>>>
Tag(tag, v) == [tag |-> tag, value |-> v]
StrTab == Tag("strtab", << >>)
Elf(interpreters, dynamic, loaded) ==
  [format |-> "elf", interpreters |-> interpreters, dynamic |-> dynamic, loaded |-> loaded]
ElfTables ==
  UpTo({Tag("null", << >>), StrTab, Tag("needed", LibC), Tag("rpath", <<<<0, 1>>, <<0, 1, 2>>>>)}, 3)
    \cup {<<StrTab, Tag("needed", LibD)>>}
    \cup {<<StrTab, Tag("runpath", <<p>>)>> : p \in {<<0, 1>>, <<0, 1, 0, 2>>, <<0, 1, 2>>, <<1>>, << >>}}
ElfFiles ==
  {Elf(is, d, TRUE) : is \in {<< >>, <<"ld">>, <<"other", "ld">>},
                      d \in {<< >>} \cup {<<t>> : t \in ElfTables}}
    \cup {Elf(<<"ld">>, <<<<StrTab, Tag("needed", LibC)>>, <<Tag("needed", LibD)>>>>, l) : l \in BOOLEAN}

ArCells ==
  {ArHeader(FALSE, "zero", 0), ArHeader(FALSE, "zero", 1), ArHeader(FALSE, "set", 0),
   ArHeader(TRUE, "empty", 1), ArTrailer, ArByte}
Archives ==
  {[format |-> "ar", cells |-> c] :
     c \in UpTo(ArCells, 4)
             \cup {<<ArHeader(FALSE, "zero", 1), ArTrailer>> \o s : s \in [1 .. 4 -> ArCells]}}
Gzips == [format : {"gzip"}, whole : BOOLEAN, timestamp : {0, 1}, named : BOOLEAN]

MCPolicies ==
  [no_refs |-> UpTo({<< >>, <<1>>, <<1, 1>>, <<1, 2>>}, 2) \cup [1 .. 3 -> {<<1, 1>>, <<1, 2>>, <<2>>}],
   declared_refs |-> SUBSET {MCStorePrefix \o <<3>>, MCStorePrefix \o <<3, 1>>},
   output_policy |-> SUBSET {Root, <<1>>, <<1, 1>>},
   elf |-> [interpreter : {"ld"}, prefixes : {{}, {<<0, 1>>}}, required : {{}, {LibC}}, forbidden : {{LibD}}],
   archive |-> {<< >>}]

MCInputLists ==
  [no_refs |-> {Alone(w) : w \in UpTo({1, 2}, 3)}
                 \cup {<<t>> : t \in {x \in WalkTrees({Node("dir", << >>, FALSE), File(<<1>>), Node("link", <<1>>, FALSE)}) : IsDir(x, Root)}},
   declared_refs |-> {Alone(w) : w \in DeclaredTexts},
   output_policy |->
     {<<t, u>> : t \in WalkTrees({Dir, File("")}),
                 u \in {(Root :> Dir), (<<1>> :> Node("link", "", FALSE)) @@ (Root :> Dir)}},
   elf |-> {Alone(e) : e \in ElfFiles},
   archive |-> {Alone(a) : a \in Archives \cup Gzips \cup {[format |-> "plain"]}}]

-----------------------------------------------------------------------------
\* ClosureLists: names of split outputs between and behind those of the packages.
MCSplitEntries == <<5, 4, 6>>

-----------------------------------------------------------------------------
MCInit ==
  /\ part \in {"archive", "manifest", "export", "split", "compose", "use", "verify", "diff", "headers",
             "lists"}
  /\ ArchiveInit /\ ManifestInit /\ ExportInit /\ RewriteInit /\ ComposeInit
  /\ UseInit /\ VerifyInit /\ CompareInit /\ HeadersInit /\ ListsInit

MCNext ==
  /\ UNCHANGED part
  /\ IF part = "archive" THEN ArchiveNext ELSE UNCHANGED archiveVars
  /\ IF part = "manifest" THEN ManifestNext ELSE UNCHANGED manifestVars
  /\ IF part = "export" THEN ExportNext ELSE UNCHANGED exportVars
  /\ IF part = "split" THEN RewriteNext ELSE UNCHANGED rewriteVars
  /\ IF part = "compose" THEN ComposeNext ELSE UNCHANGED composeVars
  /\ IF part = "use" THEN UseNext ELSE UNCHANGED useVars
  /\ IF part = "verify" THEN VerifyNext ELSE UNCHANGED verifierVars
  /\ IF part = "diff" THEN CompareNext ELSE UNCHANGED compareVars
  /\ IF part = "headers" THEN HeadersNext ELSE UNCHANGED headersVars
  /\ IF part = "lists" THEN ListsNext ELSE UNCHANGED listVars

MCSpec == MCInit /\ [][MCNext]_<<part, archiveVars, manifestVars, exportVars, rewriteVars,
                                  composeVars, useVars, verifierVars, compareVars, headersVars, listVars>>
=============================================================================
