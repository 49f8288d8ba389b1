--------------------------- MODULE OutputRewrites ---------------------------
(* The passes of build.rs that keep text files true after SplitOutputs has  *)
(* moved what they name: pkg-config files, libtool archives and GNU ld      *)
(* scripts. One file of the placed outputs is followed, with one path it    *)
(* names; the passes treat every file and path by itself.                   *)
EXTENDS SplitOutputs

VARIABLE text    \* the followed file and what it names, or NoText

rewriteVars == <<text, splitVars>>

\* A name in a text: an absolute path below /pkgs/store (output, then path), a
\* path relative to the directory of the file, a path under the variable
\* prefix of a pkg-config file, or a path under the work directory.
Written(form, ups, names) == [form |-> form, ups |-> ups, names |-> names]
Absolute(o, p) == Written("absolute", 0, <<o>> \o p)
\* The directory called lib; the tool knows it by this name.
Lib == <<1>>

NoText == [form |-> "none"]
RewriteInit == SplitInit /\ text = NoText

\* What the build wrote into file p of output o: the name of an installed
\* path under the primary prefix, the only one it knows.
ReadText(form, o, p, target, name) ==
  /\ phase = "placed" /\ text = NoText
  /\ p \in DOMAIN out[o] \cap DOMAIN staged /\ out[o][p].kind = "file" /\ out[o][p] = staged[p]
  /\ target \in DOMAIN staged
  /\ text' = [form |-> form, output |-> o, dir |-> Parent(p), target |-> target,
              name |-> name, prefix |-> Primary, done |-> FALSE]
  /\ UNCHANGED splitVars

-----------------------------------------------------------------------------
(* Linker scripts.                                                          *)

\* rewrite_linker_script_projected_path: a token that is old, or one below old
\* if old is a directory, names new instead.
Affected(n, old, descendants) ==
  n.form = "absolute" /\ Under(old, n.names) /\ (descendants <=> n.names # old)
Projected(n, old, new) ==
  [n EXCEPT !.names = new \o SubSeq(n.names, Len(old) + 1, Len(n.names))]

\* For every path of every split output; the paths are disjoint, so that at
\* most one of them applies and their order does not matter.
OntoSplits(n) ==
  LET moves == {m \in Splits \X UNION {ToSet(splitPaths[s]) : s \in Splits} :
                  /\ m[2] \in ToSet(splitPaths[m[1]])
                  /\ Affected(n, <<Primary>> \o m[2], IsDir(out[m[1]], m[2]))}
  IN  IF moves = {} THEN n
      ELSE LET move == CHOOSE m \in moves : TRUE
           IN  Projected(n, <<Primary>> \o move[2], <<move[1]>> \o move[2])

\* The prefix of the directory of the script is stripped; for the root of an
\* output the prefix ends in two slashes and is found nowhere.
WithoutSibling(n, o, dir) ==
  IF n.form = "absolute" /\ dir # Root /\ Under(<<o>> \o dir, n.names) /\ n.names # <<o>> \o dir
  THEN Written("relative", 0, SubSeq(n.names, Len(dir) + 2, Len(n.names)))
  ELSE n

\* Mutant: relative to the output, not to the directory of the script.
RelativeToOutput(from, to) ==
  LET common == Max({0} \cup {n \in 1 .. Min({Len(from), Len(to)}) : SubSeq(from, 1, n) = SubSeq(to, 1, n)})
  IN  [ups |-> 1 - common, names |-> SubSeq(to, common + 1, Len(to))]

\* relative_path_from_directory.
RelativePathFromDirectory(from, to) ==
  LET common == Max({0} \cup {n \in 1 .. Min({Len(from), Len(to)}) : SubSeq(from, 1, n) = SubSeq(to, 1, n)})
  IN  [ups |-> Len(from) - common, names |-> SubSeq(to, common + 1, Len(to))]

\* A name in another output becomes relative to the directory of the script.
AcrossOutputs(n, o, dir) ==
  IF n.form = "absolute" /\ n.names[1] # o /\ Len(n.names) > 1
  THEN LET relative == RelativePathFromDirectory(<<o>> \o dir, <<n.names[1]>>)
       IN  Written("relative", relative.ups, relative.names \o Tail(n.names))
  ELSE n

\* rewrite_self_referential_linker_script.
RewriteLinkerScript ==
  /\ text.form = "script" /\ ~text.done
  /\ text' = [text EXCEPT !.done = TRUE,
                          !.name = AcrossOutputs(WithoutSibling(OntoSplits(@), text.output, text.dir),
                                                 text.output, text.dir)]
  /\ UNCHANGED splitVars

-----------------------------------------------------------------------------
(* pkg-config variables and libtool archives.                               *)

\* output_prefix_for_dir: the first split output that has the directory.
OutputForDir(dir) ==
  LET having == {s \in Splits : \E p \in ToSet(splitPaths[s]) : Under(p, dir)}
  IN  IF having = {} THEN Primary ELSE Min(having)

\* rewrite_pkg_config_variables: the value of a directory variable is replaced
\* as a whole when a split output has the directory; the prefix of a file in
\* a split output follows only if asked for.
RewriteVariable(relocate) ==
  /\ text.form = "variable" /\ ~text.done
  /\ text' = [text EXCEPT
       !.done = TRUE,
       !.prefix = IF relocate THEN text.output ELSE @,
       !.name = IF OutputForDir(SubSeq(text.target, 1, 1)) # Primary
                THEN Absolute(OutputForDir(SubSeq(text.target, 1, 1)), SubSeq(text.target, 1, 1))
                ELSE @]
  /\ UNCHANGED splitVars

\* rewrite_libtool_paths_in_tree: the library directory of archives that went
\* to a split output, if asked for.
RewriteLibdir(relocate) ==
  /\ text.form = "libdir" /\ ~text.done
  /\ text' = [text EXCEPT
       !.done = TRUE,
       !.prefix = IF relocate THEN text.output ELSE @,
       !.name = IF relocate /\ @ = Absolute(Primary, Lib) THEN Absolute(text.output, Lib) ELSE @]
  /\ UNCHANGED splitVars

\* rewrite_dependency_libs_line: search paths into the work directory go.
SanitizeSearchPath ==
  /\ text.form = "search" /\ ~text.done
  /\ text' = [text EXCEPT !.done = TRUE,
                          !.name = IF @.form = "work" THEN Written("none", 0, << >>) ELSE @]
  /\ UNCHANGED splitVars

RewriteNext ==
  \/ SplitNext /\ text = NoText /\ UNCHANGED text
  \/ /\ phase = "placed" /\ text = NoText
     /\ \E o \in Outputs : \E p \in DOMAIN out[o] :
          \/ \E target \in DOMAIN staged :
               \/ ReadText("script", o, p, target, Absolute(Primary, target))
               \/ /\ target # Root
                  /\ \/ ReadText("variable", o, p, target, Absolute(Primary, target))
                     \/ ReadText("variable", o, p, target, Written("prefixed", 0, target))
          \/ Lib \in DOMAIN staged /\ ReadText("libdir", o, p, Lib, Absolute(Primary, Lib))
          \/ ReadText("search", o, p, Root, Absolute(Primary, p))
          \/ ReadText("search", o, p, Root, Written("work", 0, p))
  \/ RewriteLinkerScript
  \/ \E relocate \in BOOLEAN : RewriteVariable(relocate) \/ RewriteLibdir(relocate)
  \/ SanitizeSearchPath

RewriteSpec == RewriteInit /\ [][RewriteNext]_rewriteVars

-----------------------------------------------------------------------------
\* Output and path that the rewritten text leads to.
Resolved ==
  CASE text.name.form = "absolute" -> text.name.names
    [] text.name.form = "prefixed" -> <<text.prefix>> \o text.name.names
    [] text.name.form = "relative" ->
         LET at == <<text.output>> \o text.dir
         IN  SubSeq(at, 1, Len(at) - text.name.ups) \o text.name.names

\* After the passes a text still leads to what it named when it was installed,
\* wherever the split put that: a linker script to every file, a pkg-config
\* file whose prefix was left alone to a whole directory, a relocated libtool
\* archive to its own directory. No search path leads into the work directory.
NamesFollowFiles ==
  text # NoText /\ text.done =>
    /\ text.form = "script" /\ ~IsDir(staged, text.target) /\ Kept(text.target) =>
         Resolved = <<Owner(text.target)>> \o text.target
    /\ text.form = "variable" /\ Len(text.target) = 1 /\ text.prefix = Primary =>
         Resolved = <<Owner(text.target)>> \o text.target
    /\ text.form = "libdir" /\ text.dir = Lib /\ text.prefix = text.output =>
         Resolved = <<text.output>> \o text.dir
    /\ text.form = "search" => text.name.form # "work"
=============================================================================
