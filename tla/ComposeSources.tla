--------------------------- MODULE ComposeSources ---------------------------
(* compose_sources.rs: the first source is copied to the output, every      *)
(* further one is merged in, path by path from the root. A directory that   *)
(* was copied keeps its mode, and one with data "sealed" takes no entries.  *)
EXTENDS Trees

CONSTANTS SourceLists    \* bound: the lists of sources

ASSUME SourcesAssumption ==
  \A list \in SourceLists :
    /\ list \in Seq({list[i] : i \in DOMAIN list}) /\ list # << >>
    /\ \A i \in DOMAIN list : FiniteTree(list[i])

VARIABLES given,         \* the sources
          serving,       \* the one being merged
          agenda,        \* its paths still to merge, next first
          composed,      \* the output
          result         \* idle, merging, composed, conflict, sealed, refused

composeVars == <<given, serving, agenda, composed, result>>

ComposeInit ==
  /\ given = << >> /\ serving = 0 /\ agenda = << >> /\ composed = Nothing
  /\ result = "idle"

\* run: every source is a directory; the first is copied.
Compose(list) ==
  /\ result = "idle"
  /\ given' = list
  /\ IF IsDir(list[1], Root)
     THEN composed' = list[1] /\ serving' = 1 /\ result' = "merging"
     ELSE result' = "refused" /\ UNCHANGED <<composed, serving>>
  /\ UNCHANGED agenda

NextSource ==
  /\ result = "merging" /\ agenda = << >> /\ serving < Len(given)
  /\ IF IsDir(given[serving + 1], Root)
     THEN agenda' = <<Root>> /\ serving' = serving + 1 /\ UNCHANGED result
     ELSE result' = "refused" /\ UNCHANGED <<agenda, serving>>
  /\ UNCHANGED <<given, composed>>

\* merge_tree where the output has nothing: the source's subtree is copied.
CopyHere ==
  /\ result = "merging" /\ agenda # << >>
  /\ Head(agenda) \notin DOMAIN composed
  /\ IF composed[Parent(Head(agenda))].data = "sealed"
     THEN result' = "sealed" /\ UNCHANGED <<composed, agenda>>
     ELSE /\ composed' = Over(At(Head(agenda), Subtree(given[serving], Head(agenda))), composed)
          /\ agenda' = Tail(agenda)
          /\ UNCHANGED result
  /\ UNCHANGED <<given, serving>>

\* Mutant: a directory covers whatever is there.
DescendAnyway ==
  /\ result = "merging" /\ agenda # << >>
  /\ Head(agenda) \in DOMAIN composed
  /\ IsDir(given[serving], Head(agenda))
  /\ agenda' = Entries(given[serving], Head(agenda)) \o Tail(agenda)
  /\ UNCHANGED <<given, serving, composed, result>>

\* Two directories: their entries in order.
Descend ==
  /\ result = "merging" /\ agenda # << >>
  /\ IsDir(composed, Head(agenda)) /\ IsDir(given[serving], Head(agenda))
  /\ agenda' = Entries(given[serving], Head(agenda)) \o Tail(agenda)
  /\ UNCHANGED <<given, serving, composed, result>>

Conflict ==
  /\ result = "merging" /\ agenda # << >>
  /\ Head(agenda) \in DOMAIN composed
  /\ ~(IsDir(composed, Head(agenda)) /\ IsDir(given[serving], Head(agenda)))
  /\ result' = "conflict"
  /\ UNCHANGED <<given, serving, agenda, composed>>

Composed ==
  /\ result = "merging" /\ agenda = << >> /\ serving = Len(given)
  /\ result' = "composed"
  /\ UNCHANGED <<given, serving, agenda, composed>>

ComposeNext ==
  \/ result = "idle" /\ \E list \in SourceLists : Compose(list)
  \/ NextSource \/ CopyHere \/ Descend \/ Conflict \/ Composed

ComposeSpec == ComposeInit /\ [][ComposeNext]_composeVars

-----------------------------------------------------------------------------
\* Two sources agree when they share directories only.
Compatible(s, t) == \A p \in DOMAIN s \cap DOMAIN t : IsDir(s, p) /\ IsDir(t, p)

\* The output of a composition holds every entry of every source as it was
\* there (a shared directory as in the first that has it), and nothing else;
\* the sources are in conflict exactly if two of them disagree. So neither
\* the files nor the success depend on the order of the sources.
CompositionIsUnion ==
  /\ result = "composed" =>
       /\ DOMAIN composed = UNION {DOMAIN given[i] : i \in DOMAIN given}
       /\ \A p \in DOMAIN composed :
            LET i == CHOOSE i \in DOMAIN given :
                       p \in DOMAIN given[i] /\ \A j \in 1 .. i - 1 : p \notin DOMAIN given[j]
            IN  composed[p] = given[i][p]
  /\ result \in {"composed", "conflict"} =>
       ((result = "composed") <=>
          \A i, j \in DOMAIN given : i # j => Compatible(given[i], given[j]))
=============================================================================
