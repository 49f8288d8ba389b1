----------------------------- MODULE TreeCompare -----------------------------
(* verify_reproducible_tree.rs: two builds of one output are compared entry  *)
(* by entry, parents first, with everything a publication preserves.         *)
EXTENDS Trees

CONSTANTS TreePairs,     \* bound: the pairs <<expected, actual>>
          WriteBits      \* the permission bits a publication removes

\* An entry with its permission bits and its time of modification.
Stat(kind, data, mode, mtime) == [kind |-> kind, data |-> data, mode |-> mode, mtime |-> mtime]

\* A tree may be missing, but not both.
ASSUME TreePairsAssumption ==
  \A trees \in TreePairs :
    /\ \E i \in {1, 2} : trees[i] # Nothing
    /\ \A i \in {1, 2} : trees[i] # Nothing =>
         LET t == trees[i]
         IN  /\ FiniteTree(t)
             /\ \A p \in DOMAIN t : t[p] = Stat(t[p].kind, t[p].data, t[p].mode, t[p].mtime)

VARIABLES pair,          \* the two trees
          unequal,       \* the first path found to differ, or none
          compares,      \* paths still to compare, next first
          compared       \* idle, comparing, same, differs, unsupported

compareVars == <<pair, unequal, compares, compared>>

CompareInit ==
  pair = << >> /\ unequal = << >> /\ compares = << >> /\ compared = "idle"

\* run.
CompareTrees(expected, actual) ==
  /\ compared = "idle"
  /\ pair' = <<expected, actual>> /\ compares' = <<Root>> /\ compared' = "comparing"
  /\ UNCHANGED unequal

Expected1 == pair[1][Head(compares)]
Actual1 == pair[2][Head(compares)]
Comparing == compared = "comparing" /\ compares # << >>

\* compare_modes, compare_modified_times; both sides exist, since a directory
\* is entered only if both have the same names in it.
SameStat ==
  /\ \A i \in {1, 2} : Head(compares) \in DOMAIN pair[i]
  /\ Expected1.kind = Actual1.kind
  /\ Expected1.mode \ WriteBits = Actual1.mode \ WriteBits
  /\ Expected1.mtime = Actual1.mtime

\* Mutant: a name only the actual directory has goes unnoticed.
SameContentsExpected ==
  IF Expected1.kind = "dir"
  THEN ToSet(Entries(pair[1], Head(compares))) \subseteq ToSet(Entries(pair[2], Head(compares)))
  ELSE Expected1.data = Actual1.data

\* The names in a directory, the bytes of a file, the target of a link.
SameContents ==
  IF Expected1.kind = "dir"
  THEN Entries(pair[1], Head(compares)) = Entries(pair[2], Head(compares))
  ELSE Expected1.data = Actual1.data

ComparePath ==
  /\ Comparing
  /\ SameStat /\ Expected1.kind \in {"dir", "file", "link"} /\ SameContents
  /\ compares' = (IF Expected1.kind = "dir" THEN Entries(pair[1], Head(compares)) ELSE << >>)
                   \o Tail(compares)
  /\ UNCHANGED <<pair, unequal, compared>>

PathDiffers ==
  /\ Comparing
  /\ ~(SameStat /\ (Expected1.kind \in {"dir", "file", "link"} => SameContents))
  /\ compared' = "differs" /\ unequal' = Head(compares)
  /\ UNCHANGED <<pair, compares>>

\* A device, a socket or a pipe, on both sides.
Unsupported ==
  /\ Comparing
  /\ SameStat /\ Expected1.kind \notin {"dir", "file", "link"}
  /\ compared' = "unsupported"
  /\ UNCHANGED <<pair, unequal, compares>>

StampCompared ==
  /\ compared = "comparing" /\ compares = << >>
  /\ compared' = "same"
  /\ UNCHANGED <<pair, unequal, compares>>

CompareNext ==
  \/ compared = "idle" /\ \E p \in TreePairs : CompareTrees(p[1], p[2])
  \/ ComparePath \/ PathDiffers \/ Unsupported \/ StampCompared

CompareSpec == CompareInit /\ [][CompareNext]_compareVars

-----------------------------------------------------------------------------
\* What a publication makes of a tree: the same without the write bits.
PublishedForm(t) == [p \in DOMAIN t |-> [t[p] EXCEPT !.mode = @ \ WriteBits]]

\* The content of a directory is its entries.
Listed(t) ==
  [p \in DOMAIN t |->
     IF t[p].kind = "dir" THEN Stat("dir", "", t[p].mode, t[p].mtime) ELSE t[p]]

\* A stamp means that both builds publish the same tree, down to the times and
\* the targets of links; a reported difference is a real one, and everything
\* that comes before it in the order of the walk agrees.
StampedMeansSame ==
  LET a == Listed(PublishedForm(pair[1]))
      b == Listed(PublishedForm(pair[2]))
  IN  /\ compared = "same" => a = b
      /\ compared = "differs" =>
           /\ a # b
           /\ \A d \in Ancestors(unequal) : a[d] = b[d]
=============================================================================
