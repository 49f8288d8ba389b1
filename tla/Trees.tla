------------------------------- MODULE Trees -------------------------------
(* Directory trees as the tools of pkgs-tool see them: functions from paths *)
(* to nodes. A path is the sequence of its names, the root is << >>, and a  *)
(* name is a number, so that < is the order of sorted_dir_entries.          *)
EXTENDS Orders, SequencesExt, FiniteSetsExt

Root == << >>
Parent(p) == Front(p)
Name(p) == Last(p)
Ancestors(p) == {SubSeq(p, 1, n) : n \in 0 .. Len(p) - 1}
Under(d, p) == IsPrefix(d, p)

Node(kind, data, exec) == [kind |-> kind, data |-> data, exec |-> exec]
Dir == Node("dir", "", FALSE)

Nothing == [p \in {} |-> Dir]
IsDir(t, p) == p \in DOMAIN t /\ t[p].kind = "dir"
IsTree(t) ==
  Root \in DOMAIN t /\ \A p \in DOMAIN t \ {Root} : IsDir(t, Parent(p))

\* A tree as a disk holds it: finitely many paths, each a list of names.
Path == Seq(Nat)
FiniteTree(t) == IsTree(t) /\ DOMAIN t \subseteq Path /\ IsFiniteSet(DOMAIN t)

\* Every tree with these paths and nodes.
TreesOver(paths, nodes) ==
  UNION {{t \in [ps \cup {Root} -> nodes] : IsTree(t)} : ps \in SUBSET paths}

\* common::sorted_dir_entries: the children of d by name.
Entries(t, d) ==
  LET names == InOrder({Name(p) : p \in {q \in DOMAIN t : q # Root /\ Parent(q) = d}})
  IN  [i \in DOMAIN names |-> Append(d, names[i])]

\* What of t lies at or under d, as a tree of its own; and t moved to d.
Subtree(t, d) ==
  [p \in {SubSeq(q, Len(d) + 1, Len(q)) : q \in {x \in DOMAIN t : Under(d, x)}} |-> t[d \o p]]
At(d, t) == [q \in {d \o p : p \in DOMAIN t} |-> t[SubSeq(q, Len(d) + 1, Len(q))]]
Without(t, d) == [p \in {q \in DOMAIN t : ~Under(d, q)} |-> t[p]]

\* The entries of t, and those of u where t has none.
Over(t, u) == [p \in DOMAIN t \cup DOMAIN u |-> IF p \in DOMAIN t THEN t[p] ELSE u[p]]
=============================================================================
