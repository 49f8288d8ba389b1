---------------------------- MODULE TreeVerifiers ----------------------------
(* The verifiers of pkgs-tool that walk finished outputs and write a stamp:  *)
(* verify_no_refs, verify_declared_refs, verify_output_policy,               *)
(* verify_elf_interpreters and verify_archive_metadata. One walk serves all  *)
(* of them; they differ in what they ask of an entry. A file holds what the  *)
(* verifier reads in it: bytes, the tables of an ELF file, the members of an *)
(* archive.                                                                  *)
EXTENDS Trees

CONSTANTS StorePrefix,    \* the bytes of /pkgs/store/
          EntryBytes,     \* the bytes of the name of a store entry
          Slash,          \* the byte that separates names
          DataNames,      \* share, man, doc and info
          Policies,       \* bound: verifier -> the arguments it may get
          InputLists      \* bound: verifier -> the trees it may be run on

ASSUME VerifierBytes ==
  /\ StorePrefix \in Seq(Nat) \ {<< >>} /\ EntryBytes \subseteq Nat /\ Slash \in Nat
  /\ DataNames \subseteq Nat

VARIABLES verifier,    \* the one that runs, or none
          policy,      \* its arguments
          inputs,      \* the trees it walks
          visits,      \* <<input, path>> still to visit, next first
          stamped      \* none, refused or ok

verifierVars == <<verifier, policy, inputs, visits, stamped>>

-----------------------------------------------------------------------------
(* Bytes.                                                                   *)

StartsAt(text, i, word) ==
  i + Len(word) - 1 <= Len(text) /\ SubSeq(text, i, i + Len(word) - 1) = word

\* contains_subslice; the empty word is nowhere.
ContainsSubslice(text, word) ==
  word # << >> /\ \E i \in DOMAIN text : StartsAt(text, i, word)

Agree(v, w, n) == n <= Len(v) /\ n <= Len(w) /\ SubSeq(v, 1, n) = SubSeq(w, 1, n)

\* Mutant: what the first word shares with the last one.
CommonPrefixOfLast(words) ==
  SubSeq(Head(words), 1,
         FoldLeft(LAMBDA n, w : Max({k \in 0 .. Len(w) : Agree(Head(words), w, k)}),
                  Len(Head(words)), Tail(words)))

\* common_prefix of a list that is not empty: every word shortens what is left.
CommonPrefix(words) ==
  SubSeq(Head(words), 1,
         FoldLeft(LAMBDA n, w : Max({k \in 0 .. n : Agree(Head(words), w, k)}),
                  Len(Head(words)), Tail(words)))

\* find_forbidden_ref: the words are only tried where their common prefix is.
HasForbiddenRef(text, words) ==
  /\ words # << >>
  /\ IF CommonPrefix(words) = << >>
     THEN \E w \in ToSet(words) : ContainsSubslice(text, w)
     ELSE \E i \in DOMAIN text :
            StartsAt(text, i, CommonPrefix(words)) /\ \E w \in ToSet(words) : StartsAt(text, i, w)

\* starts_with_store_root: a declared root, and then the entry's name ends.
StartsWithRoot(text, i, root) ==
  /\ StartsAt(text, i, root)
  /\ i + Len(root) \in DOMAIN text => text[i + Len(root)] \notin EntryBytes

\* verify_bytes: from one store prefix to the next.
OnlyDeclaredRefs(text, roots) ==
  LET from[i \in 1 .. Len(text) + 1] ==
        LET found == {j \in i .. Len(text) : StartsAt(text, j, StorePrefix)}
        IN  found # {} => /\ \E r \in roots : StartsWithRoot(text, Min(found), r)
                          /\ from[Min(found) + Len(StorePrefix)]
  IN  from[1]

-----------------------------------------------------------------------------
(* ELF files: the interpreters of the PT_INTERP headers, the tables of the  *)
(* PT_DYNAMIC headers as lists of [tag, value], and whether a PT_LOAD       *)
(* header covers the string table.                                          *)

\* dynamic_strings: the first table, up to DT_NULL, if it has a string table.
DynamicStrings(elf, tags) ==
  IF elf.dynamic = << >> THEN {}
  ELSE LET table == Head(elf.dynamic)
           end == Min({Len(table) + 1} \cup {i \in DOMAIN table : table[i].tag = "null"})
       IN  IF elf.loaded /\ \E i \in 1 .. end - 1 : table[i].tag = "strtab"
           THEN {table[i].value : i \in {j \in 1 .. end - 1 : table[j].tag \in tags}}
           ELSE {}

\* is_under_runtime_prefix, on strings.
IsUnderPrefix(path, prefix) == path = prefix \/ StartsAt(path, 1, Append(prefix, Slash))

\* A value of a search path is a list of paths.
ElfAccepted(elf, p) ==
  /\ elf.interpreters # << >> =>
       /\ Head(elf.interpreters) = p.interpreter
       /\ p.required \subseteq DynamicStrings(elf, {"needed"})
       /\ p.forbidden \cap DynamicStrings(elf, {"needed"}) = {}
  /\ p.prefixes # {} =>
       \A path \in UNION {ToSet(v) : v \in DynamicStrings(elf, {"rpath", "runpath"})} :
         StartsAt(path, 1, <<Slash>>) => \E q \in p.prefixes : IsUnderPrefix(path, q)

-----------------------------------------------------------------------------
(* Archives. A header of 60 bytes is two cells, one with the fields and one *)
(* with the trailer; a size counts cells.                                   *)

ArHeader(table, fields, size) == [cell |-> "header", table |-> table, fields |-> fields, size |-> size]
ArTrailer == [cell |-> "trailer"]
ArByte == [cell |-> "byte"]

\* The table of long names has empty fields, every other member has zeros.
CanonicalHeader(cells, i) ==
  /\ i + 1 <= Len(cells) /\ cells[i].cell = "header" /\ cells[i + 1].cell = "trailer"
  /\ cells[i].fields = IF cells[i].table THEN "empty" ELSE "zero"

\* Header, payload and, after an odd payload, one byte more.
MemberEnd(cells, i) == i + 2 + cells[i].size + (cells[i].size % 2)

\* verify_ar_archive.
ArAccepted(cells) ==
  LET from[i \in 1 .. Len(cells) + 1] ==
        i <= Len(cells) => /\ CanonicalHeader(cells, i)
                           /\ MemberEnd(cells, i) <= Len(cells) + 1
                           /\ from[MemberEnd(cells, i)]
  IN  from[1]

\* verify_gzip_header.
GzipAccepted(gzip) == gzip.whole /\ gzip.timestamp = 0 /\ ~gzip.named

ArchiveAccepted(file) ==
  CASE file.format = "ar" -> ArAccepted(file.cells)
    [] file.format = "gzip" -> GzipAccepted(file)
    [] OTHER -> TRUE

-----------------------------------------------------------------------------
(* Arguments and inputs.                                                    *)

\* The store prefix and the name of an entry, as pkgs.bzl passes them. The name
\* is long (it begins with a hash), so that no other store path begins within
\* the prefix.
IsStoreRoot(r) ==
  /\ r \in Seq(Nat) /\ StartsAt(r, 1, StorePrefix)
  /\ \A i \in Len(StorePrefix) + 1 .. Len(r) : r[i] \in EntryBytes
  /\ \A i \in 2 .. Len(StorePrefix) : \E m \in 1 .. Len(StorePrefix) :
       i + m - 1 <= Len(r) /\ r[i + m - 1] # StorePrefix[m]

\* The arguments of each verifier; the prefixes of search paths are those of
\* store entries, which end in no slash.
IsPolicy(v, p) ==
  CASE v = "no_refs" -> p \in Seq(Seq(Nat))
    [] v = "declared_refs" -> \A r \in p : IsStoreRoot(r)
    [] v = "output_policy" -> p \subseteq Path
    [] v = "elf" -> \A q \in p.prefixes : q \in Seq(Nat) /\ (q # << >> => Last(q) # Slash)
    [] OTHER -> v = "archive"

IsElf(elf) ==
  /\ elf.interpreters \in Seq(ToSet(elf.interpreters))
  /\ elf.dynamic \in Seq(ToSet(elf.dynamic))
  /\ \A table \in ToSet(elf.dynamic) :
       /\ table \in Seq(ToSet(table))
       /\ \A e \in ToSet(table) : e.tag \in {"rpath", "runpath"} => e.value \in Seq(Seq(Nat))
IsAr(cells) ==
  cells \in Seq(ToSet(cells)) /\ \A c \in ToSet(cells) : c.cell = "header" => c.size \in Nat

\* What a verifier may find in a file or a link.
IsEntry(v, node) ==
  /\ node.kind \in {"file", "link"}
  /\ v = "no_refs" /\ node.kind = "file" => node.data \in Seq(Nat)
  /\ v = "declared_refs" => node.data \in Seq(Nat)
  /\ v = "elf" /\ node.kind = "file" /\ node.data.format = "elf" => IsElf(node.data)
  /\ v = "archive" /\ node.kind = "file" /\ node.data.format = "ar" => IsAr(node.data.cells)

ASSUME PoliciesAssumption ==
  \A v \in DOMAIN Policies :
    /\ \A p \in Policies[v] : IsPolicy(v, p)
    /\ \A trees \in InputLists[v] :
         /\ trees \in Seq(ToSet(trees))
         /\ \A t \in ToSet(trees) :
              FiniteTree(t) /\ \A p \in DOMAIN t : t[p].kind # "dir" => IsEntry(v, t[p])

-----------------------------------------------------------------------------
(* The walk.                                                                *)

VerifyInit ==
  verifier = "none" /\ policy = << >> /\ inputs = << >> /\ visits = << >> /\ stamped = "none"

\* What an entry that is no directory has to satisfy. Links are followed by no
\* verifier; the two that look at them see their target or their place.
Accepted(p, node) ==
  CASE verifier = "no_refs" -> node.kind = "link" \/ ~HasForbiddenRef(node.data, policy)
    [] verifier = "declared_refs" -> OnlyDeclaredRefs(node.data, policy)
    [] verifier = "output_policy" ->
         p # Root /\ Head(p) \in DataNames => \E a \in policy : Under(a, p)
    [] verifier = "elf" ->
         node.kind = "link" \/ node.data.format # "elf" \/ ElfAccepted(node.data, policy)
    [] verifier = "archive" -> node.kind = "link" \/ ArchiveAccepted(node.data)

\* run: an exception that is the whole output is refused before the walk.
Verify(v, arguments, trees) ==
  /\ verifier = "none"
  /\ verifier' = v /\ policy' = arguments /\ inputs' = trees
  /\ IF v = "output_policy" /\ Root \in arguments
     THEN stamped' = "refused" /\ UNCHANGED visits
     ELSE visits' = [i \in DOMAIN trees |-> <<i, Root>>] /\ UNCHANGED stamped

Visited == visits # << >> /\ stamped = "none"
At1 == inputs[Head(visits)[1]][Head(visits)[2]]

VisitDirectory ==
  /\ Visited /\ At1.kind = "dir"
  /\ LET below == Entries(inputs[Head(visits)[1]], Head(visits)[2])
     IN  visits' = [i \in DOMAIN below |-> <<Head(visits)[1], below[i]>>] \o Tail(visits)
  /\ UNCHANGED <<verifier, policy, inputs, stamped>>

VisitEntry ==
  /\ Visited /\ At1.kind # "dir"
  /\ IF Accepted(Head(visits)[2], At1)
     THEN visits' = Tail(visits) /\ UNCHANGED stamped
     ELSE stamped' = "refused" /\ UNCHANGED visits
  /\ UNCHANGED <<verifier, policy, inputs>>

StampVerified ==
  /\ verifier # "none" /\ visits = << >> /\ stamped = "none"
  /\ stamped' = "ok"
  /\ UNCHANGED <<verifier, policy, inputs, visits>>

VerifyNext ==
  \/ /\ verifier = "none"
     /\ \E v \in DOMAIN Policies : \E p \in Policies[v], trees \in InputLists[v] : Verify(v, p, trees)
  \/ VisitDirectory \/ VisitEntry \/ StampVerified

VerifySpec == VerifyInit /\ [][VerifyNext]_verifierVars

-----------------------------------------------------------------------------
(* What the stamps are taken to mean.                                       *)

\* The name of the entry after the store prefix at i, with the prefix.
RootAt(text, i) ==
  LET end == Min({Len(text) + 1} \cup
                 {j \in DOMAIN text : j >= i + Len(StorePrefix) /\ text[j] \notin EntryBytes})
  IN  SubSeq(text, i, end - 1)

\* The names in a path, as sets of positions between two slashes.
NameAt(path, i) ==
  {j \in DOMAIN path : \A k \in Min({i, j}) .. Max({i, j}) : path[k] # Slash}
Below(path, prefix) ==
  /\ Agree(path, prefix, Len(prefix))
  /\ \A i \in DOMAIN prefix : prefix[i] # Slash => NameAt(path, i) = NameAt(prefix, i)

\* What the dynamic loader reads.
Loaded(elf, tags) ==
  {v \in UNION {{e.value : e \in ToSet(table)} : table \in ToSet(elf.dynamic)} :
     \E i \in DOMAIN elf.dynamic[1] :
       /\ elf.loaded
       /\ elf.dynamic[1][i].tag \in tags /\ elf.dynamic[1][i].value = v
       /\ \A j \in 1 .. i : elf.dynamic[1][j].tag # "null"
       /\ \E j \in DOMAIN elf.dynamic[1] :
            elf.dynamic[1][j].tag = "strtab" /\ \A k \in 1 .. j : elf.dynamic[1][k].tag # "null"}

\* The members tile the archive, none of them dated or owned.
Tiled(cells) ==
  \E starts \in SUBSET DOMAIN cells :
    /\ cells # << >> => 1 \in starts
    /\ \A i \in starts :
         /\ CanonicalHeader(cells, i)
         /\ Min({Len(cells) + 1} \cup {j \in starts : j > i}) = MemberEnd(cells, i)

Clean(p, node) ==
  CASE verifier = "no_refs" ->
         node.kind = "file" => ~ \E w \in ToSet(policy) : w # << >> /\ \E i \in DOMAIN node.data : StartsAt(node.data, i, w)
    [] verifier = "declared_refs" ->
         \A i \in DOMAIN node.data : StartsAt(node.data, i, StorePrefix) => RootAt(node.data, i) \in policy
    [] verifier = "output_policy" ->
         (\E n \in DataNames : Under(<<n>>, p)) => \E a \in policy : Under(a, p)
    [] verifier = "elf" ->
         node.kind = "file" /\ node.data.format = "elf" =>
           /\ node.data.interpreters # << >> =>
                /\ node.data.interpreters[1] = policy.interpreter
                /\ \A n \in policy.required : n \in Loaded(node.data, {"needed"})
                /\ \A n \in policy.forbidden : n \notin Loaded(node.data, {"needed"})
           /\ \A v \in Loaded(node.data, {"rpath", "runpath"}) : \A i \in DOMAIN v :
                policy.prefixes # {} /\ v[i] # << >> /\ v[i][1] = Slash => \E q \in policy.prefixes : Below(v[i], q)
    [] verifier = "archive" ->
         node.kind = "file" =>
           /\ node.data.format = "ar" => Tiled(node.data.cells)
           /\ node.data.format = "gzip" => GzipAccepted(node.data)

\* A stamp is written exactly if the walk met nothing the policy forbids in any
\* input: no forbidden name anywhere in a file (though only places with the
\* common prefix are searched), no store path but the declared ones (a
\* declared name that continues is another entry), no data payload outside
\* the exceptions, no interpreter, library or search path the loader would
\* use but the allowed ones, no archive member with a date or an owner. That
\* links are not opened by three of them is part of the statement.
VerdictsExact ==
  stamped # "none" /\ ~(verifier = "output_policy" /\ Root \in policy) =>
    ((stamped = "ok") <=>
       \A i \in DOMAIN inputs : \A p \in DOMAIN inputs[i] :
         inputs[i][p].kind # "dir" => Clean(p, inputs[i][p]))
=============================================================================
