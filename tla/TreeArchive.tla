---------------------------- MODULE TreeArchive ----------------------------
(* The tree archive of store_substitute.rs: what encode_tree writes, and    *)
(* validate_payload reading a payload record by record. The payload is what *)
(* the reader finds next, one record per step, until the end marker; it is  *)
(* not known to come from encode_tree.                                      *)
EXTENDS Trees

CONSTANTS Names,       \* the names of entries
          MaxDepth,    \* bound: the longest path
          MaxRecords   \* bound: the records read

ASSUME NamesAssumption == Names \subseteq Nat \ {0}
ASSUME ArchiveBounds == MaxDepth \in Nat /\ MaxRecords \in Nat

VARIABLES read,     \* the records read so far
          open,     \* the directories on the way to the last one
          verdict   \* idle, reading, accepted, rejected

archiveVars == <<read, open, verdict>>

ArchivePaths == UNION {[1 .. n -> Names] : n \in 0 .. MaxDepth}

\* A record. A path that is not plain has a spelling with the same components
\* ("a/."), or is one read_path refuses ("..", absolute). The kind "other" is
\* an unknown tag; an executable marker above 1 is malformed.
ArchiveRecord(path, kind, data, marker, spelling) ==
  [path |-> path, kind |-> kind, data |-> data, marker |-> marker, spelling |-> spelling]
\* What a file holds and where a link leads is not looked at.
NoData == ""
ArchiveRecords ==
  {ArchiveRecord(p, k, NoData, 0, "plain") : p \in ArchivePaths, k \in {"dir", "link", "other"}}
    \cup {ArchiveRecord(p, "file", NoData, x, "plain") : p \in ArchivePaths, x \in 0 .. 2}
    \cup {ArchiveRecord(p, "dir", NoData, 0, s) : p \in ArchivePaths \ {Root}, s \in {"dotted", "unsafe"}}

-----------------------------------------------------------------------------
(* Writing and unpacking.                                                   *)

\* encode_entry: a directory, then its entries in order.
EntryRecord(t, p) ==
  ArchiveRecord(p, t[p].kind, t[p].data, IF t[p].exec THEN 1 ELSE 0, "plain")
Encode(t) ==
  LET below[p \in DOMAIN t] ==
        <<EntryRecord(t, p)>>
          \o FlattenSeq([i \in DOMAIN Entries(t, p) |-> below[Entries(t, p)[i]]])
  IN  below[Root]
Encodable(t) == \A p \in DOMAIN t : t[p].kind \in {"dir", "file", "link"}

\* materialize_validated_payload: one record, its missing parents before it.
Unpack(t, r) ==
  Over([p \in {r.path} |-> Node(r.kind, r.data, r.marker # 0)],
       Over(t, [q \in Ancestors(r.path) |-> Dir]))
Materialized(records) == FoldLeft(Unpack, Nothing, records)

-----------------------------------------------------------------------------
(* validate_payload.                                                        *)

NoChild == 0

ArchiveInit == read = << >> /\ open = << >> /\ verdict = "idle"

\* payload_cursor: the magic is there.
OpenArchive ==
  /\ verdict = "idle"
  /\ verdict' = "reading"
  /\ UNCHANGED <<read, open>>

\* Mutant: the stack is not unwound; only its top can get children.
UnwoundTopOnly(d) == IF open # << >> /\ Last(open).dir = d THEN open ELSE << >>

\* The open directories after popping all below d.
Unwound(d) == SubSeq(open, 1, Max({0} \cup {i \in DOMAIN open : open[i].dir = d}))

\* Mutant: siblings may come in any order.
InPlaceUnordered(r) ==
  IF r.path = Root THEN r.kind = "dir" /\ open = << >>
                   ELSE Unwound(Parent(r.path)) # << >>

\* The root comes first and is a directory; any other entry follows its parent
\* and its lesser siblings.
InPlace(r) ==
  IF r.path = Root
  THEN r.kind = "dir" /\ open = << >>
  ELSE /\ Unwound(Parent(r.path)) # << >>
       /\ Name(r.path) > Last(Unwound(Parent(r.path))).last

WellFormed(r) ==
  /\ r.spelling # "unsafe"
  /\ ~ \E i \in DOMAIN read : read[i].path = r.path /\ read[i].spelling = r.spelling
  /\ r.kind \in {"dir", "file", "link"}
  /\ r.kind = "file" => r.marker <= 1

\* The open directories once r is read.
Opened(r) ==
  LET up == Unwound(Parent(r.path))
      noted == [up EXCEPT ![Len(up)].last = Name(r.path)]
      own == [dir |-> r.path, last |-> NoChild]
  IN  CASE r.path = Root -> <<own>>
        [] r.path # Root /\ r.kind = "dir" -> Append(noted, own)
        [] OTHER -> noted

AcceptRecord(r) ==
  /\ verdict = "reading" /\ Len(read) < MaxRecords
  /\ WellFormed(r) /\ InPlace(r)
  /\ read' = Append(read, r)
  /\ open' = Opened(r)
  /\ UNCHANGED verdict

RejectRecord(r) ==
  /\ verdict = "reading" /\ Len(read) < MaxRecords
  /\ ~(WellFormed(r) /\ InPlace(r))
  /\ read' = Append(read, r)
  /\ verdict' = "rejected"
  /\ UNCHANGED open

\* The end marker; bytes after it, or no marker at all, are an error.
AcceptEnd ==
  /\ verdict = "reading"
  /\ verdict' = "accepted"
  /\ UNCHANGED <<read, open>>

MalformedEnd ==
  /\ verdict = "reading"
  /\ verdict' = "malformed"
  /\ UNCHANGED <<read, open>>

ArchiveNext ==
  \/ OpenArchive
  \/ \E r \in ArchiveRecords : AcceptRecord(r) \/ RejectRecord(r)
  \/ AcceptEnd
  \/ MalformedEnd

ArchiveSpec == ArchiveInit /\ [][ArchiveNext]_archiveVars

-----------------------------------------------------------------------------
\* What encode_tree writes for the tree the records unpack to.
Plain(records) ==
  [i \in DOMAIN records |->
     [records[i] EXCEPT !.spelling = IF @ = "dotted" THEN "plain" ELSE @]]
IsEncoding(records) ==
  /\ records # << >> => Root \in {records[i].path : i \in DOMAIN records}
  /\ records # << >> =>
       LET t == Materialized(records)
       IN  IsTree(t) /\ IsDir(t, Root) /\ Encodable(t) /\ Encode(t) = Plain(records)

\* The reader and the writer speak the same language: at every record,
\* validate_payload goes on exactly as long as what it has read is what
\* encode_tree writes for the tree it unpacks to. So a tree has one accepted
\* archive, up to the spelling of paths, and verify_existing_tree, which
\* encodes an entry again, finds the hash of the archive it came from.
PayloadLanguage == (verdict # "rejected") <=> IsEncoding(read)
=============================================================================
