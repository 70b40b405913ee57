---------------------------- MODULE WrittenArchive ----------------------------
(* What the writer of an archive puts into it and means by it, in the order of the
   format: the reference that reading it in ArchiveMetadata is held against.  Each
   item of a written archive notes the field it is and the value its writer meant.  *)
EXTENDS ArchiveMetadata, FiniteSets

CONSTANTS
  Archives  \* whole archives, as they were written

Header == <<
  "magic", "version", "integer_size", "offset_size", "format", "compression",
  "created_at", "created_at", "created_at", "created_at", "created_at", "created_at", "created_at",
  "database_name", "server_version", "dump_version", "count">>

\* The fields of an entry before its dependencies.
Leading(v) ==
  IF v = 16
  THEN <<"id", "has_data", "catalog_table_oid", "catalog_oid", "name", "description", "section",
         "definition", "drop_statement", "copy_statement", "namespace", "tablespace",
         "table_access_method", "relation_kind", "owner", "with_oids">>
  ELSE <<"id", "has_data", "catalog_table_oid", "catalog_oid", "name", "description", "section",
         "definition", "drop_statement", "copy_statement", "namespace", "tablespace",
         "table_access_method", "owner", "with_oids">>

NameOf(item) == item.meaning[1]

\* The integers a writer puts into a field.
IsLegal(v, field, n) ==
  /\ n \in -(MaxInt + 1) .. MaxInt
  /\ field \in {"magic", "format"} => n = 1
  /\ field = "version" => n = v
  /\ field = "integer_size" => n \in 1 .. 4
  /\ field = "offset_size" => n \in 1 .. 8
  /\ field = "compression" /\ v >= 15 => n \in 0 .. 3
  /\ field = "id" => n > 0
  /\ field = "section" => n \in 1 .. 4
  /\ field \in RequiredStrings \cup {"count"} => n >= 0
  /\ field = "location" => n \in 1 .. 3

\* What an item says as this field.
Meant(v, field, item) ==
  CASE field \in Strings -> IF item.n < 0 THEN "null" ELSE item.content
    [] field = "compression" -> IF v = 14 THEN (IF item.n = 0 THEN "none" ELSE "gzip")
                                ELSE <<"none", "gzip", "lz4", "zstd">>[item.n + 1]
    [] field = "has_data" -> item.n # 0
    [] field = "location" -> <<"unknown", item.content, "no_data">>[item.n]
    [] OTHER -> item.n

IsNoted(v, item) ==
  /\ IsLegal(v, NameOf(item), item.n)
  /\ item.meaning = <<NameOf(item), Meant(v, NameOf(item), item)>>
  /\ NameOf(item) = "dependency" => item.content # "bad"

Ends(items) == {Len(Header)} \cup {i \in DOMAIN items : NameOf(items[i]) = "location"}

(* The items after i up to j are an entry: its leading fields, dependencies up to
   a NULL, and where its data is.                                                 *)
IsEntry(v, items, i, j) ==
  LET last == i + Len(Leading(v))
  IN  /\ last + 2 <= j
      /\ \A k \in DOMAIN Leading(v) : NameOf(items[i + k]) = Leading(v)[k]
      /\ \A k \in last + 1 .. j - 1 : NameOf(items[k]) = "dependency" /\ (items[k].n < 0 <=> k = j - 1)
      /\ NameOf(items[j]) = "location"

\* A header, and as many entries as it says.
IsArchive(items) ==
  LET v == items[2].n
  IN  /\ items \in Seq({items[i] : i \in DOMAIN items})
      /\ Len(items) >= Len(Header)
      /\ v \in 14 .. 16
      /\ \A i \in DOMAIN items : IsNoted(v, items[i])
      /\ \A i \in DOMAIN Header : NameOf(items[i]) = Header[i]
      /\ \A i \in Ends(items) : i = Len(items) \/ \E j \in Ends(items) : IsEntry(v, items, i, j)
      /\ Cardinality(Ends(items)) = items[Len(Header)].n + 1

ASSUME ArchivesAreWritten == \A items \in Archives : IsArchive(items)

-----------------------------------------------------------------------------
(* What was read may have been cut and its items changed, as long as every other
   item stays in its place: no list of dependencies goes on or ends elsewhere, and
   no other version is claimed.                                                    *)
IsDamaged(items) ==
  /\ Len(input) <= Len(items)
  /\ \A i \in DOMAIN input : input[i] # items[i] =>
       /\ NameOf(items[i]) = "version" => input[i].n \notin 14 .. 16
       /\ NameOf(items[i]) = "dependency" => \/ input[i].n < 0 <=> items[i].n < 0
                                             \/ input[i].n >= 0 /\ input[i].content = "bad"

(* A parsed archive is the one its writer wrote, every field of every version in
   its place: an archive that is cut is never parsed, nor one with a field read
   as another.                                                                   *)
ParsedIsWritten ==
  outcome = "parsed" => \A items \in Archives : IsDamaged(items) =>
    /\ \A i \in DOMAIN parsed : input[i] = items[i] => parsed[i] = items[i].meaning
    /\ (\A i \in DOMAIN input : input[i] = items[i]) => input = items /\ Len(parsed) = Len(items)

IsDependency(i) == NameOf(input[i]) = "dependency" /\ input[i].n >= 0

\* The bytes of the strings that are kept, one by one.
TextBytes == UNION {{i} \X (1 .. input[i].n) : i \in {j \in DOMAIN input : NameOf(input[j]) \in Retained}}

DependenciesOf == {i \in DOMAIN input : IsDependency(i)}

(* What a whole archive has too much of, whatever the order it is read in. *)
Exceeds(limit) ==
  CASE limit = "entries"      -> input[Len(Header)].n > limits.entries
    [] limit = "string"       -> \E i \in DOMAIN input : NameOf(input[i]) \in Strings /\ input[i].n > limits.string
    [] limit = "strings"      -> Cardinality(TextBytes) > limits.strings
    [] limit = "dependencies" -> Cardinality(DependenciesOf) > limits.dependencies
    [] limit = "overflow"     -> Cardinality(TextBytes) > U64Max \/ Cardinality(DependenciesOf) > U64Max
    [] limit = "per_entry"    -> \E i \in DOMAIN input : \A j \in i .. i + limits.per_entry : j \in DependenciesOf

Limited == {"entries", "string", "strings", "overflow", "dependencies", "per_entry"}

(* A whole archive is parsed exactly if it exceeds no limit, and a limit that is
   reported is one it exceeds: limits are inclusive and count nothing twice.      *)
LimitsRefuseExactly ==
  outcome \notin {"reading", "io", "allocation"} /\ input \in Archives =>
    IF outcome = "parsed" THEN \A limit \in Limited : ~Exceeds(limit)
                          ELSE outcome \in Limited /\ Exceeds(outcome)
=============================================================================
