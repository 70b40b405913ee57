--------------------------- MODULE MCArchiveMetadata ---------------------------
(* Archives as pg_dump writes them, whole, cut short and damaged, for
   WrittenArchive.  Each item notes what its writer meant by it.               *)
EXTENDS WrittenArchive

CONSTANTS MaxStrings  \* bound: largest cumulative string limit

RECURSIVE Concat(_)
Concat(s) == IF s = << >> THEN << >> ELSE Head(s) \o Concat(Tail(s))

Number(field, n, value) == <<[n |-> n, content |-> "-", meaning |-> <<field, value>>]>>

Text(field, length) ==
  <<[n |-> length, content |-> field, meaning |-> <<field, IF length < 0 THEN "null" ELSE field>>]>>

(* A dump: its version, the compression byte or level, and its entries.  An entry
   says how long its strings are, what it depends on and where its data is.      *)
CompressionItem(d) ==
  Number("compression", d.compression,
         IF d.version = 14 THEN (IF d.compression = 0 THEN "none" ELSE "gzip")
         ELSE CASE d.compression = 0 -> "none" [] d.compression = 1 -> "gzip"
                [] d.compression = 2 -> "lz4" [] d.compression = 3 -> "zstd")

WrittenHeader(d) ==
  Number("magic", 1, 1) \o Number("version", d.version, d.version)
    \o Number("integer_size", 4, 4) \o Number("offset_size", 8, 8) \o Number("format", 1, 1)
    \o CompressionItem(d)
    \o Concat([i \in 1 .. 7 |-> Number("created_at", i, i)])
    \o Text("database_name", 1) \o Text("server_version", 1) \o Text("dump_version", 2)
    \o Number("count", Len(d.entries), Len(d.entries))

WrittenDependencies(names) ==
  Concat([i \in DOMAIN names |-> <<[n |-> 1, content |-> names[i], meaning |-> <<"dependency", names[i]>>]>>])
    \o Text("dependency", -1)

WrittenLocation(e) ==
  <<[n |-> e.state, content |-> "p", meaning |-> <<"location", <<"unknown", "p", "no_data">>[e.state]>>]>>

WrittenEntry(v, e) ==
  Number("id", e.id, e.id) \o Number("has_data", e.data, e.data # 0)
    \o Text("catalog_table_oid", 1) \o Text("catalog_oid", 1) \o Text("name", e.name)
    \o Text("description", 1) \o Number("section", e.state + 1, e.state + 1)
    \o Text("definition", -1) \o Text("drop_statement", e.optional)
    \o Text("copy_statement", e.copy) \o Text("namespace", e.optional) \o Text("tablespace", -1)
    \o Text("table_access_method", e.optional)
    \o (IF v = 16 THEN Number("relation_kind", e.data, e.data) ELSE << >>)
    \o Text("owner", e.optional) \o Text("with_oids", 1)
    \o WrittenDependencies(e.names) \o WrittenLocation(e)

Written(d) == WrittenHeader(d) \o Concat([i \in DOMAIN d.entries |-> WrittenEntry(d.version, d.entries[i])])

EntryOf(id, name, optional, copy, names, state) ==
  [id |-> id, data |-> state - 1, name |-> name, optional |-> optional, copy |-> copy,
   names |-> names, state |-> state]

EntryLists ==
  {<< >>,
   <<EntryOf(3, 0, -1, -1, << >>, 3)>>,
   <<EntryOf(1, 2, 0, 3, <<"d2">>, 2)>>,
   <<EntryOf(2, 1, 1, 2, <<"d1", "d3">>, 1)>>,
   <<EntryOf(1, 2, 1, -1, <<"d2", "d3">>, 3), EntryOf(2, 1, -1, 3, <<"d1">>, 2)>>}

Dumps ==
  {[version |-> v, compression |-> c, entries |-> l] : v \in 15 .. 16, c \in 0 .. 3, l \in EntryLists}
    \cup {[version |-> 14, compression |-> c, entries |-> l] : c \in {0, 6}, l \in EntryLists}

Wholes == {Written(d) : d \in Dumps}

Damaged(items, i, n) == [items EXCEPT ![i] = [n |-> n, content |-> "bad", meaning |-> << >>]]

Sample(v) == Written([version |-> v, compression |-> 1, entries |-> <<EntryOf(2, 1, 1, 2, <<"d1", "d3">>, 1)>>])

ArchivesRead ==
  Wholes
    \cup {SubSeq(Sample(v), 1, n) : v \in {14, 16}, n \in 0 .. 30}
    \cup UNION {{Damaged(Sample(v), i, n) : i \in DOMAIN Sample(v), n \in {-1, 0, 5, MaxInt + 1}} : v \in {14, 16}}

Generous == [string |-> 9, entries |-> 9, per_entry |-> 9, strings |-> MaxStrings, dependencies |-> 9]

(* Generous limits with one of them lowered to what matters. *)
LimitsUsed ==
  {Generous}
    \cup {[Generous EXCEPT !.string = n] : n \in 0 .. 3}
    \cup {[Generous EXCEPT !.entries = n] : n \in 0 .. 2}
    \cup {[Generous EXCEPT !.per_entry = n] : n \in 0 .. 2}
    \cup {[Generous EXCEPT !.strings = n] : n \in 3 .. MaxStrings}
    \cup {[Generous EXCEPT !.dependencies = n] : n \in 0 .. 3}
=============================================================================
