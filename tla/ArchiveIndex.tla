------------------------------ MODULE ArchiveIndex ------------------------------
(***************************************************************************)
(* ArchiveIndex::build_with_limits of crates/pgdumpx/src/archive.rs: three *)
(* passes over the entries of a table of contents, for their dump IDs, the *)
(* names of the tables, and which table each TABLE DATA entry belongs to.  *)
(* One step is one entry of a pass.                                        *)
(***************************************************************************)
EXTENDS Integers, Sequences, FiniteSetsExt, Functions

CONSTANTS
  Tocs,        \* sequences of entries
  NameBytes,   \* how many bytes each schema and table name has
  IndexLimits, \* values of max_metadata_index_bytes
  Absent       \* the namespace of an entry that has none

(* An entry: its id; kind "table", "data" or another object; schema and name;
   oids, the two catalog OIDs as written; deps, in archive order; statement, what
   the COPY statement says (see CopyStatement), and copied, the bytes it makes the
   column metadata keep; location, where its data is.                             *)
ASSUME IndexAssumption ==
  /\ \A toc \in Tocs : toc \in Seq(Range(toc))
  /\ \A toc \in Tocs : \A i \in DOMAIN toc :
       /\ toc[i].id \in Nat \ {0}
       /\ toc[i].schema \in DOMAIN NameBytes \cup {Absent} /\ toc[i].name \in DOMAIN NameBytes
       /\ toc[i].copied \in Nat
  /\ \A n \in DOMAIN NameBytes : NameBytes[n] \in Nat
  /\ IndexLimits \subseteq Nat

VARIABLES
  entries, limit,
  phase,       \* "ids", "tables" or "data", then "built" or "failed"
  i,           \* the entry the running pass looks at next
  by_dump_id,  \* dump ID -> place of its entry
  tables,      \* tables_by_schema: <<schema, name>> -> dump ID
  schemaless,  \* tables_without_schema: name -> dump ID; not kept
  data_of,     \* table_data_by_table: table's ID -> data entry's ID
  metadata,    \* table_data_metadata: data entry's ID -> what its statement says
  index_bytes, \* MetadataBudget.index_bytes
  failure      \* the error, with the entries it names

indexVars == <<entries, limit, phase, i, by_dump_id, tables, schemaless, data_of, metadata,
               index_bytes, failure>>
lookups == <<by_dump_id, tables, schemaless, data_of, metadata>>

-----------------------------------------------------------------------------
None == [error |-> "none", names |-> << >>]

IndexInit ==
  /\ entries \in Tocs
  /\ limit \in IndexLimits
  /\ phase = "ids"
  /\ i = 1
  /\ by_dump_id = << >> /\ tables = << >> /\ schemaless = << >> /\ data_of = << >> /\ metadata = << >>
  /\ index_bytes = 0
  /\ failure = None

Put(map, key, value) == [k \in DOMAIN map \cup {key} |-> IF k = key THEN value ELSE map[k]]

(* Every error drops what has been built. *)
Fail(error, names) ==
  /\ phase' = "failed"
  /\ failure' = [error |-> error, names |-> names]
  /\ UNCHANGED <<entries, limit, i, lookups, index_bytes>>

Entry == entries[i]

InPass(pass) == phase = pass /\ i <= Len(entries)

NextEntry == i' = i + 1 /\ UNCHANGED <<entries, limit, phase, failure>>

EndPass ==
  /\ phase \in {"ids", "tables", "data"} /\ i > Len(entries)
  /\ phase' = CASE phase = "ids" -> "tables" [] phase = "tables" -> "data" [] phase = "data" -> "built"
  /\ i' = 1
  /\ UNCHANGED <<entries, limit, lookups, index_bytes, failure>>

IndexId ==
  /\ InPass("ids")
  /\ IF Entry.id \in DOMAIN by_dump_id
     THEN Fail("DuplicateDumpId", <<Entry.id>>)
     ELSE /\ by_dump_id' = Put(by_dump_id, Entry.id, i)
          /\ NextEntry
          /\ UNCHANGED <<tables, schemaless, data_of, metadata, index_bytes>>

(* Names are charged before they are copied; a charge past the limit is refused. *)
Charge(bytes) == index_bytes + bytes <= limit /\ index_bytes' = index_bytes + bytes

ChargeFails(bytes) == index_bytes + bytes > limit /\ Fail("MetadataIndexByteLimitExceeded", << >>)

KnownSchema(schema) == \E k \in DOMAIN tables : k[1] = schema

\* Mutant: the schema's name is charged with every one of its tables.
SchemaEachTime(e) == NameBytes[e.name] + NameBytes[e.schema]

(* A schema's name is kept once, however many of its tables are. *)
KeyBytes(e) == NameBytes[e.name] + IF KnownSchema(e.schema) THEN 0 ELSE NameBytes[e.schema]

IndexTable ==
  /\ InPass("tables")
  /\ Entry.kind = "table" /\ Entry.schema # Absent
  /\ LET key == <<Entry.schema, Entry.name>>
     IN  IF key \in DOMAIN tables
         THEN Fail("DuplicateTableIdentity", <<tables[key], Entry.id>>)
         ELSE \/ ChargeFails(KeyBytes(Entry))
              \/ /\ Charge(KeyBytes(Entry))
                 /\ tables' = Put(tables, key, Entry.id)
                 /\ NextEntry
                 /\ UNCHANGED <<by_dump_id, schemaless, data_of, metadata>>

IndexSchemalessTable ==
  /\ InPass("tables")
  /\ Entry.kind = "table" /\ Entry.schema = Absent
  /\ IF Entry.name \in DOMAIN schemaless
     THEN Fail("DuplicateTableIdentity", <<schemaless[Entry.name], Entry.id>>)
     ELSE \/ ChargeFails(NameBytes[Entry.name])
          \/ /\ Charge(NameBytes[Entry.name])
             /\ schemaless' = Put(schemaless, Entry.name, Entry.id)
             /\ NextEntry
             /\ UNCHANGED <<by_dump_id, tables, data_of, metadata>>

PassOver ==
  /\ \/ InPass("tables") /\ Entry.kind # "table"
     \/ InPass("data") /\ Entry.kind # "data"
  /\ NextEntry
  /\ UNCHANGED <<lookups, index_bytes>>

-----------------------------------------------------------------------------
EntryById(id) == entries[by_dump_id[id]]

(* The dependencies that are tables, a table listed later among them. *)
TablesOf(e) == {id \in Range(e.deps) \cap DOMAIN by_dump_id : EntryById(id).kind = "table"}

(* pg_dump writes the OID 0 where it has none. *)
OidsCompatible(a, b) == a = b \/ a = "0" \/ b = "0"

Matches(table, data) ==
  /\ table.schema = data.schema /\ table.name = data.name
  /\ OidsCompatible(table.oids[1], data.oids[1]) /\ OidsCompatible(table.oids[2], data.oids[2])

\* Mutant: of several tables one is taken.
OneTable(e) == IF TablesOf(e) = {} THEN {} ELSE {CHOOSE id \in TablesOf(e) : TRUE}

RelatedTables(e) == TablesOf(e)

KeepMetadata ==
  /\ metadata' = Put(metadata, Entry.id, Entry.statement)
  /\ Charge(Entry.copied)
  /\ NextEntry
  /\ UNCHANGED <<by_dump_id, tables, schemaless>>

(* The statement's column names are kept twice, in order and for lookup, and charged
   before the entry is related to its table.                                         *)
IndexData ==
  /\ InPass("data") /\ Entry.kind = "data"
  /\ \/ Entry.statement = "too_many_columns" /\ Fail("CopyColumnCountLimitExceeded", <<Entry.id>>)
     \/ Entry.statement # "too_many_columns" /\ ChargeFails(Entry.copied)
     \/ /\ Entry.statement # "too_many_columns"
        /\ index_bytes + Entry.copied <= limit
        /\ LET related == RelatedTables(Entry)
           IN  \/ Cardinality(related) > 1 /\ Fail("AmbiguousTableDataRelationship", <<Entry.id>>)
               \/ /\ related = {}
                  /\ UNCHANGED data_of
                  /\ KeepMetadata
               \/ \E id \in related :
                    /\ related = {id}
                    /\ IF ~Matches(EntryById(id), Entry)
                       THEN Fail("ConflictingTableDataRelationship", <<id, Entry.id>>)
                       ELSE IF id \in DOMAIN data_of
                       THEN Fail("DuplicateTableDataRelationship", <<id, data_of[id], Entry.id>>)
                       ELSE data_of' = Put(data_of, id, Entry.id) /\ KeepMetadata

(* A map or a copied name may not get its memory. *)
AllocationFails ==
  /\ phase \in {"ids", "tables", "data"}
  /\ Fail("ArchiveIndexAllocationFailed", << >>)

Build == EndPass \/ IndexId \/ IndexTable \/ IndexSchemalessTable \/ PassOver \/ IndexData \/ AllocationFails
-----------------------------------------------------------------------------
(* Reference: what the entries say, whatever their order. *)
Places(kind) == {p \in DOMAIN entries : entries[p].kind = kind}

SameId(p, q) == entries[p].id = entries[q].id

SameName(p, q) == entries[p].schema = entries[q].schema /\ entries[p].name = entries[q].name

Owners(d) == {t \in Places("table") : entries[t].id \in Range(entries[d].deps)}

SameOid(p, q, n) == entries[p].oids[n] = entries[q].oids[n] \/ "0" \in {entries[p].oids[n], entries[q].oids[n]}

Agree(t, d) == SameName(t, d) /\ SameOid(t, d, 1) /\ SameOid(t, d, 2)

Repeated(S, Same(_, _)) == \E p, q \in S : p < q /\ Same(p, q)

SharedOwner(d, e) == Owners(d) \cap Owners(e) # {}

(* The contradiction each error claims. *)
Contradiction(error) ==
  CASE error = "DuplicateDumpId" -> Repeated(DOMAIN entries, SameId)
    [] error = "DuplicateTableIdentity" -> Repeated(Places("table"), SameName)
    [] error = "AmbiguousTableDataRelationship" -> \E d \in Places("data") : Cardinality(Owners(d)) > 1
    [] error = "ConflictingTableDataRelationship" -> \E d \in Places("data") : \E t \in Owners(d) : ~Agree(t, d)
    [] error = "DuplicateTableDataRelationship" -> Repeated(Places("data"), SharedOwner)

Contradictions == {"DuplicateDumpId", "DuplicateTableIdentity", "AmbiguousTableDataRelationship",
                   "ConflictingTableDataRelationship", "DuplicateTableDataRelationship"}

(* An index is built only if the entries contradict themselves nowhere, and then it
   is the relation they spell: each table's names, and the data entry that depends
   on it, wherever in the archive each is listed.  A contradiction that is reported
   is there.                                                                        *)
IndexIsTheRelation ==
  /\ failure.error \in Contradictions => Contradiction(failure.error)
  /\ phase = "built" =>
       /\ \A error \in Contradictions : ~Contradiction(error)
       /\ {<<k[1], k[2], tables[k]>> : k \in DOMAIN tables} =
            {<<entries[t].schema, entries[t].name, entries[t].id>> :
               t \in {p \in Places("table") : entries[p].schema # Absent}}
       /\ {<<id, data_of[id]>> : id \in DOMAIN data_of} =
            UNION {{<<entries[t].id, entries[d].id>> : t \in Owners(d)} : d \in Places("data")}
       /\ DOMAIN metadata = {entries[d].id : d \in Places("data")}

NamesToCharge ==
  LET schemas == {entries[t].schema : t \in Places("table")} \ {Absent}
  IN  SumFunction([t \in Places("table") |-> NameBytes[entries[t].name]])
        + SumFunctionOnSet(NameBytes, schemas)
        + SumFunction([d \in Places("data") |-> entries[d].copied])

(* The index budget counts every name once for each copy the build makes of it: a
   schema once for all of its tables.  It is refused exactly when it is passed.     *)
IndexBudgetIsExact ==
  /\ phase = "built" => index_bytes = NamesToCharge /\ NamesToCharge <= limit
  /\ failure.error = "MetadataIndexByteLimitExceeded" => NamesToCharge > limit
=============================================================================
