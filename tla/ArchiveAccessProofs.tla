------------------------- MODULE ArchiveAccessProofs -------------------------
(***************************************************************************)
(* The index is the relation the entries spell and is charged what it      *)
(* keeps; a reader stands on the block of the entry that was asked for,    *)
(* and rows are those of the table that was named; for every table of      *)
(* contents and whatever has become of the file.                           *)
(***************************************************************************)
EXTENDS ArchiveAccess, FiniteSetTheorems, WellFoundedInduction, TLAPS

(* What the three passes of ArchiveIndex know after each entry. *)
Phases == {"ids", "tables", "data", "built", "failed"}

(* The entries a pass has handled. *)
IdSeen(p) == phase \in {"tables", "data", "built"} \/ (phase = "ids" /\ p < i)

TableSeen(p) == phase \in {"data", "built"} \/ (phase = "tables" /\ p < i)

DataSeen(p) == phase = "built" \/ (phase = "data" /\ p < i)

(* Each dump ID leads to its one entry. *)
IdsInv ==
  /\ \A id \in DOMAIN by_dump_id :
       by_dump_id[id] \in DOMAIN entries /\ IdSeen(by_dump_id[id]) /\ EntryById(id).id = id
  /\ \A p \in DOMAIN entries :
       IdSeen(p) => entries[p].id \in DOMAIN by_dump_id /\ by_dump_id[entries[p].id] = p

Key(t) == <<entries[t].schema, entries[t].name>>

(* Each name leads to its one table. *)
TablesInv ==
  /\ \A k \in DOMAIN tables : \E t \in Places("table") :
       TableSeen(t) /\ entries[t].schema # Absent /\ k = Key(t) /\ tables[k] = entries[t].id
  /\ \A t \in Places("table") :
       TableSeen(t) /\ entries[t].schema # Absent =>
         Key(t) \in DOMAIN tables /\ tables[Key(t)] = entries[t].id

SchemalessInv ==
  /\ \A n \in DOMAIN schemaless : \E t \in Places("table") :
       TableSeen(t) /\ entries[t].schema = Absent /\ n = entries[t].name /\ schemaless[n] = entries[t].id
  /\ \A t \in Places("table") :
       TableSeen(t) /\ entries[t].schema = Absent =>
         entries[t].name \in DOMAIN schemaless /\ schemaless[entries[t].name] = entries[t].id

(* A table's data entry is the one that depends on it, and of no other table. *)
DataInv ==
  /\ \A id \in DOMAIN data_of : \E d \in Places("data") : \E t \in Owners(d) :
       DataSeen(d) /\ id = entries[t].id /\ data_of[id] = entries[d].id
  /\ \A d \in Places("data") : DataSeen(d) =>
       /\ \A s, t \in Owners(d) : s = t
       /\ \A t \in Owners(d) :
            Agree(t, d) /\ entries[t].id \in DOMAIN data_of /\ data_of[entries[t].id] = entries[d].id
  /\ DOMAIN metadata = {entries[d].id : d \in {p \in Places("data") : DataSeen(p)}}
  /\ \A d \in Places("data") : DataSeen(d) => metadata[entries[d].id] = entries[d].statement

MapsInv == IdsInv /\ TablesInv /\ SchemalessInv /\ DataInv

FailureInv ==
  /\ phase # "failed" => failure = None
  /\ failure.error \in Contradictions => Contradiction(failure.error)

IndexInv ==
  /\ entries \in Tocs /\ i \in Nat \ {0} /\ phase \in Phases
  /\ phase # "failed" => MapsInv
  /\ FailureInv

-----------------------------------------------------------------------------
LEMMA TocsAreSequences ==
  ASSUME entries \in Tocs
  PROVE  Len(entries) \in Nat /\ DOMAIN entries = 1 .. Len(entries)
<1>1. entries \in Seq(Range(entries))
  BY IndexAssumption
<1> QED
  BY <1>1

LEMMA PlacesAreFinite ==
  ASSUME entries \in Tocs, NEW d
  PROVE  IsFiniteSet(Owners(d)) /\ Owners(d) \subseteq DOMAIN entries
<1>1. IsFiniteSet(DOMAIN entries)
  BY TocsAreSequences, FS_Interval
<1>2. Owners(d) \subseteq DOMAIN entries
  BY DEF Owners, Places
<1> QED
  BY <1>1, <1>2, FS_Subset

LEMMA MoreThanOne ==
  ASSUME NEW S, IsFiniteSet(S)
  PROVE  Cardinality(S) > 1 <=> \E a, b \in S : a # b
<1>1. Cardinality(S) \in Nat
  BY FS_CardinalityType
<1>2. CASE S = {}
  BY <1>2, FS_EmptySet
<1>3. CASE \E x : S = {x}
  BY <1>3, FS_Singleton
<1>4. CASE S # {} /\ ~ \E x : S = {x}
  <2>1. Cardinality(S) # 0 /\ Cardinality(S) # 1
    BY <1>4, FS_EmptySet, FS_Singleton
  <2>2. \E a, b \in S : a # b
    BY <1>4
  <2> QED
    BY <1>1, <2>1, <2>2
<1> QED
  BY <1>2, <1>3, <1>4

(* What the entries say depends on nothing else. *)
LEMMA EntriesDecide ==
  ASSUME UNCHANGED entries
  PROVE  /\ \A kind : Places(kind)' = Places(kind)
         /\ \A d : Owners(d)' = Owners(d)
         /\ \A t, d : Agree(t, d)' <=> Agree(t, d)
         /\ \A t : Key(t)' = Key(t)
<1>1. \A kind : Places(kind)' = Places(kind)
  BY DEF Places
<1> QED
  BY <1>1 DEF Owners, Agree, SameName, SameOid, Key

LEMMA ContradictionsStay ==
  ASSUME UNCHANGED entries, NEW error \in Contradictions
  PROVE  Contradiction(error)' <=> Contradiction(error)
BY DEF Contradictions, Contradiction, Repeated, Places, SameId, SameName, SharedOwner, Owners, Agree, SameOid

-----------------------------------------------------------------------------
LEMMA IndexInitInv == IndexInit => IndexInv
<1> SUFFICES ASSUME IndexInit PROVE IndexInv
  OBVIOUS
<1>1. /\ entries \in Tocs /\ i = 1 /\ phase = "ids" /\ failure = None
      /\ DOMAIN by_dump_id = {} /\ DOMAIN tables = {} /\ DOMAIN schemaless = {}
      /\ DOMAIN data_of = {} /\ DOMAIN metadata = {}
  BY DEF IndexInit
<1>2. \A p \in DOMAIN entries : ~IdSeen(p) /\ ~TableSeen(p) /\ ~DataSeen(p)
  BY <1>1, TocsAreSequences DEF IdSeen, TableSeen, DataSeen
<1>3. MapsInv
  BY <1>1, <1>2 DEF MapsInv, IdsInv, TablesInv, SchemalessInv, DataInv, Places
<1>4. FailureInv
  BY <1>1 DEF FailureInv, None, Contradictions
<1> QED
  BY <1>1, <1>3, <1>4 DEF IndexInv, Phases

(* A step keeps what is known of the maps it does not touch, if its entry is not
   one that they are about.                                                       *)
LEMMA IdsKept ==
  ASSUME IdsInv, UNCHANGED <<entries, by_dump_id>>, \A p \in DOMAIN entries : IdSeen(p)' <=> IdSeen(p)
  PROVE  IdsInv'
BY DEF IdsInv, EntryById

LEMMA TablesKept ==
  ASSUME TablesInv, UNCHANGED <<entries, tables>>,
         \A t \in Places("table") : entries[t].schema # Absent => (TableSeen(t)' <=> TableSeen(t))
  PROVE  TablesInv'
BY EntriesDecide DEF TablesInv

LEMMA SchemalessKept ==
  ASSUME SchemalessInv, UNCHANGED <<entries, schemaless>>,
         \A t \in Places("table") : entries[t].schema = Absent => (TableSeen(t)' <=> TableSeen(t))
  PROVE  SchemalessInv'
BY EntriesDecide DEF SchemalessInv

LEMMA DataKept ==
  ASSUME DataInv, UNCHANGED <<entries, data_of, metadata>>,
         \A d \in Places("data") : DataSeen(d)' <=> DataSeen(d)
  PROVE  DataInv'
<1>1. {p \in Places("data") : DataSeen(p)}' = {p \in Places("data") : DataSeen(p)}
  BY EntriesDecide
<1> QED
  BY <1>1, EntriesDecide DEF DataInv

(* Going on to the next entry makes the running pass see one more. *)
LEMMA OneMoreSeen ==
  ASSUME IndexInv, NextEntry, NEW p \in DOMAIN entries
  PROVE  /\ IdSeen(p)' <=> IdSeen(p) \/ (phase = "ids" /\ p = i)
         /\ TableSeen(p)' <=> TableSeen(p) \/ (phase = "tables" /\ p = i)
         /\ DataSeen(p)' <=> DataSeen(p) \/ (phase = "data" /\ p = i)
<1>1. p \in Nat /\ i \in Nat /\ i' = i + 1 /\ phase' = phase
  BY TocsAreSequences DEF IndexInv, NextEntry
<1> QED
  BY <1>1 DEF IdSeen, TableSeen, DataSeen

LEMMA InPassFacts ==
  ASSUME IndexInv, NEW pass \in {"ids", "tables", "data"}, InPass(pass)
  PROVE  /\ i \in DOMAIN entries /\ phase = pass /\ phase # "failed" /\ MapsInv
         /\ failure = None
BY TocsAreSequences DEF IndexInv, InPass, FailureInv

(* A pass that goes on has nothing to report. *)
LEMMA GoingOnKeeps ==
  ASSUME IndexInv, NextEntry, phase # "failed", MapsInv'
  PROVE  IndexInv'
<1>1. UNCHANGED <<entries, phase, failure>> /\ i' \in Nat \ {0}
  BY DEF NextEntry, IndexInv
<1>2. FailureInv'
  BY <1>1 DEF IndexInv, FailureInv, None, Contradictions
<1> QED
  BY <1>1, <1>2 DEF IndexInv

LEMMA FailKeeps ==
  ASSUME IndexInv, NEW error, NEW names, Fail(error, names),
         error \in Contradictions => Contradiction(error)
  PROVE  IndexInv'
<1>1. UNCHANGED <<entries, i>> /\ phase' = "failed" /\ failure'.error = error
  BY DEF Fail
<1>2. FailureInv'
  BY <1>1, ContradictionsStay DEF FailureInv
<1> QED
  BY <1>1, <1>2 DEF IndexInv, Phases

LEMMA EndPassKeeps == IndexInv /\ EndPass => IndexInv'
<1> SUFFICES ASSUME IndexInv, EndPass PROVE IndexInv'
  OBVIOUS
<1>1. /\ UNCHANGED <<entries, by_dump_id, tables, schemaless, data_of, metadata, failure>>
      /\ i' = 1 /\ i > Len(entries)
      /\ \/ phase = "ids" /\ phase' = "tables"
         \/ phase = "tables" /\ phase' = "data"
         \/ phase = "data" /\ phase' = "built"
  BY DEF EndPass, lookups
<1>2. \A p \in DOMAIN entries :
        /\ IdSeen(p)' <=> IdSeen(p)
        /\ TableSeen(p)' <=> TableSeen(p)
        /\ DataSeen(p)' <=> DataSeen(p)
  BY <1>1, TocsAreSequences DEF IndexInv, IdSeen, TableSeen, DataSeen
<1>3. \A kind : Places(kind) \subseteq DOMAIN entries
  BY DEF Places
<1>4. MapsInv'
  BY <1>1, <1>2, <1>3, IdsKept, TablesKept, SchemalessKept, DataKept DEF IndexInv, MapsInv
<1>5. FailureInv'
  BY <1>1 DEF IndexInv, FailureInv, None, Contradictions
<1> QED
  BY <1>1, <1>4, <1>5 DEF IndexInv, Phases

LEMMA PassOverKeeps == IndexInv /\ PassOver => IndexInv'
<1> SUFFICES ASSUME IndexInv, PassOver PROVE IndexInv'
  OBVIOUS
<1>1. /\ NextEntry /\ UNCHANGED <<entries, by_dump_id, tables, schemaless, data_of, metadata>>
      /\ i \in DOMAIN entries /\ phase # "failed" /\ MapsInv
      /\ phase # "ids"
      /\ phase = "tables" => entries[i].kind # "table"
      /\ phase = "data" => entries[i].kind # "data"
  BY InPassFacts DEF PassOver, NextEntry, lookups, InPass, Entry
<1>2. /\ \A p \in DOMAIN entries : IdSeen(p)' <=> IdSeen(p)
      /\ \A t \in Places("table") : TableSeen(t)' <=> TableSeen(t)
      /\ \A d \in Places("data") : DataSeen(d)' <=> DataSeen(d)
  BY <1>1, OneMoreSeen DEF Places
<1>3. MapsInv'
  BY <1>1, <1>2, IdsKept, TablesKept, SchemalessKept, DataKept DEF MapsInv
<1> QED
  BY <1>1, <1>3, GoingOnKeeps

LEMMA IndexIdKeeps == IndexInv /\ IndexId => IndexInv'
<1> SUFFICES ASSUME IndexInv, IndexId PROVE IndexInv'
  OBVIOUS
<1>1. i \in DOMAIN entries /\ phase = "ids" /\ MapsInv /\ IdsInv
  BY InPassFacts DEF IndexId, MapsInv
<1>2. CASE Entry.id \in DOMAIN by_dump_id
  <2> DEFINE p == by_dump_id[Entry.id]
  <2>1. p \in DOMAIN entries /\ p < i /\ entries[p].id = entries[i].id
    BY <1>1, <1>2 DEF IdsInv, IdSeen, EntryById, Entry
  <2> HIDE DEF p
  <2>2. Contradiction("DuplicateDumpId")
    BY <1>1, <2>1 DEF Contradiction, Repeated, SameId
  <2> QED
    BY <1>2, <2>2, FailKeeps DEF IndexId
<1>3. CASE Entry.id \notin DOMAIN by_dump_id
  <2>1. /\ by_dump_id' = Put(by_dump_id, Entry.id, i) /\ NextEntry
        /\ UNCHANGED <<entries, tables, schemaless, data_of, metadata>>
    BY <1>3 DEF IndexId, NextEntry
  <2>2. /\ DOMAIN by_dump_id' = DOMAIN by_dump_id \cup {entries[i].id}
        /\ by_dump_id'[entries[i].id] = i
        /\ \A id \in DOMAIN by_dump_id : by_dump_id'[id] = by_dump_id[id]
    BY <1>3, <2>1 DEF Put, Entry
  <2>3. \A p \in DOMAIN entries :
          /\ IdSeen(p)' <=> IdSeen(p) \/ p = i
          /\ TableSeen(p)' <=> TableSeen(p)
          /\ DataSeen(p)' <=> DataSeen(p)
    BY <1>1, <2>1, OneMoreSeen
  <2>4. IdsInv'
    BY <1>1, <1>3, <2>1, <2>2, <2>3 DEF IdsInv, EntryById, Entry
  <2>5. MapsInv'
    BY <1>1, <2>1, <2>3, <2>4, TablesKept, SchemalessKept, DataKept DEF MapsInv, Places
  <2> QED
    BY <1>1, <2>1, <2>5, GoingOnKeeps
<1> QED
  BY <1>2, <1>3

LEMMA IndexTableKeeps == IndexInv /\ IndexTable => IndexInv'
<1> SUFFICES ASSUME IndexInv, IndexTable PROVE IndexInv'
  OBVIOUS
<1> DEFINE key == <<Entry.schema, Entry.name>>
<1>1. /\ i \in DOMAIN entries /\ phase = "tables" /\ MapsInv /\ TablesInv
      /\ i \in Places("table") /\ key = Key(i) /\ entries[i].schema # Absent
  BY InPassFacts DEF IndexTable, MapsInv, Places, Entry, Key
<1>2. CASE key \in DOMAIN tables
  <2>1. PICK t \in Places("table") : TableSeen(t) /\ Key(i) = Key(t)
    BY <1>1, <1>2 DEF TablesInv
  <2>2. t < i /\ SameName(t, i)
    BY <1>1, <2>1 DEF TableSeen, SameName, Key
  <2>3. Contradiction("DuplicateTableIdentity")
    BY <1>1, <2>2 DEF Contradiction, Repeated
  <2> QED
    BY <1>2, <2>3, FailKeeps DEF IndexTable
<1>3. CASE ChargeFails(KeyBytes(Entry))
  BY <1>3, FailKeeps DEF ChargeFails, Contradictions
<1>4. CASE key \notin DOMAIN tables /\ ~ChargeFails(KeyBytes(Entry))
  <2>1. /\ tables' = Put(tables, key, Entry.id) /\ NextEntry
        /\ UNCHANGED <<entries, by_dump_id, schemaless, data_of, metadata>>
    BY <1>4 DEF IndexTable, NextEntry
  <2>2. /\ DOMAIN tables' = DOMAIN tables \cup {Key(i)}
        /\ tables'[Key(i)] = entries[i].id
        /\ \A k \in DOMAIN tables : tables'[k] = tables[k]
    BY <1>1, <1>4, <2>1 DEF Put, Entry
  <2>3. \A p \in DOMAIN entries :
          /\ IdSeen(p)' <=> IdSeen(p)
          /\ TableSeen(p)' <=> TableSeen(p) \/ p = i
          /\ DataSeen(p)' <=> DataSeen(p)
    BY <1>1, <2>1, OneMoreSeen
  <2>4. TablesInv'
    <3> HIDE DEF key
    <3>1. \A t \in Places("table") : TableSeen(t)' <=> TableSeen(t) \/ t = i
      BY <2>3 DEF Places
    <3>2. ASSUME NEW k \in DOMAIN tables'
          PROVE  \E t \in Places("table") :
                   TableSeen(t)' /\ entries[t].schema # Absent /\ k = Key(t) /\ tables'[k] = entries[t].id
      <4>1. CASE k = Key(i)
        BY <1>1, <2>2, <3>1, <4>1
      <4>2. CASE k # Key(i)
        BY <1>1, <2>2, <3>1, <3>2, <4>2 DEF TablesInv
      <4> QED
        BY <4>1, <4>2
    <3>3. ASSUME NEW t \in Places("table"), TableSeen(t)', entries[t].schema # Absent
          PROVE  Key(t) \in DOMAIN tables' /\ tables'[Key(t)] = entries[t].id
      BY <1>1, <2>2, <3>1, <3>3 DEF TablesInv
    <3> QED
      BY <2>1, <3>2, <3>3, EntriesDecide DEF TablesInv
  <2>5. MapsInv'
    BY <1>1, <2>1, <2>3, <2>4, IdsKept, SchemalessKept, DataKept DEF MapsInv, Places
  <2> QED
    BY <1>1, <2>1, <2>5, GoingOnKeeps
<1> QED
  BY <1>2, <1>3, <1>4

LEMMA IndexSchemalessKeeps == IndexInv /\ IndexSchemalessTable => IndexInv'
<1> SUFFICES ASSUME IndexInv, IndexSchemalessTable PROVE IndexInv'
  OBVIOUS
<1>1. /\ i \in DOMAIN entries /\ phase = "tables" /\ MapsInv /\ SchemalessInv
      /\ i \in Places("table") /\ entries[i].schema = Absent
  BY InPassFacts DEF IndexSchemalessTable, MapsInv, Places, Entry
<1>2. CASE Entry.name \in DOMAIN schemaless
  <2>1. PICK t \in Places("table") :
          TableSeen(t) /\ entries[t].schema = Absent /\ entries[i].name = entries[t].name
    BY <1>2 , <1>1 DEF SchemalessInv, Entry
  <2>2. t < i /\ SameName(t, i)
    BY <1>1, <2>1 DEF TableSeen, SameName
  <2>3. Contradiction("DuplicateTableIdentity")
    BY <1>1, <2>2 DEF Contradiction, Repeated
  <2> QED
    BY <1>2, <2>3, FailKeeps DEF IndexSchemalessTable
<1>3. CASE ChargeFails(NameBytes[Entry.name])
  BY <1>3, FailKeeps DEF ChargeFails, Contradictions
<1>4. CASE Entry.name \notin DOMAIN schemaless /\ ~ChargeFails(NameBytes[Entry.name])
  <2>1. /\ schemaless' = Put(schemaless, Entry.name, Entry.id) /\ NextEntry
        /\ UNCHANGED <<entries, by_dump_id, tables, data_of, metadata>>
    BY <1>4 DEF IndexSchemalessTable, NextEntry
  <2>2. /\ DOMAIN schemaless' = DOMAIN schemaless \cup {entries[i].name}
        /\ schemaless'[entries[i].name] = entries[i].id
        /\ \A n \in DOMAIN schemaless : schemaless'[n] = schemaless[n]
    BY <1>1, <1>4, <2>1 DEF Put, Entry
  <2>3. \A p \in DOMAIN entries :
          /\ IdSeen(p)' <=> IdSeen(p)
          /\ TableSeen(p)' <=> TableSeen(p) \/ p = i
          /\ DataSeen(p)' <=> DataSeen(p)
    BY <1>1, <2>1, OneMoreSeen
  <2>4. SchemalessInv'
    <3>1. \A t \in Places("table") : TableSeen(t)' <=> TableSeen(t) \/ t = i
      BY <2>3 DEF Places
    <3>2. ASSUME NEW n \in DOMAIN schemaless'
          PROVE  \E t \in Places("table") : /\ TableSeen(t)' /\ entries[t].schema = Absent
                                            /\ n = entries[t].name /\ schemaless'[n] = entries[t].id
      <4>1. CASE n = entries[i].name
        BY <1>1, <2>2, <3>1, <4>1
      <4>2. CASE n # entries[i].name
        BY <1>1, <2>2, <3>1, <3>2, <4>2 DEF SchemalessInv
      <4> QED
        BY <4>1, <4>2
    <3>3. ASSUME NEW t \in Places("table"), TableSeen(t)', entries[t].schema = Absent
          PROVE  entries[t].name \in DOMAIN schemaless' /\ schemaless'[entries[t].name] = entries[t].id
      BY <1>1, <2>2, <3>1, <3>3 DEF SchemalessInv
    <3> QED
      BY <2>1, <3>2, <3>3, EntriesDecide DEF SchemalessInv
  <2>5. MapsInv'
    BY <1>1, <2>1, <2>3, <2>4, IdsKept, TablesKept, DataKept DEF MapsInv, Places
  <2> QED
    BY <1>1, <2>1, <2>5, GoingOnKeeps
<1> QED
  BY <1>2, <1>3, <1>4

-----------------------------------------------------------------------------
(* In the last pass the dependencies that are tables are the entry's owners. *)
LEMMA RelatedAreOwners ==
  ASSUME IndexInv, InPass("data"), Entry.kind = "data"
  PROVE  /\ RelatedTables(Entry) = {entries[t].id : t \in Owners(i)}
         /\ \A id \in RelatedTables(Entry) :
              by_dump_id[id] \in Owners(i) /\ EntryById(id).id = id
         /\ \A t \in Owners(i) : by_dump_id[entries[t].id] = t
         /\ IsFiniteSet(RelatedTables(Entry))
<1>1. phase = "data" /\ IdsInv
  BY InPassFacts DEF MapsInv
<1>2. \A t \in Owners(i) :
        by_dump_id[entries[t].id] = t /\ entries[t].id \in RelatedTables(Entry)
  BY <1>1 DEF Owners, Places, IdsInv, IdSeen, RelatedTables, TablesOf, EntryById, Entry
<1>3. \A id \in RelatedTables(Entry) : by_dump_id[id] \in Owners(i) /\ EntryById(id).id = id
  BY <1>1 DEF Owners, Places, IdsInv, RelatedTables, TablesOf, EntryById, Entry
<1>4. RelatedTables(Entry) = {entries[t].id : t \in Owners(i)}
  BY <1>2, <1>3 DEF EntryById
<1>5. IsFiniteSet({entries[t].id : t \in Owners(i)})
  <2>1. IsFiniteSet(Owners(i))
    BY PlacesAreFinite DEF IndexInv
  <2> DEFINE ids == {entries[t].id : t \in Owners(i)}
  <2> DEFINE IdOf == [t \in Owners(i) |-> entries[t].id]
  <2>2. IdOf \in Surjection(Owners(i), ids)
    BY DEF Surjection
  <2> HIDE DEF IdOf, ids
  <2>3. IsFiniteSet(ids)
    BY <2>1, <2>2, FS_Surjection
  <2> QED
    BY <2>3 DEF ids
<1> QED
  BY <1>2, <1>3, <1>4, <1>5

LEMMA SameIdSamePlace ==
  ASSUME IndexInv, phase \in {"tables", "data", "built"},
         NEW p \in DOMAIN entries, NEW q \in DOMAIN entries, entries[p].id = entries[q].id
  PROVE  p = q
BY DEF IndexInv, MapsInv, IdsInv, IdSeen

(* An entry that is kept, with its table if it has one. *)
LEMMA DataKnown ==
  ASSUME IndexInv, InPass("data"), Entry.kind = "data", KeepMetadata,
         \A s, t \in Owners(i) : s = t,
         \A t \in Owners(i) : Agree(t, i) /\ entries[t].id \in DOMAIN data_of' /\ data_of'[entries[t].id] = entries[i].id,
         \A id \in DOMAIN data_of : id \in DOMAIN data_of' /\ data_of'[id] = data_of[id],
         \A id \in DOMAIN data_of' : id \in DOMAIN data_of \/ \E t \in Owners(i) : id = entries[t].id
  PROVE  IndexInv'
<1>1. /\ i \in Places("data") /\ phase = "data" /\ MapsInv /\ DataInv /\ i \in DOMAIN entries
      /\ NextEntry /\ UNCHANGED <<entries, by_dump_id, tables, schemaless>>
      /\ metadata' = Put(metadata, entries[i].id, entries[i].statement)
  BY InPassFacts DEF MapsInv, Places, Entry, KeepMetadata, NextEntry
<1>2. \A p \in DOMAIN entries :
        /\ IdSeen(p)' <=> IdSeen(p)
        /\ TableSeen(p)' <=> TableSeen(p)
        /\ DataSeen(p)' <=> DataSeen(p) \/ p = i
  BY <1>1, OneMoreSeen
<1>3. \A d \in Places("data") : DataSeen(d)' <=> DataSeen(d) \/ d = i
  BY <1>2 DEF Places
<1>4. DataInv'
  <2>1. ASSUME NEW id \in DOMAIN data_of'
        PROVE  \E d \in Places("data") : \E t \in Owners(d) :
                 DataSeen(d)' /\ id = entries[t].id /\ data_of'[id] = entries[d].id
    <3>1. CASE id \in DOMAIN data_of
      BY <1>1, <1>3, <3>1 DEF DataInv
    <3>2. CASE id \notin DOMAIN data_of
      BY <1>1, <1>3, <2>1, <3>2
    <3> QED
      BY <3>1, <3>2
  <2>2. ASSUME NEW d \in Places("data"), DataSeen(d)'
        PROVE  /\ \A s, t \in Owners(d) : s = t
               /\ \A t \in Owners(d) :
                    Agree(t, d) /\ entries[t].id \in DOMAIN data_of' /\ data_of'[entries[t].id] = entries[d].id
    <3>1. CASE d = i
      BY <3>1
    <3>2. CASE d # i
      BY <1>1, <1>3, <2>2, <3>2 DEF DataInv
    <3> QED
      BY <3>1, <3>2
  <2>3. DOMAIN metadata' = {entries[d].id : d \in {p \in Places("data") : DataSeen(p)'}}
    <3>1. DOMAIN metadata' = DOMAIN metadata \cup {entries[i].id}
      BY <1>1 DEF Put
    <3>2. {p \in Places("data") : DataSeen(p)'} = {p \in Places("data") : DataSeen(p)} \cup {i}
      BY <1>1, <1>3
    <3> QED
      BY <1>1, <3>1, <3>2 DEF DataInv
  <2>4. ASSUME NEW d \in Places("data"), DataSeen(d)'
        PROVE  metadata'[entries[d].id] = entries[d].statement
    <3>1. CASE d = i
      BY <1>1, <3>1 DEF Put
    <3>2. CASE d # i
      <4>1. DataSeen(d) /\ d \in DOMAIN entries
        BY <1>3, <2>4, <3>2 DEF Places
      <4>2. entries[d].id # entries[i].id
        BY <1>1, <3>2, <4>1, SameIdSamePlace
      <4>3. entries[d].id \in DOMAIN metadata /\ metadata[entries[d].id] = entries[d].statement
        BY <1>1, <4>1 DEF DataInv
      <4> QED
        BY <1>1, <4>2, <4>3 DEF Put
    <3> QED
      BY <3>1, <3>2
  <2> QED
    BY <1>1, <2>1, <2>2, <2>3, <2>4, EntriesDecide DEF DataInv
<1>5. MapsInv'
  BY <1>1, <1>2, <1>4, IdsKept, TablesKept, SchemalessKept DEF MapsInv, Places
<1> QED
  BY <1>1, <1>5, GoingOnKeeps

LEMMA IndexDataKeeps == IndexInv /\ IndexData => IndexInv'
<1> SUFFICES ASSUME IndexInv, IndexData PROVE IndexInv'
  OBVIOUS
<1>1. /\ InPass("data") /\ Entry.kind = "data" /\ Entry = entries[i]
      /\ i \in Places("data") /\ phase = "data" /\ DataInv
  BY InPassFacts DEF IndexData, MapsInv, Places, Entry
<1>2. CASE \E names : Fail("CopyColumnCountLimitExceeded", names)
  BY <1>2, FailKeeps DEF Contradictions
<1>3. CASE ChargeFails(Entry.copied)
  BY <1>3, FailKeeps DEF ChargeFails, Contradictions
<1>4. CASE Cardinality(RelatedTables(Entry)) > 1 /\ Fail("AmbiguousTableDataRelationship", <<Entry.id>>)
  <2>1. \E a, b \in RelatedTables(Entry) : a # b
    BY <1>1, <1>4, RelatedAreOwners, MoreThanOne
  <2>2. \E s, t \in Owners(i) : s # t
    BY <1>1, <2>1, RelatedAreOwners
  <2>3. Contradiction("AmbiguousTableDataRelationship")
    BY <1>1, <2>2, PlacesAreFinite, MoreThanOne DEF IndexInv, Contradiction
  <2> QED
    BY <1>4, <2>3, FailKeeps
<1>5. CASE RelatedTables(Entry) = {} /\ UNCHANGED data_of /\ KeepMetadata
  <2>1. Owners(i) = {}
    BY <1>1, <1>5, RelatedAreOwners
  <2> QED
    BY <1>1, <1>5, <2>1, DataKnown
<1>6. ASSUME NEW id, RelatedTables(Entry) = {id}
      PROVE  /\ ~Matches(EntryById(id), Entry) /\ Fail("ConflictingTableDataRelationship", <<id, Entry.id>>) => IndexInv'
             /\ Matches(EntryById(id), Entry) /\ id \in DOMAIN data_of
                  /\ Fail("DuplicateTableDataRelationship", <<id, data_of[id], Entry.id>>) => IndexInv'
             /\ Matches(EntryById(id), Entry) /\ id \notin DOMAIN data_of
                  /\ data_of' = Put(data_of, id, Entry.id) /\ KeepMetadata => IndexInv'
  <2> DEFINE t == by_dump_id[id]
  <2>1. t \in Owners(i) /\ entries[t].id = id /\ \A s \in Owners(i) : s = t
    BY <1>1, <1>6, RelatedAreOwners DEF EntryById
  <2>2. Matches(EntryById(id), Entry) <=> Agree(t, i)
    BY DEF Matches, OidsCompatible, Agree, SameName, SameOid, EntryById, Entry
  <2> HIDE DEF t
  <2>3. ASSUME ~Matches(EntryById(id), Entry), Fail("ConflictingTableDataRelationship", <<id, Entry.id>>)
        PROVE  IndexInv'
    <3>1. Contradiction("ConflictingTableDataRelationship")
      BY <1>1, <2>1, <2>2, <2>3 DEF Contradiction
    <3> QED
      BY <2>3, <3>1, FailKeeps
  <2>4. ASSUME id \in DOMAIN data_of, Fail("DuplicateTableDataRelationship", <<id, data_of[id], Entry.id>>)
        PROVE  IndexInv'
    <3>1. PICK d \in Places("data") : \E s \in Owners(d) : DataSeen(d) /\ id = entries[s].id
      BY <1>1, <2>4 DEF DataInv
    <3>2. PICK s \in Owners(d) : DataSeen(d) /\ id = entries[s].id
      BY <3>1
    <3>3. s = t
      BY <1>1, <2>1, <3>2, SameIdSamePlace, PlacesAreFinite DEF IndexInv
    <3>4. d < i /\ SharedOwner(d, i)
      BY <1>1, <2>1, <3>2, <3>3 DEF DataSeen, SharedOwner
    <3>5. Contradiction("DuplicateTableDataRelationship")
      BY <1>1, <3>4 DEF Contradiction, Repeated
    <3> QED
      BY <2>4, <3>5, FailKeeps
  <2>5. ASSUME Matches(EntryById(id), Entry), id \notin DOMAIN data_of,
               data_of' = Put(data_of, id, Entry.id), KeepMetadata
        PROVE  IndexInv'
    <3>1. /\ DOMAIN data_of' = DOMAIN data_of \cup {id} /\ data_of'[id] = entries[i].id
          /\ \A k \in DOMAIN data_of : data_of'[k] = data_of[k]
      BY <2>5 DEF Put, Entry
    <3> QED
      BY <1>1, <2>1, <2>2, <2>5, <3>1, DataKnown
  <2> QED
    BY <2>3, <2>4, <2>5
<1>7. \/ Fail("CopyColumnCountLimitExceeded", <<Entry.id>>)
      \/ ChargeFails(Entry.copied)
      \/ Cardinality(RelatedTables(Entry)) > 1 /\ Fail("AmbiguousTableDataRelationship", <<Entry.id>>)
      \/ RelatedTables(Entry) = {} /\ UNCHANGED data_of /\ KeepMetadata
      \/ \E id \in RelatedTables(Entry) :
           /\ RelatedTables(Entry) = {id}
           /\ \/ ~Matches(EntryById(id), Entry) /\ Fail("ConflictingTableDataRelationship", <<id, Entry.id>>)
              \/ /\ Matches(EntryById(id), Entry) /\ id \in DOMAIN data_of
                 /\ Fail("DuplicateTableDataRelationship", <<id, data_of[id], Entry.id>>)
              \/ /\ Matches(EntryById(id), Entry) /\ id \notin DOMAIN data_of
                 /\ data_of' = Put(data_of, id, Entry.id) /\ KeepMetadata
  BY DEF IndexData
<1> QED
  BY <1>2, <1>3, <1>4, <1>5, <1>6, <1>7

(* Whatever a step of the build adds or finds, the invariant holds after it. *)
LEMMA BuildKeeps == IndexInv /\ Build => IndexInv'
<1>1. IndexInv /\ AllocationFails => IndexInv'
  BY FailKeeps DEF AllocationFails, Contradictions
<1> QED
  BY <1>1, EndPassKeeps, IndexIdKeeps, IndexTableKeeps, IndexSchemalessKeeps, PassOverKeeps,
     IndexDataKeeps DEF Build

(* A step that leaves the index alone. *)
LEMMA IndexRests ==
  ASSUME IndexInv, UNCHANGED indexVars
  PROVE  IndexInv'
<1>1. UNCHANGED <<entries, phase, i, by_dump_id, tables, schemaless, data_of, metadata, failure>>
  BY DEF indexVars
<1>2. \A p : (IdSeen(p)' <=> IdSeen(p)) /\ (TableSeen(p)' <=> TableSeen(p)) /\ (DataSeen(p)' <=> DataSeen(p))
  BY <1>1 DEF IdSeen, TableSeen, DataSeen
<1>3. phase # "failed" => MapsInv'
  BY <1>1, <1>2, IdsKept, TablesKept, SchemalessKept, DataKept DEF IndexInv, MapsInv
<1>4. FailureInv'
  BY <1>1, ContradictionsStay DEF IndexInv, FailureInv
<1> QED
  BY <1>1, <1>3, <1>4 DEF IndexInv, Phases

-----------------------------------------------------------------------------
(* What is known when the last pass is over is the whole of IndexIsTheRelation. *)
LEMMA BuiltIndex ==
  ASSUME IndexInv, phase = "built"
  PROVE  /\ \A p \in DOMAIN entries : entries[p].id \in DOMAIN by_dump_id /\ by_dump_id[entries[p].id] = p
         /\ \A p, q \in DOMAIN entries : entries[p].id = entries[q].id => p = q
         /\ \A t \in Places("table") : entries[t].schema # Absent =>
              Key(t) \in DOMAIN tables /\ tables[Key(t)] = entries[t].id
         /\ \A t \in Places("table") : entries[t].schema = Absent =>
              entries[t].name \in DOMAIN schemaless /\ schemaless[entries[t].name] = entries[t].id
         /\ \A d \in Places("data") :
              /\ \A s, t \in Owners(d) : s = t
              /\ \A t \in Owners(d) :
                   Agree(t, d) /\ entries[t].id \in DOMAIN data_of /\ data_of[entries[t].id] = entries[d].id
         /\ DOMAIN metadata = {entries[d].id : d \in Places("data")}
         /\ \A d \in Places("data") : metadata[entries[d].id] = entries[d].statement
BY DEF IndexInv, MapsInv, IdsInv, IdSeen, TablesInv, TableSeen, SchemalessInv, DataInv, DataSeen

LEMMA BuiltHasNoContradiction ==
  ASSUME IndexInv, phase = "built", NEW error \in Contradictions
  PROVE  ~Contradiction(error)
<1>1. \A kind : Places(kind) \subseteq DOMAIN entries
  BY DEF Places
<1>2. \A p, q \in DOMAIN entries : p < q => p # q
  BY TocsAreSequences DEF IndexInv
<1>3. CASE error = "DuplicateDumpId"
  <2> SUFFICES ASSUME NEW p \in DOMAIN entries, NEW q \in DOMAIN entries, p < q, SameId(p, q)
               PROVE  FALSE
    BY <1>3 DEF Contradiction, Repeated
  <2> QED
    BY <1>2, BuiltIndex DEF SameId
<1>4. CASE error = "DuplicateTableIdentity"
  <2> SUFFICES ASSUME NEW s \in Places("table"), NEW t \in Places("table"), s < t, SameName(s, t)
               PROVE  FALSE
    BY <1>4 DEF Contradiction, Repeated
  <2>1. entries[s].id = entries[t].id
    <3>1. Key(s) = Key(t) /\ entries[s].schema = entries[t].schema /\ entries[s].name = entries[t].name
      BY DEF SameName, Key
    <3> QED
      BY <3>1, BuiltIndex
  <2>2. s \in DOMAIN entries /\ t \in DOMAIN entries
    BY <1>1
  <2> QED
    BY <1>2, <2>1, <2>2, BuiltIndex
<1>5. CASE error = "AmbiguousTableDataRelationship"
  <2> SUFFICES ASSUME NEW d \in Places("data"), Cardinality(Owners(d)) > 1
               PROVE  FALSE
    BY <1>5 DEF Contradiction
  <2>1. \E s, t \in Owners(d) : s # t
    BY PlacesAreFinite, MoreThanOne DEF IndexInv
  <2> QED
    BY <2>1, BuiltIndex
<1>6. CASE error = "ConflictingTableDataRelationship"
  BY <1>6, BuiltIndex DEF Contradiction
<1>7. CASE error = "DuplicateTableDataRelationship"
  <2> SUFFICES ASSUME NEW d \in Places("data"), NEW e \in Places("data"), d < e, SharedOwner(d, e)
               PROVE  FALSE
    BY <1>7 DEF Contradiction, Repeated
  <2>1. PICK t \in Owners(d) : t \in Owners(e)
    BY DEF SharedOwner
  <2>2. entries[d].id = entries[e].id
    BY <2>1, BuiltIndex
  <2> QED
    BY <1>1, <1>2, <2>2, BuiltIndex
<1> QED
  BY <1>3, <1>4, <1>5, <1>6, <1>7 DEF Contradictions

LEMMA TablesAreTheNames ==
  ASSUME IndexInv, phase = "built"
  PROVE  {<<k[1], k[2], tables[k]>> : k \in DOMAIN tables} =
           {<<entries[t].schema, entries[t].name, entries[t].id>> :
              t \in {p \in Places("table") : entries[p].schema # Absent}}
<1> DEFINE kept == {<<k[1], k[2], tables[k]>> : k \in DOMAIN tables}
<1> DEFINE spelt == {<<entries[t].schema, entries[t].name, entries[t].id>> :
                       t \in {p \in Places("table") : entries[p].schema # Absent}}
<1>1. \A k \in DOMAIN tables : \E t \in Places("table") :
        entries[t].schema # Absent /\ k = Key(t) /\ tables[k] = entries[t].id
  BY DEF IndexInv, MapsInv, TablesInv
<1>2. ASSUME NEW x \in kept PROVE x \in spelt
  <2>1. PICK k \in DOMAIN tables : x = <<k[1], k[2], tables[k]>>
    OBVIOUS
  <2>2. PICK t \in Places("table") :
          entries[t].schema # Absent /\ k = Key(t) /\ tables[k] = entries[t].id
    BY <1>1
  <2>3. k[1] = entries[t].schema /\ k[2] = entries[t].name
    BY <2>2 DEF Key
  <2> QED
    BY <2>1, <2>2, <2>3
<1>3. ASSUME NEW x \in spelt PROVE x \in kept
  <2>1. PICK t \in Places("table") :
          entries[t].schema # Absent /\ x = <<entries[t].schema, entries[t].name, entries[t].id>>
    OBVIOUS
  <2>2. Key(t) \in DOMAIN tables /\ tables[Key(t)] = entries[t].id
    BY <2>1, BuiltIndex
  <2>3. Key(t)[1] = entries[t].schema /\ Key(t)[2] = entries[t].name
    BY DEF Key
  <2> QED
    BY <2>1, <2>2, <2>3
<1> QED
  BY <1>2, <1>3

LEMMA DataIsTheOwners ==
  ASSUME IndexInv, phase = "built"
  PROVE  {<<id, data_of[id]>> : id \in DOMAIN data_of} =
           UNION {{<<entries[t].id, entries[d].id>> : t \in Owners(d)} : d \in Places("data")}
<1> DEFINE kept == {<<id, data_of[id]>> : id \in DOMAIN data_of}
<1> DEFINE spelt == UNION {{<<entries[t].id, entries[d].id>> : t \in Owners(d)} : d \in Places("data")}
<1>1. ASSUME NEW x \in kept PROVE x \in spelt
  <2>1. PICK id \in DOMAIN data_of : x = <<id, data_of[id]>>
    OBVIOUS
  <2>2. PICK d \in Places("data") : \E t \in Owners(d) : id = entries[t].id /\ data_of[id] = entries[d].id
    BY DEF IndexInv, MapsInv, DataInv
  <2> QED
    BY <2>1, <2>2
<1>2. ASSUME NEW x \in spelt PROVE x \in kept
  <2>1. PICK d \in Places("data") : \E t \in Owners(d) : x = <<entries[t].id, entries[d].id>>
    OBVIOUS
  <2> QED
    BY <2>1, BuiltIndex
<1> QED
  BY <1>1, <1>2

LEMMA InvariantIsTheRelation == IndexInv => IndexIsTheRelation
<1> SUFFICES ASSUME IndexInv PROVE IndexIsTheRelation
  OBVIOUS
<1>1. failure.error \in Contradictions => Contradiction(failure.error)
  BY DEF IndexInv, FailureInv
<1>2. phase = "built" => DOMAIN metadata = {entries[d].id : d \in Places("data")}
  BY BuiltIndex
<1> QED
  BY <1>1, <1>2, BuiltHasNoContradiction, TablesAreTheNames, DataIsTheOwners DEF IndexIsTheRelation

-----------------------------------------------------------------------------

(* Of a table_rows call, the entry being opened is the named table's data. *)
RowsTarget ==
  \E d \in Places("data") :
    /\ entries[d].id = target
    /\ wanted = <<entries[d].schema, entries[d].name>>
    /\ \E t \in Owners(d) : Agree(t, d) /\ entries[t].schema # Absent

OpenInv ==
  /\ stage \in {"idle", "seek", "type", "id"}
  /\ stage # "idle" =>
       /\ phase = "built"
       /\ target \in DOMAIN by_dump_id /\ EntryById(target).location.state = "offset"
       /\ wanted # << >> => RowsTarget
  /\ stage \in {"type", "id"} => position = Recorded
  /\ stage = "id" => position \in DOMAIN file /\ file[position].type = "data"

IInv == IndexInv /\ OpenInv /\ OpenedBlockIsTheEntrys

-----------------------------------------------------------------------------
(* What a table of contents holds. *)
LEMMA EntryTypes ==
  ASSUME entries \in Tocs, NEW p \in DOMAIN entries
  PROVE  /\ entries[p].id \in Nat \ {0}
         /\ entries[p].location.state \in {"offset", "unknown", "no_data"}
<1>1. entries[p].id \in Nat \ {0}
  BY IndexAssumption
<1>2. entries[p].location \in [state : {"offset", "unknown", "no_data"}, offset : 0 .. MaxOffset]
  BY AccessAssumption
<1> QED
  BY <1>1, <1>2

LEMMA InitInv == Init => IInv
<1> SUFFICES ASSUME Init PROVE IInv
  OBVIOUS
<1>1. IndexInv /\ stage = "idle" /\ answer = [what |-> "none", id |-> 0]
  BY IndexInitInv DEF Init, Nothing
<1> QED
  BY <1>1 DEF IInv, OpenInv, OpenedBlockIsTheEntrys

(* Building is over before the first call. *)
LEMMA BuildStepKeeps ==
  ASSUME IInv, Build, UNCHANGED accessVars
  PROVE  IInv'
<1>1. phase # "built" /\ UNCHANGED entries
  BY DEF Build, EndPass, IndexId, IndexTable, IndexSchemalessTable, PassOver, IndexData, AllocationFails,
         InPass, Fail, NextEntry, KeepMetadata, ChargeFails
<1>2. stage = "idle" /\ UNCHANGED <<file, stage, wanted, answer>>
  BY <1>1 DEF IInv, OpenInv, accessVars
<1>3. IndexInv'
  BY BuildKeeps DEF IInv
<1>4. OpenInv'
  BY <1>2 DEF OpenInv
<1>5. OpenedBlockIsTheEntrys'
  BY <1>1, <1>2, EntriesDecide DEF IInv, OpenedBlockIsTheEntrys
<1> QED
  BY <1>3, <1>4, <1>5 DEF IInv

(* A call that is refused opens nothing. *)
LEMMA RefusalKeeps ==
  ASSUME IInv, UNCHANGED <<indexVars, file>>, NEW what, Answer(what), what \notin {"reader", "rows"}
  PROVE  IInv'
<1>1. IndexInv'
  BY IndexRests DEF IInv
<1>2. stage' = "idle" /\ answer'.what = what
  BY DEF Answer
<1> QED
  BY <1>1, <1>2 DEF IInv, OpenInv, OpenedBlockIsTheEntrys

LEMMA LocateKeeps ==
  ASSUME IInv, phase = "built", NEW id \in DOMAIN by_dump_id, Locate(EntryById(id)),
         UNCHANGED <<indexVars, file, available, position>>,
         target' = id /\ wanted' # << >> => RowsTarget'
  PROVE  IInv'
<1>1. UNCHANGED <<entries, by_dump_id, phase>>
  BY DEF indexVars
<1>2. /\ target' = id
      /\ EntryById(id).location.state \in {"offset", "unknown", "no_data"}
  BY EntryTypes DEF IInv, IndexInv, MapsInv, IdsInv, EntryById, Locate
<1>3. CASE stage' = "seek" /\ EntryById(id).location.state = "offset"
  <2>1. IndexInv'
    BY IndexRests DEF IInv
  <2>2. OpenInv'
    BY <1>1, <1>2, <1>3 DEF OpenInv, EntryById
  <2> QED
    BY <1>3, <2>1, <2>2 DEF IInv, OpenedBlockIsTheEntrys
<1>4. CASE \E what \in {"EntryHasNoData", "EntryDataOffsetUnavailable", "InvalidDataOffset"} : Answer(what)
  BY <1>4, RefusalKeeps
<1>5. \/ stage' = "seek" /\ EntryById(id).location.state = "offset"
      \/ \E what \in {"EntryHasNoData", "EntryDataOffsetUnavailable", "InvalidDataOffset"} : Answer(what)
  BY <1>2 DEF Locate
<1> QED
  BY <1>3, <1>4, <1>5

LEMMA EntryReaderKeeps ==
  ASSUME IInv, NEW id, EntryReader(id)
  PROVE  IInv'
<1>1. phase = "built" /\ wanted' = << >> /\ UNCHANGED <<indexVars, file, available, position>>
  BY DEF EntryReader
<1>2. CASE id \in DOMAIN by_dump_id /\ Locate(EntryById(id))
  BY <1>1, <1>2, LocateKeeps
<1>3. CASE Refuse("none")
  BY <1>1, <1>3, RefusalKeeps DEF Refuse
<1> QED
  BY <1>2, <1>3 DEF EntryReader

LEMMA TableRowsKeeps ==
  ASSUME IInv, NEW schema, NEW name, TableRows(schema, name)
  PROVE  IInv'
<1> DEFINE key == <<schema, name>>
<1> DEFINE table == Table(schema, name)
<1>1. phase = "built" /\ wanted' = key /\ UNCHANGED <<indexVars, file, available, position>>
  BY DEF TableRows
<1>2. CASE \E what \in {"TableNotFound", "TableDataEntryUnavailable", "UnsupportedTableDataRepresentation"} :
             Refuse(what)
  BY <1>1, <1>2, RefusalKeeps DEF Refuse
<1>3. CASE table.data # 0 /\ Locate(EntryById(table.data))
  <2> DEFINE id == tables[key]
  <2>1. key \in DOMAIN tables /\ id \in DOMAIN data_of /\ table.data = data_of[id]
    BY <1>3 DEF Table, NoTable
  <2>2. PICK t \in Places("table") : entries[t].schema # Absent /\ key = Key(t) /\ id = entries[t].id
    BY <1>1, <2>1 DEF IInv, IndexInv, MapsInv, TablesInv
  <2>3. PICK d \in Places("data") : \E s \in Owners(d) : id = entries[s].id /\ data_of[id] = entries[d].id
    BY <1>1, <2>1 DEF IInv, IndexInv, MapsInv, DataInv
  <2>4. t \in Owners(d)
    <3>1. PICK s \in Owners(d) : id = entries[s].id
      BY <2>3
    <3> HIDE DEF id, key, table
    <3>2. s \in DOMAIN entries /\ t \in DOMAIN entries
      BY DEF Owners, Places
    <3> QED
      BY <1>1, <2>2, <3>1, <3>2, BuiltIndex DEF IInv
  <2>5. Agree(t, d) /\ key = <<entries[d].schema, entries[d].name>>
    <3>1. Agree(t, d)
      BY <1>1, <2>4, BuiltIndex DEF IInv
    <3> QED
      BY <2>2, <3>1 DEF Key, Agree, SameName
  <2>6. table.data = entries[d].id /\ table.data \in DOMAIN by_dump_id
    <3>1. d \in DOMAIN entries
      BY DEF Places
    <3> QED
      BY <1>1, <2>1, <2>3, <3>1, BuiltIndex DEF IInv
  <2>7. target' = table.data => RowsTarget'
    <3>1. UNCHANGED entries
      BY <1>1 DEF indexVars
    <3> HIDE DEF key, table
    <3> QED
      BY <1>1, <2>2, <2>4, <2>5, <2>6, <3>1, EntriesDecide DEF RowsTarget
  <2> HIDE DEF table, id
  <2> QED
    BY <1>1, <1>3, <2>6, <2>7, LocateKeeps
<1>4. \/ \E what \in {"TableNotFound", "TableDataEntryUnavailable", "UnsupportedTableDataRepresentation"} :
             Refuse(what)
      \/ table.data # 0 /\ Locate(EntryById(table.data))
  <2>1. table.table = 0 \/ (table.table # 0 /\ table.data = 0) \/ table.data # 0
    OBVIOUS
  <2> HIDE DEF table
  <2> QED
    BY <2>1 DEF TableRows, table
<1> QED
  BY <1>2, <1>3, <1>4

-----------------------------------------------------------------------------
(* An opening that fails, or is over. *)
LEMMA FailedKeeps ==
  ASSUME IInv, NEW what, Failed(what), what \notin {"reader", "rows"}
  PROVE  IInv'
BY RefusalKeeps DEF Failed

LEMMA SeekKeeps == IInv /\ Seek => IInv'
<1> SUFFICES ASSUME IInv, Seek PROVE IInv'
  OBVIOUS
<1>1. CASE Failed("Io")
  BY <1>1, FailedKeeps
<1>2. CASE ~Failed("Io")
  <2>1. stage = "seek" /\ UNCHANGED <<indexVars, file, available, wanted, target>>
    BY <1>2 DEF Seek
  <2>2. CASE Answer("EntrySeekPositionMismatch")
    BY <2>1, <2>2, RefusalKeeps
  <2>3. CASE stage' = "type" /\ position' = Recorded
    <3>1. IndexInv'
      BY <2>1, IndexRests DEF IInv
    <3>2. UNCHANGED <<entries, by_dump_id, phase, target, wanted>>
      BY <2>1 DEF indexVars
    <3>3. RowsTarget' <=> RowsTarget
      BY <3>2, EntriesDecide DEF RowsTarget
    <3> QED
      BY <2>1, <2>3, <3>1, <3>2, <3>3 DEF IInv, OpenInv, OpenedBlockIsTheEntrys, EntryById, Recorded
  <2> QED
    BY <1>2, <2>2, <2>3 DEF Seek
<1> QED
  BY <1>1, <1>2

LEMMA ReadTypeKeeps == IInv /\ ReadType => IInv'
<1> SUFFICES ASSUME IInv, ReadType PROVE IInv'
  OBVIOUS
<1>1. CASE \E what \in {"Io", "UnexpectedEof", "UnexpectedDataBlockType"} : Failed(what)
  BY <1>1, FailedKeeps
<1>2. CASE /\ position \in DOMAIN file /\ file[position].type = "data"
           /\ stage' = "id"
           /\ UNCHANGED <<indexVars, file, available, wanted, target, position, answer>>
  <2>1. IndexInv'
    BY <1>2, IndexRests DEF IInv
  <2>2. UNCHANGED <<entries, by_dump_id, phase, target, wanted>>
    BY <1>2 DEF indexVars
  <2>3. RowsTarget' <=> RowsTarget
    BY <2>2, EntriesDecide DEF RowsTarget
  <2> QED
    BY <1>2, <2>1, <2>2, <2>3 DEF IInv, OpenInv, OpenedBlockIsTheEntrys, EntryById, Recorded, ReadType
<1> QED
  BY <1>1, <1>2 DEF ReadType

(* The last check: only an entry's own block ends a call with a reader. *)
LEMMA ReadIdKeeps == IInv /\ ReadId => IInv'
<1> SUFFICES ASSUME IInv, ReadId PROVE IInv'
  OBVIOUS
<1>1. CASE \E what \in {"Io", "UnexpectedEof", "ArchiveIntegerOutOfRange", "DataBlockDumpIdMismatch",
                        "UnsupportedEntryCompression"} : Failed(what)
  BY <1>1, FailedKeeps
<1>2. CASE /\ file[position].whole /\ SameEntry(file[position])
           /\ Failed(IF wanted = << >> THEN "reader" ELSE "rows")
  <2>1. UNCHANGED <<entries, by_dump_id, file, wanted>> /\ stage' = "idle" /\ answer'.id = target
        /\ answer'.what = IF wanted = << >> THEN "reader" ELSE "rows"
    BY <1>2 DEF Failed, Answer, indexVars
  <2>2. IndexInv'
    BY <1>2, IndexRests DEF Failed, IInv
  <2>3. /\ target \in DOMAIN by_dump_id /\ EntryById(target).location.state = "offset"
        /\ wanted # << >> => RowsTarget
        /\ position = EntryById(target).location.offset
        /\ position \in DOMAIN file /\ file[position].type = "data"
        /\ file[position].whole /\ file[position].id = target
    BY <1>2 DEF ReadId, IInv, OpenInv, Recorded, SameEntry
  <2> DEFINE p == by_dump_id[target]
  <2>4. p \in DOMAIN entries /\ entries[p].id = target
    BY <2>3 DEF IInv, IndexInv, MapsInv, IdsInv, EntryById, ReadId, OpenInv
  <2>5. wanted # << >> =>
          /\ wanted = <<entries[p].schema, entries[p].name>>
          /\ \E t \in Owners(p) : Agree(t, p) /\ entries[t].schema # Absent
    <3> SUFFICES ASSUME wanted # << >>
                 PROVE  /\ wanted = <<entries[p].schema, entries[p].name>>
                        /\ \E t \in Owners(p) : Agree(t, p) /\ entries[t].schema # Absent
      OBVIOUS
    <3>1. PICK d \in Places("data") :
            /\ entries[d].id = target
            /\ wanted = <<entries[d].schema, entries[d].name>>
            /\ \E t \in Owners(d) : Agree(t, d) /\ entries[t].schema # Absent
      BY <2>3 DEF RowsTarget
    <3>2. phase = "built"
      BY DEF ReadId, IInv, OpenInv
    <3>3. d = p
      BY <2>4, <3>1, <3>2, BuiltIndex DEF IInv, Places
    <3> QED
      BY <3>1, <3>3
  <2>6. OpenedBlockIsTheEntrys'
    <3>1. EntryById(target) = entries[p]
      BY DEF EntryById
    <3> HIDE DEF p
    <3> QED
      BY <2>1, <2>3, <2>4, <2>5, <3>1, EntriesDecide DEF OpenedBlockIsTheEntrys
  <2>7. OpenInv'
    BY <2>1 DEF OpenInv
  <2> QED
    BY <2>2, <2>6, <2>7 DEF IInv
<1> QED
  BY <1>1, <1>2 DEF ReadId

LEMMA StutterKeeps == IInv /\ UNCHANGED vars => IInv'
<1> SUFFICES ASSUME IInv, UNCHANGED vars PROVE IInv'
  OBVIOUS
<1>1. UNCHANGED indexVars /\ UNCHANGED <<file, stage, wanted, target, position, answer>>
  BY DEF vars, accessVars
<1>2. IndexInv'
  BY <1>1, IndexRests DEF IInv
<1>3. UNCHANGED <<entries, by_dump_id, phase>>
  BY <1>1 DEF indexVars
<1>4. RowsTarget' <=> RowsTarget
  BY <1>1, <1>3, EntriesDecide DEF RowsTarget
<1> QED
  BY <1>1, <1>2, <1>3, <1>4, EntriesDecide DEF IInv, OpenInv, OpenedBlockIsTheEntrys, EntryById, Recorded

LEMMA Inductive == IInv /\ [Next]_vars => IInv'
<1> SUFFICES ASSUME IInv, [Next]_vars PROVE IInv'
  OBVIOUS
<1>1. CASE Build /\ UNCHANGED accessVars
  BY <1>1, BuildStepKeeps
<1>2. CASE \E id : EntryReader(id)
  BY <1>2, EntryReaderKeeps
<1>3. CASE \E schema, name : TableRows(schema, name)
  BY <1>3, TableRowsKeeps
<1>4. CASE Open
  BY <1>4, SeekKeeps, ReadTypeKeeps, ReadIdKeeps DEF Open
<1>5. CASE UNCHANGED vars
  BY <1>5, StutterKeeps
<1> QED
  BY <1>1, <1>2, <1>3, <1>4, <1>5 DEF Next

-----------------------------------------------------------------------------
(* A matched entry that gives a selector is a table the index has under that name. *)
LEMMA ChosenAreTables ==
  ASSUME IndexInv, phase = "built", NEW schema, NEW p,
         p \in FilterMetadata([schema |-> <<schema>>, kind |-> << >>, name |-> << >>]),
         SelectorOf(entries[p]) # << >>
  PROVE  /\ p \in Places("table") /\ entries[p].schema = schema /\ schema # Absent
         /\ SelectorOf(entries[p]) = Key(p)
         /\ Key(p) \in DOMAIN tables /\ tables[Key(p)] = entries[p].id
<1> DEFINE f == [schema |-> <<schema>>, kind |-> << >>, name |-> << >>]
<1>1. p \in DOMAIN entries /\ f.schema \in {<< >>, <<entries[p].schema>>}
  BY DEF FilterMetadata, FilterMatches
<1>2. entries[p].schema = schema
  BY <1>1
<1>3. p \in Places("table") /\ entries[p].schema # Absent /\ SelectorOf(entries[p]) = Key(p)
  BY <1>1 DEF SelectorOf, Places, Key
<1> QED
  BY <1>2, <1>3, BuiltIndex

(* A table of the index is matched by its schema, and gives its name as selector. *)
LEMMA TablesAreChosen ==
  ASSUME IndexInv, phase = "built", NEW k \in DOMAIN tables
  PROVE  \E p \in FilterMetadata([schema |-> <<k[1]>>, kind |-> << >>, name |-> << >>]) :
           SelectorOf(entries[p]) # << >> /\ SelectorOf(entries[p]) = k
<1>1. PICK p \in Places("table") : entries[p].schema # Absent /\ k = Key(p)
  BY DEF IndexInv, MapsInv, TablesInv
<1>2. k[1] = entries[p].schema
  BY <1>1 DEF Key
<1>3. p \in FilterMetadata([schema |-> <<k[1]>>, kind |-> << >>, name |-> << >>])
  BY <1>2 DEF FilterMetadata, FilterMatches, Places
<1>4. SelectorOf(entries[p]) = k /\ k # << >>
  BY <1>1 DEF SelectorOf, Places, Key
<1> QED
  BY <1>3, <1>4

(* Looking a table up by its name finds its own entry and the data it owns. *)
LEMMA LookupFinds ==
  ASSUME IndexInv, phase = "built", NEW p \in Places("table"), entries[p].schema # Absent
  PROVE  LET table == ResolveTable(Key(p))
             data  == {d \in Places("data") : p \in Owners(d)}
         IN  /\ table.table = entries[p].id
             /\ IF data = {} THEN table.data = 0
                ELSE \E d \in data : table.data = entries[d].id /\ table.statement = entries[d].statement
<1> DEFINE id == entries[p].id
<1> DEFINE table == ResolveTable(Key(p))
<1> DEFINE data == {d \in Places("data") : p \in Owners(d)}
<1>1. Key(p) \in DOMAIN tables /\ tables[Key(p)] = id
  BY BuiltIndex
<1>2. table = IF id \in DOMAIN data_of
              THEN [table |-> id, data |-> data_of[id], statement |-> metadata[data_of[id]]]
              ELSE [table |-> id, data |-> 0, statement |-> "none"]
  BY <1>1 DEF ResolveTable, Table, Key
<1>3. CASE data = {}
  <2>1. id \notin DOMAIN data_of
    <3> SUFFICES ASSUME id \in DOMAIN data_of PROVE FALSE
      OBVIOUS
    <3>1. PICK d \in Places("data") : \E t \in Owners(d) : id = entries[t].id
      BY DEF IndexInv, MapsInv, DataInv
    <3>2. PICK t \in Owners(d) : id = entries[t].id
      BY <3>1
    <3>3. t = p
      BY <3>2, BuiltIndex DEF Owners, Places
    <3> QED
      BY <1>3, <3>3
  <2> QED
    BY <1>2, <1>3, <2>1
<1>4. CASE data # {}
  <2>1. PICK d \in data : TRUE
    BY <1>4
  <2>2. id \in DOMAIN data_of /\ data_of[id] = entries[d].id
    BY <2>1, BuiltIndex
  <2>3. metadata[entries[d].id] = entries[d].statement
    BY <2>1, BuiltIndex
  <2>4. table.table = id /\ table.data = entries[d].id /\ table.statement = entries[d].statement
    BY <1>2, <2>2, <2>3
  <2> QED
    BY <1>4, <2>1, <2>4
<1> QED
  BY <1>3, <1>4

LEMMA BuiltSelectorsLeadBack == IndexInv => SelectorsLeadBack
<1> SUFFICES ASSUME IndexInv, phase = "built", NEW schema \in DOMAIN NameBytes
             PROVE  LET found == FilterMetadata([schema |-> <<schema>>, kind |-> << >>, name |-> << >>])
                        chosen == {p \in found : SelectorOf(entries[p]) # << >>}
                    IN  /\ {SelectorOf(entries[p]) : p \in chosen} = {k \in DOMAIN tables : k[1] = schema}
                        /\ \A p \in chosen :
                             LET table == ResolveTable(SelectorOf(entries[p]))
                                 data  == {d \in Places("data") : p \in Owners(d)}
                             IN  /\ table.table = entries[p].id
                                 /\ IF data = {} THEN table.data = 0
                                    ELSE \E d \in data : table.data = entries[d].id
                                                         /\ table.statement = entries[d].statement
  BY DEF SelectorsLeadBack
<1> DEFINE found == FilterMetadata([schema |-> <<schema>>, kind |-> << >>, name |-> << >>])
<1> DEFINE chosen == {p \in found : SelectorOf(entries[p]) # << >>}
<1>1. \A p \in chosen : /\ p \in Places("table") /\ entries[p].schema = schema /\ schema # Absent
                        /\ SelectorOf(entries[p]) = Key(p) /\ Key(p) \in DOMAIN tables
  BY ChosenAreTables
<1>2. {SelectorOf(entries[p]) : p \in chosen} = {k \in DOMAIN tables : k[1] = schema}
  <2>1. ASSUME NEW p \in chosen PROVE SelectorOf(entries[p]) \in {k \in DOMAIN tables : k[1] = schema}
    <3>1. Key(p)[1] = schema
      BY <1>1 DEF Key
    <3> QED
      BY <1>1, <3>1
  <2>2. ASSUME NEW k \in DOMAIN tables, k[1] = schema
        PROVE  \E p \in chosen : SelectorOf(entries[p]) = k
    BY <2>2, TablesAreChosen
  <2> HIDE DEF chosen
  <2> QED
    BY <2>1, <2>2
<1>3. ASSUME NEW p \in chosen
      PROVE  LET table == ResolveTable(SelectorOf(entries[p]))
                 data  == {d \in Places("data") : p \in Owners(d)}
             IN  /\ table.table = entries[p].id
                 /\ IF data = {} THEN table.data = 0
                    ELSE \E d \in data : table.data = entries[d].id /\ table.statement = entries[d].statement
  BY <1>1, LookupFinds
<1> QED
  BY <1>2, <1>3

-----------------------------------------------------------------------------
(* Sums over finite sets, which the index budget is. *)
(* A set that holds whatever all of whose smaller subsets it holds, holds them all. *)
LEMMA SubsetInduction ==
  ASSUME NEW U, IsFiniteSet(U), NEW P,
         \A s \in SUBSET U : (\A r \in SUBSET s : r # s => r \in P) => s \in P
  PROVE  SUBSET U \subseteq P
<1> DEFINE T == (SUBSET U) \ P
<1> SUFFICES ASSUME T # {} PROVE FALSE
  OBVIOUS
<1>1. FiniteSubsetsOf(U) = SUBSET U
  BY FS_FiniteSubsetsOfFinite
<1>2. IsWellFoundedOn(StrictSubsetOrdering(U), SUBSET U)
  <2>1. IsWellFoundedOn(StrictSubsetOrdering(U), FiniteSubsetsOf(U))
    BY FS_StrictSubsetOrderingWellFounded
  <2> QED
    BY <1>1, <2>1
<1>3. PICK s \in T : \A r \in T : <<r, s>> \notin StrictSubsetOrdering(U)
  <2>1. T \subseteq SUBSET U
    OBVIOUS
  <2> HIDE DEF T
  <2> QED
    BY <1>2, <2>1, WFMin
<1>4. ASSUME NEW r \in SUBSET s, r # s PROVE r \in P
  <2>1. <<r, s>> \in StrictSubsetOrdering(U)
    BY <1>4 DEF StrictSubsetOrdering
  <2> QED
    BY <1>3, <1>4, <2>1
<1> QED
  BY <1>3, <1>4

(* The sum of f over s, if g gives the sums over its smaller subsets. *)
First(s) == CHOOSE x \in s : TRUE

Added(f, g, s) == IF s = {} THEN 0 ELSE f[First(s)] + g[s \ {First(s)}]

SumsUpTo(f, S, g) == g = [s \in SUBSET S |-> Added(f, g, s)]

Sums(f, S) == CHOOSE g : SumsUpTo(f, S, g)

LEMMA FirstIsIn ==
  ASSUME NEW s, s # {}
  PROVE  First(s) \in s /\ s \ {First(s)} \in SUBSET s /\ s \ {First(s)} # s
<1>1. First(s) \in s
  BY DEF First
<1> QED
  BY <1>1

(* No two functions satisfy the recursion, whatever set it is over; and one does. *)
LEMMA SumsAgree ==
  ASSUME NEW f, NEW S, NEW T, NEW g, NEW h, SumsUpTo(f, S, g), SumsUpTo(f, T, h),
         NEW s \in SUBSET S, s \in SUBSET T, IsFiniteSet(s)
  PROVE  g[s] = h[s]
<1> DEFINE P == {r \in SUBSET s : g[r] = h[r]}
<1>1. ASSUME NEW r \in SUBSET s, \A q \in SUBSET r : q # r => q \in P
      PROVE  r \in P
  <2>1. r \in SUBSET S /\ r \in SUBSET T
    OBVIOUS
  <2>2. g[r] = Added(f, g, r) /\ h[r] = Added(f, h, r)
    BY <2>1 DEF SumsUpTo
  <2>3. Added(f, g, r) = Added(f, h, r)
    BY <1>1, FirstIsIn DEF Added
  <2> QED
    BY <2>2, <2>3
<1>2. SUBSET s \subseteq P
  <2> HIDE DEF P
  <2> QED
    BY <1>1, SubsetInduction
<1> QED
  BY <1>2

LEMMA SumsExist ==
  ASSUME NEW f, NEW S, IsFiniteSet(S)
  PROVE  SumsUpTo(f, S, Sums(f, S))
<1> DEFINE P == {s \in SUBSET S : \E g : SumsUpTo(f, s, g)}
<1>1. ASSUME NEW s \in SUBSET S, \A r \in SUBSET s : r # s => r \in P
      PROVE  s \in P
  <2> DEFINE Value(r) == IF r = s THEN Added(f, Sums(f, s \ {First(s)}), s) ELSE Sums(f, r)[r]
  <2> DEFINE h == [r \in SUBSET s |-> Value(r)]
  <2>1. \A r \in SUBSET s : r # s => SumsUpTo(f, r, Sums(f, r)) /\ IsFiniteSet(r)
    BY <1>1, FS_Subset DEF Sums
  <2>2. ASSUME NEW r \in SUBSET s PROVE Value(r) = Added(f, h, r)
    <3>1. CASE r = {}
      <4>1. CASE r = s
        BY <3>1, <4>1 DEF Added
      <4>2. CASE r # s
        <5>1. Sums(f, r)[r] = Added(f, Sums(f, r), r)
          BY <2>1, <4>2 DEF SumsUpTo
        <5> QED
          BY <3>1, <4>2, <5>1 DEF Added
      <4> QED
        BY <4>1, <4>2
    <3>2. CASE r # {}
      <4> DEFINE q == r \ {First(r)}
      <4>1. q \in SUBSET r /\ q # s /\ q # r /\ q \in SUBSET s
        BY <3>2, FirstIsIn
      <4>2. h[q] = Sums(f, q)[q]
        BY <4>1
      <4>3. CASE r = s
        <5> HIDE DEF h
        <5> QED
        BY <3>2, <4>2, <4>3 DEF Added
      <4>4. CASE r # s
        <5>1. SumsUpTo(f, r, Sums(f, r)) /\ SumsUpTo(f, q, Sums(f, q)) /\ IsFiniteSet(q)
          BY <2>1, <4>1, <4>4
        <5>2. q \in SUBSET q
          OBVIOUS
        <5> HIDE DEF q, h
        <5>3. Sums(f, r)[q] = Sums(f, q)[q]
          BY <4>1, <5>1, <5>2, SumsAgree
        <5>4. Sums(f, r)[r] = Added(f, Sums(f, r), r)
          BY <5>1 DEF SumsUpTo
        <5> QED
          BY <3>2, <4>2, <4>4, <5>3, <5>4 DEF Added, q
      <4> QED
        BY <4>3, <4>4
    <3> QED
      BY <3>1, <3>2
  <2>3. SumsUpTo(f, s, h)
    <3>1. h = [r \in SUBSET s |-> h[r]]
      OBVIOUS
    <3>2. \A r \in SUBSET s : h[r] = Added(f, h, r)
      BY <2>2
    <3> HIDE DEF h
    <3> QED
      BY <3>1, <3>2 DEF SumsUpTo
  <2> QED
    BY <2>3
<1>2. S \in P
  <2> HIDE DEF P
  <2>1. SUBSET S \subseteq P
    BY <1>1, SubsetInduction
  <2> QED
    BY <2>1
<1> QED
  BY <1>2 DEF Sums

(* SumFunctionOnSet of the library is the recursion Added is one step of. *)
LEMMA SumOfSums ==
  ASSUME NEW f, NEW S
  PROVE  SumFunctionOnSet(f, S) = Sums(f, S)[S]
BY DEF SumFunctionOnSet, FoldFunctionOnSet, MapThenFoldSet, Sums, SumsUpTo, Added, First

(* The sum over a set is that over one element less and what that one adds. *)
LEMMA SumUnfolds ==
  ASSUME NEW f, NEW S, IsFiniteSet(S)
  PROVE  SumFunctionOnSet(f, S) = IF S = {} THEN 0
                                  ELSE f[First(S)] + SumFunctionOnSet(f, S \ {First(S)})
<1>1. SumsUpTo(f, S, Sums(f, S))
  BY SumsExist
<1>2. Sums(f, S)[S] = Added(f, Sums(f, S), S)
  BY <1>1 DEF SumsUpTo
<1>3. CASE S = {}
  BY <1>2, <1>3, SumOfSums DEF Added
<1>4. CASE S # {}
  <2> DEFINE T == S \ {First(S)}
  <2>1. T \in SUBSET S /\ T \in SUBSET T /\ IsFiniteSet(T)
    BY FS_Subset
  <2> HIDE DEF T
  <2>2. SumsUpTo(f, T, Sums(f, T))
    BY <2>1, SumsExist
  <2>3. Sums(f, S)[T] = Sums(f, T)[T]
    BY <1>1, <2>1, <2>2, SumsAgree
  <2> QED
    BY <1>2, <1>4, <2>3, SumOfSums DEF Added, T
<1> QED
  BY <1>3, <1>4

LEMMA SumTyped ==
  ASSUME NEW f, NEW S, IsFiniteSet(S), \A x \in S : f[x] \in Nat
  PROVE  SumFunctionOnSet(f, S) \in Nat
<1> DEFINE P == {s \in SUBSET S : SumFunctionOnSet(f, s) \in Nat}
<1>1. ASSUME NEW s \in SUBSET S, \A r \in SUBSET s : r # s => r \in P
      PROVE  s \in P
  <2>1. IsFiniteSet(s)
    BY FS_Subset
  <2>2. CASE s = {}
    <3>1. SumFunctionOnSet(f, s) = 0
      BY <2>1, <2>2, SumUnfolds
    <3> QED
      BY <3>1
  <2>3. CASE s # {}
    <3>1. f[First(s)] \in Nat /\ SumFunctionOnSet(f, s \ {First(s)}) \in Nat
      BY <1>1, <2>3, FirstIsIn
    <3> QED
      BY <2>1, <2>3, <3>1, SumUnfolds
  <2> QED
    BY <2>2, <2>3
<1> HIDE DEF P
<1>2. SUBSET S \subseteq P
  BY <1>1, SubsetInduction
<1> QED
  BY <1>2 DEF P

(* Any element may be taken out first. *)
LEMMA SumTakes ==
  ASSUME NEW f, NEW S, IsFiniteSet(S), \A x \in S : f[x] \in Nat, NEW a \in S
  PROVE  SumFunctionOnSet(f, S) = f[a] + SumFunctionOnSet(f, S \ {a})
<1> DEFINE P == {s \in SUBSET S :
                   \A x \in s : SumFunctionOnSet(f, s) = f[x] + SumFunctionOnSet(f, s \ {x})}
<1>1. ASSUME NEW s \in SUBSET S, \A r \in SUBSET s : r # s => r \in P
      PROVE  s \in P
  <2> SUFFICES ASSUME NEW x \in s
               PROVE  SumFunctionOnSet(f, s) = f[x] + SumFunctionOnSet(f, s \ {x})
    OBVIOUS
  <2> DEFINE c == First(s)
  <2>1. IsFiniteSet(s) /\ c \in s
    BY FS_Subset, FirstIsIn
  <2> HIDE DEF c
  <2>2. SumFunctionOnSet(f, s) = f[c] + SumFunctionOnSet(f, s \ {c})
    BY <2>1, SumUnfolds DEF c
  <2>3. CASE x = c
    BY <2>2, <2>3
  <2>4. CASE x # c
    <3> DEFINE both == (s \ {c}) \ {x}
    <3>1. both = (s \ {x}) \ {c}
      OBVIOUS
    <3>2. s \ {c} \in P /\ x \in s \ {c} /\ s \ {x} \in P /\ c \in s \ {x}
      BY <1>1, <2>1, <2>4
    <3>3. SumFunctionOnSet(f, s \ {c}) = f[x] + SumFunctionOnSet(f, both)
      BY <3>2
    <3>4. SumFunctionOnSet(f, s \ {x}) = f[c] + SumFunctionOnSet(f, both)
      BY <3>1, <3>2
    <3>5. SumFunctionOnSet(f, both) \in Nat
      <4>1. IsFiniteSet(both) /\ \A y \in both : f[y] \in Nat
        BY <2>1, FS_Subset
      <4> QED
        BY <4>1, SumTyped
    <3>6. f[c] \in Nat /\ f[x] \in Nat
      BY <2>1
    <3> HIDE DEF both
    <3> QED
      BY <2>2, <3>3, <3>4, <3>5, <3>6
  <2> QED
    BY <2>3, <2>4
<1> HIDE DEF P
<1>2. SUBSET S \subseteq P
  BY <1>1, SubsetInduction
<1> QED
  BY <1>2 DEF P

LEMMA SumAdds ==
  ASSUME NEW f, NEW S, IsFiniteSet(S), NEW a, a \notin S, \A x \in S \cup {a} : f[x] \in Nat
  PROVE  SumFunctionOnSet(f, S \cup {a}) = f[a] + SumFunctionOnSet(f, S)
<1>1. IsFiniteSet(S \cup {a}) /\ (S \cup {a}) \ {a} = S
  BY FS_AddElement
<1>2. a \in S \cup {a}
  OBVIOUS
<1> QED
  BY <1>1, <1>2, SumTakes

LEMMA SumGrows ==
  ASSUME NEW f, NEW S, IsFiniteSet(S), \A x \in S : f[x] \in Nat, NEW R \in SUBSET S
  PROVE  SumFunctionOnSet(f, R) <= SumFunctionOnSet(f, S)
<1> DEFINE P == {s \in SUBSET S : \A r \in SUBSET s : SumFunctionOnSet(f, r) <= SumFunctionOnSet(f, s)}
<1>1. ASSUME NEW s \in SUBSET S, \A r \in SUBSET s : r # s => r \in P
      PROVE  s \in P
  <2> SUFFICES ASSUME NEW r \in SUBSET s
               PROVE  SumFunctionOnSet(f, r) <= SumFunctionOnSet(f, s)
    OBVIOUS
  <2>1. IsFiniteSet(s) /\ IsFiniteSet(r) /\ r \in SUBSET S
    BY FS_Subset
  <2>2. SumFunctionOnSet(f, s) \in Nat /\ SumFunctionOnSet(f, r) \in Nat
    BY <2>1, SumTyped
  <2>3. CASE r = s
    BY <2>2, <2>3
  <2>4. CASE r # s
    <3>1. PICK x \in s : x \notin r
      BY <2>4
    <3>2. s \ {x} \in P /\ r \in SUBSET (s \ {x})
      BY <1>1, <3>1
    <3>3. SumFunctionOnSet(f, r) <= SumFunctionOnSet(f, s \ {x})
      BY <3>2
    <3>4. SumFunctionOnSet(f, s) = f[x] + SumFunctionOnSet(f, s \ {x})
      BY <2>1, <3>1, SumTakes
    <3>5. SumFunctionOnSet(f, s \ {x}) \in Nat
      <4>1. IsFiniteSet(s \ {x}) /\ \A y \in s \ {x} : f[y] \in Nat
        BY <2>1, FS_Subset
      <4> QED
        BY <4>1, SumTyped
    <3>6. f[x] \in Nat
      BY <3>1
    <3> QED
      BY <2>2, <3>3, <3>4, <3>5, <3>6
  <2> QED
    BY <2>3, <2>4
<1> HIDE DEF P
<1>2. SUBSET S \subseteq P
  BY <1>1, SubsetInduction
<1> QED
  BY <1>2 DEF P

-----------------------------------------------------------------------------
(* What the entries handled so far make the build copy. *)
TablesSeen == {t \in Places("table") : TableSeen(t)}

DataEntriesSeen == {d \in Places("data") : DataSeen(d)}

NameSizes == [t \in Places("table") |-> NameBytes[entries[t].name]]

CopiedSizes == [d \in Places("data") |-> entries[d].copied]

SchemasOf(T) == {entries[t].schema : t \in T} \ {Absent}

Cost(T, D) ==
  SumFunctionOnSet(NameSizes, T) + SumFunctionOnSet(NameBytes, SchemasOf(T)) + SumFunctionOnSet(CopiedSizes, D)

BudgetInv ==
  /\ phase # "failed" => index_bytes = Cost(TablesSeen, DataEntriesSeen) /\ index_bytes <= limit
  /\ failure.error = "MetadataIndexByteLimitExceeded" => NamesToCharge > limit

LEMMA WholeCost == NamesToCharge = Cost(Places("table"), Places("data"))
<1>1. DOMAIN NameSizes = Places("table") /\ DOMAIN CopiedSizes = Places("data")
  BY DEF NameSizes, CopiedSizes
<1>2. /\ SumFunction(NameSizes) = SumFunctionOnSet(NameSizes, Places("table"))
      /\ SumFunction(CopiedSizes) = SumFunctionOnSet(CopiedSizes, Places("data"))
  BY <1>1 DEF SumFunction
<1>3. NamesToCharge = SumFunction(NameSizes) + SumFunctionOnSet(NameBytes, SchemasOf(Places("table")))
                        + SumFunction(CopiedSizes)
  BY DEF NamesToCharge, NameSizes, CopiedSizes, SchemasOf
<1> QED
  BY <1>2, <1>3 DEF Cost

LEMMA SizesAreCounts ==
  ASSUME entries \in Tocs
  PROVE  /\ \A t \in Places("table") : NameSizes[t] \in Nat /\ NameSizes[t] = NameBytes[entries[t].name]
         /\ \A d \in Places("data") : CopiedSizes[d] \in Nat /\ CopiedSizes[d] = entries[d].copied
         /\ \A T \in SUBSET Places("table") : IsFiniteSet(T) /\ IsFiniteSet(SchemasOf(T))
         /\ \A D \in SUBSET Places("data") : IsFiniteSet(D)
         /\ \A T \in SUBSET Places("table") : \A s \in SchemasOf(T) : NameBytes[s] \in Nat
<1>1. IsFiniteSet(DOMAIN entries) /\ \A kind : Places(kind) \in SUBSET DOMAIN entries
  BY TocsAreSequences, FS_Interval DEF Places
<1>2. \A p \in DOMAIN entries :
        /\ entries[p].schema \in DOMAIN NameBytes \cup {Absent} /\ entries[p].name \in DOMAIN NameBytes
        /\ entries[p].copied \in Nat
  BY IndexAssumption
<1>3. \A n \in DOMAIN NameBytes : NameBytes[n] \in Nat
  BY IndexAssumption
<1>4. \A kind : \A T \in SUBSET Places(kind) : IsFiniteSet(T)
  <2> SUFFICES ASSUME NEW kind, NEW T \in SUBSET Places(kind) PROVE IsFiniteSet(T)
    OBVIOUS
  <2>1. T \in SUBSET DOMAIN entries
    BY <1>1
  <2> QED
    BY <1>1, <2>1, FS_Subset
<1>5. ASSUME NEW T \in SUBSET Places("table") PROVE IsFiniteSet(SchemasOf(T))
  <2> DEFINE all == {entries[t].schema : t \in T}
  <2> DEFINE SchemaOf == [t \in T |-> entries[t].schema]
  <2>1. SchemaOf \in Surjection(T, all)
    BY DEF Surjection
  <2> HIDE DEF SchemaOf
  <2>2. IsFiniteSet(all)
    BY <1>4, <2>1, FS_Surjection
  <2>3. SchemasOf(T) \in SUBSET all
    BY DEF SchemasOf
  <2> HIDE DEF all
  <2> QED
    BY <2>2, <2>3, FS_Subset
<1>6. ASSUME NEW T \in SUBSET Places("table"), NEW s \in SchemasOf(T) PROVE NameBytes[s] \in Nat
  <2>1. PICK t \in T : s = entries[t].schema /\ s # Absent
    BY DEF SchemasOf
  <2>2. t \in DOMAIN entries
    BY <1>1
  <2> QED
    BY <1>2, <1>3, <2>1, <2>2
<1>7. \A t \in Places("table") : NameSizes[t] \in Nat /\ NameSizes[t] = NameBytes[entries[t].name]
  BY <1>1, <1>2, <1>3 DEF NameSizes
<1>8. \A d \in Places("data") : CopiedSizes[d] \in Nat /\ CopiedSizes[d] = entries[d].copied
  BY <1>1, <1>2 DEF CopiedSizes
<1> QED
  BY <1>4, <1>5, <1>6, <1>7, <1>8

LEMMA CostTyped ==
  ASSUME entries \in Tocs, NEW T \in SUBSET Places("table"), NEW D \in SUBSET Places("data")
  PROVE  /\ SumFunctionOnSet(NameSizes, T) \in Nat
         /\ SumFunctionOnSet(NameBytes, SchemasOf(T)) \in Nat
         /\ SumFunctionOnSet(CopiedSizes, D) \in Nat
         /\ Cost(T, D) \in Nat
<1>1. /\ SumFunctionOnSet(NameSizes, T) \in Nat
      /\ SumFunctionOnSet(NameBytes, SchemasOf(T)) \in Nat
      /\ SumFunctionOnSet(CopiedSizes, D) \in Nat
  BY SizesAreCounts, SumTyped
<1> QED
  BY <1>1 DEF Cost

(* Whatever is copied already is no more than the whole. *)
LEMMA CostGrows ==
  ASSUME entries \in Tocs, NEW T \in SUBSET Places("table"), NEW D \in SUBSET Places("data")
  PROVE  Cost(T, D) <= NamesToCharge
<1>1. SumFunctionOnSet(NameSizes, T) <= SumFunctionOnSet(NameSizes, Places("table"))
  BY SizesAreCounts, SumGrows
<1>2. SumFunctionOnSet(CopiedSizes, D) <= SumFunctionOnSet(CopiedSizes, Places("data"))
  BY SizesAreCounts, SumGrows
<1>3. SumFunctionOnSet(NameBytes, SchemasOf(T)) <= SumFunctionOnSet(NameBytes, SchemasOf(Places("table")))
  <2>1. SchemasOf(T) \in SUBSET SchemasOf(Places("table"))
    BY DEF SchemasOf
  <2>2. IsFiniteSet(SchemasOf(Places("table"))) /\ \A s \in SchemasOf(Places("table")) : NameBytes[s] \in Nat
    BY SizesAreCounts
  <2> QED
    BY <2>1, <2>2, SumGrows
<1>4. Places("table") \in SUBSET Places("table") /\ Places("data") \in SUBSET Places("data")
  OBVIOUS
<1>5. /\ SumFunctionOnSet(NameSizes, Places("table")) \in Nat
      /\ SumFunctionOnSet(NameBytes, SchemasOf(Places("table"))) \in Nat
      /\ SumFunctionOnSet(CopiedSizes, Places("data")) \in Nat
  BY <1>4, CostTyped
<1> QED
  BY <1>1, <1>2, <1>3, <1>5, CostTyped, WholeCost DEF Cost

LEMMA CostOfTable ==
  ASSUME entries \in Tocs, NEW T \in SUBSET Places("table"), NEW D \in SUBSET Places("data"),
         NEW t \in Places("table"), t \notin T
  PROVE  LET schema == entries[t].schema
         IN  Cost(T \cup {t}, D) =
               Cost(T, D) + NameBytes[entries[t].name]
                 + IF schema = Absent \/ schema \in SchemasOf(T) THEN 0 ELSE NameBytes[schema]
<1> DEFINE schema == entries[t].schema
<1>1. SumFunctionOnSet(NameSizes, T \cup {t}) = NameBytes[entries[t].name] + SumFunctionOnSet(NameSizes, T)
  <2>1. \A x \in T \cup {t} : NameSizes[x] \in Nat
    BY SizesAreCounts
  <2> QED
    BY <2>1, SizesAreCounts, SumAdds
<1>2. SumFunctionOnSet(NameBytes, SchemasOf(T \cup {t})) =
        SumFunctionOnSet(NameBytes, SchemasOf(T))
          + IF schema = Absent \/ schema \in SchemasOf(T) THEN 0 ELSE NameBytes[schema]
  <2>1. CASE schema = Absent \/ schema \in SchemasOf(T)
    <3>1. SchemasOf(T \cup {t}) = SchemasOf(T)
      BY <2>1 DEF SchemasOf
    <3> QED
      BY <2>1, <3>1, CostTyped
  <2>2. CASE schema # Absent /\ schema \notin SchemasOf(T)
    <3>1. SchemasOf(T \cup {t}) = SchemasOf(T) \cup {schema}
      BY <2>2 DEF SchemasOf
    <3>2. \A s \in SchemasOf(T \cup {t}) : NameBytes[s] \in Nat
      <4>1. T \cup {t} \in SUBSET Places("table")
        OBVIOUS
      <4> QED
        BY <4>1, SizesAreCounts
    <3> HIDE DEF schema
    <3>3. IsFiniteSet(SchemasOf(T))
      BY SizesAreCounts
    <3>4. SumFunctionOnSet(NameBytes, SchemasOf(T) \cup {schema}) =
            NameBytes[schema] + SumFunctionOnSet(NameBytes, SchemasOf(T))
      BY <2>2, <3>1, <3>2, <3>3, SumAdds
    <3>5. NameBytes[schema] \in Nat
      BY <3>1, <3>2
    <3> QED
      BY <2>2, <3>1, <3>4, <3>5, CostTyped
  <2> QED
    BY <2>1, <2>2
<1>3. NameBytes[entries[t].name] \in Nat
  BY SizesAreCounts
<1>4. /\ SumFunctionOnSet(NameSizes, T) \in Nat
      /\ SumFunctionOnSet(NameBytes, SchemasOf(T)) \in Nat
      /\ SumFunctionOnSet(CopiedSizes, D) \in Nat
  BY CostTyped
<1> DEFINE more == IF schema = Absent \/ schema \in SchemasOf(T) THEN 0 ELSE NameBytes[schema]
<1>5. more \in Nat
  <2>1. T \cup {t} \in SUBSET Places("table")
    OBVIOUS
  <2>2. schema # Absent => schema \in SchemasOf(T \cup {t})
    BY DEF SchemasOf
  <2> QED
    BY <2>1, <2>2, SizesAreCounts
<1> HIDE DEF more
<1>6. SumFunctionOnSet(NameBytes, SchemasOf(T \cup {t})) = SumFunctionOnSet(NameBytes, SchemasOf(T)) + more
  BY <1>2 DEF more
<1>7. Cost(T \cup {t}, D) = Cost(T, D) + NameBytes[entries[t].name] + more
  BY <1>1, <1>3, <1>4, <1>5, <1>6 DEF Cost
<1> QED
  BY <1>7 DEF more

LEMMA CostOfData ==
  ASSUME entries \in Tocs, NEW T \in SUBSET Places("table"), NEW D \in SUBSET Places("data"),
         NEW d \in Places("data"), d \notin D
  PROVE  Cost(T, D \cup {d}) = Cost(T, D) + entries[d].copied
<1>1. SumFunctionOnSet(CopiedSizes, D \cup {d}) = entries[d].copied + SumFunctionOnSet(CopiedSizes, D)
  <2>1. \A x \in D \cup {d} : CopiedSizes[x] \in Nat
    BY SizesAreCounts
  <2> QED
    BY <2>1, SizesAreCounts, SumAdds
<1>2. entries[d].copied \in Nat
  BY SizesAreCounts
<1> QED
  BY <1>1, <1>2, CostTyped DEF Cost

-----------------------------------------------------------------------------
(* The map of tables knows a schema when one of its tables has been handled. *)
LEMMA KnownSchemas ==
  ASSUME TablesInv, NEW schema, schema # Absent
  PROVE  KnownSchema(schema) <=> schema \in SchemasOf(TablesSeen)
<1>1. ASSUME KnownSchema(schema) PROVE schema \in SchemasOf(TablesSeen)
  <2>1. PICK k \in DOMAIN tables : k[1] = schema
    BY <1>1 DEF KnownSchema
  <2>2. PICK t \in Places("table") : TableSeen(t) /\ k = Key(t)
    BY <2>1 DEF TablesInv
  <2> QED
    BY <2>1, <2>2 DEF Key, SchemasOf, TablesSeen
<1>2. ASSUME schema \in SchemasOf(TablesSeen) PROVE KnownSchema(schema)
  <2>1. PICK t \in Places("table") : TableSeen(t) /\ entries[t].schema = schema
    BY <1>2 DEF SchemasOf, TablesSeen
  <2>2. Key(t) \in DOMAIN tables /\ Key(t)[1] = schema
    BY <2>1 DEF TablesInv, Key
  <2> QED
    BY <2>2 DEF KnownSchema
<1> QED
  BY <1>1, <1>2

(* The sums are of the entries and nothing else. *)
LEMMA CostStays ==
  ASSUME UNCHANGED entries
  PROVE  (\A T, D : Cost(T, D)' = Cost(T, D)) /\ NamesToCharge' = NamesToCharge
<1>1. Places("table")' = Places("table") /\ Places("data")' = Places("data")
  BY EntriesDecide
<1>2. NameSizes' = NameSizes /\ CopiedSizes' = CopiedSizes
  BY <1>1 DEF NameSizes, CopiedSizes
<1>3. \A T : SchemasOf(T)' = SchemasOf(T)
  BY DEF SchemasOf
<1>4. \A T, D : Cost(T, D)' = Cost(T, D)
  BY <1>2, <1>3 DEF Cost
<1>5. NamesToCharge' = NamesToCharge
  BY <1>1 DEF NamesToCharge
<1> QED
  BY <1>4, <1>5

LEMMA BudgetFails ==
  ASSUME BudgetInv, NEW error, NEW names, Fail(error, names),
         error = "MetadataIndexByteLimitExceeded" => NamesToCharge > limit
  PROVE  BudgetInv'
<1>1. UNCHANGED <<entries, limit>> /\ phase' = "failed" /\ failure'.error = error
  BY DEF Fail
<1> QED
  BY <1>1, CostStays DEF BudgetInv

(* A charge that is refused would have been part of the whole. *)
LEMMA RefusedCharge ==
  ASSUME IndexInv, limit \in Nat, BudgetInv, phase # "failed",
         NEW T \in SUBSET Places("table"), NEW D \in SUBSET Places("data"), NEW bytes \in Nat,
         ChargeFails(bytes), index_bytes + bytes = Cost(T, D)
  PROVE  BudgetInv'
<1>1. NamesToCharge > limit
  <2>1. Cost(T, D) > limit /\ Cost(T, D) \in Nat /\ Cost(T, D) <= NamesToCharge
    BY CostTyped, CostGrows DEF IndexInv, ChargeFails
  <2>2. NamesToCharge \in Nat
    <3>1. Places("table") \in SUBSET Places("table") /\ Places("data") \in SUBSET Places("data")
      OBVIOUS
    <3> QED
      BY <3>1, WholeCost, CostTyped DEF IndexInv
  <2> QED
    BY <2>1, <2>2
<1> QED
  BY <1>1, BudgetFails DEF ChargeFails

(* A step that goes on has charged what its entry costs. *)
LEMMA BudgetGoesOn ==
  ASSUME IndexInv, phase # "failed", NextEntry,
         index_bytes' = Cost(TablesSeen', DataEntriesSeen'), index_bytes' <= limit
  PROVE  BudgetInv'
<1>1. UNCHANGED <<entries, limit, phase, failure>> /\ failure.error = "none"
  BY DEF NextEntry, IndexInv, FailureInv, None
<1>2. index_bytes' = Cost(TablesSeen, DataEntriesSeen)'
  BY <1>1, CostStays
<1> QED
  BY <1>1, <1>2 DEF BudgetInv

LEMMA BytesAreCounts ==
  ASSUME entries \in Tocs, NEW p \in DOMAIN entries
  PROVE  /\ NameBytes[entries[p].name] \in Nat /\ entries[p].copied \in Nat
         /\ entries[p].schema # Absent => NameBytes[entries[p].schema] \in Nat
<1>1. /\ entries[p].schema \in DOMAIN NameBytes \cup {Absent} /\ entries[p].name \in DOMAIN NameBytes
      /\ entries[p].copied \in Nat
  BY IndexAssumption
<1> QED
  BY <1>1, IndexAssumption

LEMMA SeenAreParts ==
  TablesSeen \in SUBSET Places("table") /\ DataEntriesSeen \in SUBSET Places("data")
BY DEF TablesSeen, DataEntriesSeen

(* What going on adds to the entries handled. *)
LEMMA SeenGrows ==
  ASSUME IndexInv, NextEntry
  PROVE  /\ phase # "tables" \/ i \notin Places("table") => TablesSeen' = TablesSeen
         /\ phase # "data" \/ i \notin Places("data") => DataEntriesSeen' = DataEntriesSeen
         /\ phase = "tables" /\ i \in Places("table") => TablesSeen' = TablesSeen \cup {i} /\ i \notin TablesSeen
         /\ phase = "data" /\ i \in Places("data") =>
              DataEntriesSeen' = DataEntriesSeen \cup {i} /\ i \notin DataEntriesSeen
<1>1. UNCHANGED entries /\ Places("table")' = Places("table") /\ Places("data")' = Places("data")
  BY EntriesDecide DEF NextEntry
<1>2. \A p \in DOMAIN entries :
        /\ TableSeen(p)' <=> TableSeen(p) \/ (phase = "tables" /\ p = i)
        /\ DataSeen(p)' <=> DataSeen(p) \/ (phase = "data" /\ p = i)
  BY OneMoreSeen
<1>3. TablesSeen' = {t \in Places("table") : TableSeen(t)'} /\ DataEntriesSeen' = {d \in Places("data") : DataSeen(d)'}
  BY <1>1 DEF TablesSeen, DataEntriesSeen
<1>4. \A kind : Places(kind) \subseteq DOMAIN entries
  BY DEF Places
<1>5. i \in Nat
  BY DEF IndexInv
<1>6. (phase = "tables" => ~TableSeen(i)) /\ (phase = "data" => ~DataSeen(i))
  BY <1>5 DEF TableSeen, DataSeen
<1> QED
  BY <1>2, <1>3, <1>4, <1>6 DEF TablesSeen, DataEntriesSeen

LEMMA TableBudget ==
  ASSUME IndexInv, limit \in Nat, BudgetInv, IndexTable
  PROVE  BudgetInv'
<1> DEFINE key == <<Entry.schema, Entry.name>>
<1>1. /\ i \in DOMAIN entries /\ phase = "tables" /\ TablesInv /\ entries \in Tocs
      /\ i \in Places("table") /\ entries[i].schema # Absent
      /\ i \notin TablesSeen
  BY InPassFacts DEF IndexTable, MapsInv, Places, Entry, IndexInv, TablesSeen, TableSeen
<1>2. CASE key \in DOMAIN tables
  BY <1>2, BudgetFails DEF IndexTable
<1>3. KeyBytes(Entry) \in Nat
  BY <1>1, BytesAreCounts DEF KeyBytes, Entry
<1>4. index_bytes + KeyBytes(Entry) = Cost(TablesSeen \cup {i}, DataEntriesSeen)
  <2>1. KeyBytes(Entry) = NameBytes[entries[i].name]
          + IF entries[i].schema = Absent \/ entries[i].schema \in SchemasOf(TablesSeen) THEN 0
            ELSE NameBytes[entries[i].schema]
    BY <1>1, KnownSchemas DEF KeyBytes, Entry
  <2>2. index_bytes = Cost(TablesSeen, DataEntriesSeen)
    BY <1>1 DEF BudgetInv
  <2> DEFINE more == IF entries[i].schema = Absent \/ entries[i].schema \in SchemasOf(TablesSeen) THEN 0
                     ELSE NameBytes[entries[i].schema]
  <2>3. Cost(TablesSeen \cup {i}, DataEntriesSeen) = Cost(TablesSeen, DataEntriesSeen) + NameBytes[entries[i].name] + more
    BY <1>1, SeenAreParts, CostOfTable
  <2>4. more \in Nat /\ NameBytes[entries[i].name] \in Nat /\ Cost(TablesSeen, DataEntriesSeen) \in Nat
    BY <1>1, SeenAreParts, BytesAreCounts, CostTyped
  <2> HIDE DEF more
  <2>5. KeyBytes(Entry) = NameBytes[entries[i].name] + more
    BY <2>1 DEF more
  <2> QED
    BY <2>2, <2>3, <2>4, <2>5
<1>5. CASE ChargeFails(KeyBytes(Entry))
  <2>1. TablesSeen \cup {i} \in SUBSET Places("table")
    BY <1>1, SeenAreParts
  <2> QED
    BY <1>1, <1>3, <1>4, <1>5, <2>1, SeenAreParts, RefusedCharge
<1>6. CASE key \notin DOMAIN tables /\ ~ChargeFails(KeyBytes(Entry))
  <2>1. NextEntry /\ Charge(KeyBytes(Entry))
    BY <1>6 DEF IndexTable
  <2>2. TablesSeen' = TablesSeen \cup {i} /\ DataEntriesSeen' = DataEntriesSeen
    BY <1>1, <2>1, SeenGrows
  <2>3. index_bytes' = Cost(TablesSeen \cup {i}, DataEntriesSeen) /\ index_bytes' <= limit
    BY <1>4, <2>1 DEF Charge
  <2> QED
    BY <1>1, <2>1, <2>2, <2>3, BudgetGoesOn
<1> QED
  BY <1>2, <1>5, <1>6

LEMMA SchemalessBudget ==
  ASSUME IndexInv, limit \in Nat, BudgetInv, IndexSchemalessTable
  PROVE  BudgetInv'
<1>1. /\ i \in DOMAIN entries /\ phase = "tables" /\ entries \in Tocs
      /\ i \in Places("table") /\ entries[i].schema = Absent
      /\ i \notin TablesSeen
  BY InPassFacts DEF IndexSchemalessTable, Places, Entry, IndexInv, TablesSeen, TableSeen
<1>2. CASE Entry.name \in DOMAIN schemaless
  BY <1>2, BudgetFails DEF IndexSchemalessTable
<1>3. NameBytes[Entry.name] \in Nat
  BY <1>1, BytesAreCounts DEF Entry
<1>4. index_bytes + NameBytes[Entry.name] = Cost(TablesSeen \cup {i}, DataEntriesSeen)
  <2>1. index_bytes = Cost(TablesSeen, DataEntriesSeen)
    BY <1>1 DEF BudgetInv
  <2>2. Cost(TablesSeen \cup {i}, DataEntriesSeen) = Cost(TablesSeen, DataEntriesSeen) + NameBytes[entries[i].name] + 0
    BY <1>1, SeenAreParts, CostOfTable
  <2>3. Cost(TablesSeen, DataEntriesSeen) \in Nat
    BY <1>1, SeenAreParts, CostTyped
  <2> QED
    BY <1>3, <2>1, <2>2, <2>3 DEF Entry
<1>5. CASE ChargeFails(NameBytes[Entry.name])
  <2>1. TablesSeen \cup {i} \in SUBSET Places("table")
    BY <1>1, SeenAreParts
  <2> QED
    BY <1>1, <1>3, <1>4, <1>5, <2>1, SeenAreParts, RefusedCharge
<1>6. CASE Entry.name \notin DOMAIN schemaless /\ ~ChargeFails(NameBytes[Entry.name])
  <2>1. NextEntry /\ Charge(NameBytes[Entry.name])
    BY <1>6 DEF IndexSchemalessTable
  <2>2. TablesSeen' = TablesSeen \cup {i} /\ DataEntriesSeen' = DataEntriesSeen
    BY <1>1, <2>1, SeenGrows
  <2>3. index_bytes' = Cost(TablesSeen \cup {i}, DataEntriesSeen) /\ index_bytes' <= limit
    BY <1>4, <2>1 DEF Charge
  <2> QED
    BY <1>1, <2>1, <2>2, <2>3, BudgetGoesOn
<1> QED
  BY <1>2, <1>5, <1>6

LEMMA DataBudget ==
  ASSUME IndexInv, limit \in Nat, BudgetInv, IndexData
  PROVE  BudgetInv'
<1>1. /\ i \in DOMAIN entries /\ phase = "data" /\ entries \in Tocs
      /\ i \in Places("data") /\ i \notin DataEntriesSeen
  BY InPassFacts DEF IndexData, Places, Entry, IndexInv, DataEntriesSeen, DataSeen
<1>2. CASE \E error, names : error # "MetadataIndexByteLimitExceeded" /\ Fail(error, names)
  BY <1>2, BudgetFails
<1>3. Entry.copied \in Nat
  BY <1>1, BytesAreCounts DEF Entry
<1>4. index_bytes + Entry.copied = Cost(TablesSeen, DataEntriesSeen \cup {i})
  <2>1. index_bytes = Cost(TablesSeen, DataEntriesSeen)
    BY <1>1 DEF BudgetInv
  <2>2. Cost(TablesSeen, DataEntriesSeen \cup {i}) = Cost(TablesSeen, DataEntriesSeen) + entries[i].copied
    BY <1>1, SeenAreParts, CostOfData
  <2> QED
    BY <2>1, <2>2 DEF Entry
<1>5. CASE ChargeFails(Entry.copied)
  <2>1. DataEntriesSeen \cup {i} \in SUBSET Places("data")
    BY <1>1, SeenAreParts
  <2> QED
    BY <1>1, <1>3, <1>4, <1>5, <2>1, SeenAreParts, RefusedCharge
<1>6. CASE KeepMetadata
  <2>1. NextEntry /\ Charge(Entry.copied)
    BY <1>6 DEF KeepMetadata
  <2>2. TablesSeen' = TablesSeen /\ DataEntriesSeen' = DataEntriesSeen \cup {i}
    BY <1>1, <2>1, SeenGrows
  <2>3. index_bytes' = Cost(TablesSeen, DataEntriesSeen \cup {i}) /\ index_bytes' <= limit
    BY <1>4, <2>1 DEF Charge
  <2> QED
    BY <1>1, <2>1, <2>2, <2>3, BudgetGoesOn
<1> QED
  BY <1>2, <1>5, <1>6 DEF IndexData

(* A step that is over no entry, or over one of which no name is copied. *)
LEMMA OtherStepsBudget ==
  ASSUME IndexInv, BudgetInv, EndPass \/ IndexId \/ PassOver \/ AllocationFails
  PROVE  BudgetInv'
<1>1. CASE EndPass
  <2>1. UNCHANGED <<entries, limit, failure, index_bytes>> /\ phase # "failed" /\ phase' # "failed"
    BY <1>1 DEF EndPass
  <2>2. TablesSeen' = TablesSeen /\ DataEntriesSeen' = DataEntriesSeen
    <3>1. \A p \in DOMAIN entries : (TableSeen(p)' <=> TableSeen(p)) /\ (DataSeen(p)' <=> DataSeen(p))
      <4>1. /\ i' = 1 /\ i > Len(entries)
            /\ \/ phase = "ids" /\ phase' = "tables"
               \/ phase = "tables" /\ phase' = "data"
               \/ phase = "data" /\ phase' = "built"
        BY <1>1 DEF EndPass
      <4> QED
        BY <4>1, TocsAreSequences DEF IndexInv, TableSeen, DataSeen
    <3>2. Places("table")' = Places("table") /\ Places("data")' = Places("data")
      BY <2>1, EntriesDecide
    <3> QED
      BY <3>1, <3>2 DEF TablesSeen, DataEntriesSeen, Places
  <2>3. index_bytes = Cost(TablesSeen, DataEntriesSeen) /\ index_bytes <= limit
    BY <2>1 DEF BudgetInv
  <2>4. index_bytes' = Cost(TablesSeen, DataEntriesSeen)'
    BY <2>1, <2>2, <2>3, CostStays
  <2> QED
    BY <2>1, <2>3, <2>4, CostStays DEF BudgetInv
<1>2. CASE \E error, names : error # "MetadataIndexByteLimitExceeded" /\ Fail(error, names)
  BY <1>2, BudgetFails
<1>3. CASE /\ NextEntry /\ UNCHANGED index_bytes /\ phase # "failed"
           /\ phase = "tables" => i \notin Places("table")
           /\ phase = "data" => i \notin Places("data")
  <2>1. TablesSeen' = TablesSeen /\ DataEntriesSeen' = DataEntriesSeen
    BY <1>3, SeenGrows
  <2>2. index_bytes' = Cost(TablesSeen', DataEntriesSeen') /\ index_bytes' <= limit
    BY <1>3, <2>1 DEF BudgetInv
  <2> QED
    BY <1>3, <2>2, BudgetGoesOn
<1>4. IndexId => \/ \E error, names : error # "MetadataIndexByteLimitExceeded" /\ Fail(error, names)
                 \/ NextEntry /\ UNCHANGED index_bytes /\ phase = "ids"
  BY DEF IndexId, InPass
<1>5. PassOver => /\ NextEntry /\ UNCHANGED index_bytes
                  /\ \/ phase = "tables" /\ i \notin Places("table")
                     \/ phase = "data" /\ i \notin Places("data")
  BY DEF PassOver, InPass, Places, Entry
<1>6. AllocationFails => \E error, names : error # "MetadataIndexByteLimitExceeded" /\ Fail(error, names)
  BY DEF AllocationFails
<1> QED
  BY <1>1, <1>2, <1>3, <1>4, <1>5, <1>6

LEMMA BuildBudget ==
  ASSUME IndexInv, limit \in Nat, BudgetInv, Build
  PROVE  BudgetInv'
BY TableBudget, SchemalessBudget, DataBudget, OtherStepsBudget DEF Build

LEMMA BudgetRests ==
  ASSUME BudgetInv, UNCHANGED indexVars
  PROVE  BudgetInv'
<1>1. UNCHANGED <<entries, limit, phase, i, failure, index_bytes>>
  BY DEF indexVars
<1>2. TablesSeen' = TablesSeen /\ DataEntriesSeen' = DataEntriesSeen
  BY <1>1, EntriesDecide DEF TablesSeen, DataEntriesSeen, TableSeen, DataSeen
<1> QED
  BY <1>1, <1>2, CostStays DEF BudgetInv

(* The limit is the caller's. *)
LEMMA LimitStays ==
  ASSUME [Next]_vars
  PROVE  UNCHANGED limit
BY DEF Next, vars, accessVars, Build, EndPass, IndexId, IndexTable, IndexSchemalessTable, PassOver, IndexData,
       AllocationFails, Fail, NextEntry, KeepMetadata, ChargeFails, indexVars, EntryReader, TableRows, Open,
       Seek, ReadType, ReadId, Failed

Budgeted == IInv /\ limit \in Nat /\ BudgetInv

LEMMA BudgetInit == Init => Budgeted
<1> SUFFICES ASSUME Init PROVE Budgeted
  OBVIOUS
<1>1. IInv /\ limit \in Nat
  BY InitInv, IndexAssumption DEF Init, IndexInit
<1>2. /\ entries \in Tocs /\ i = 1 /\ phase = "ids" /\ failure = None /\ index_bytes = 0
  BY DEF Init, IndexInit
<1>3. TablesSeen = {} /\ DataEntriesSeen = {}
  BY <1>2 DEF TablesSeen, DataEntriesSeen, TableSeen, DataSeen
<1>4. Cost({}, {}) = 0
  <2>1. \A f : SumFunctionOnSet(f, {}) = 0
    BY FS_EmptySet, SumUnfolds
  <2>2. SchemasOf({}) = {}
    BY DEF SchemasOf
  <2> QED
    BY <2>1, <2>2 DEF Cost
<1> QED
  BY <1>1, <1>2, <1>3, <1>4 DEF Budgeted, BudgetInv, None

LEMMA BudgetInductive == Budgeted /\ [Next]_vars => Budgeted'
<1> SUFFICES ASSUME Budgeted, [Next]_vars PROVE Budgeted'
  OBVIOUS
<1>1. IInv' /\ limit' \in Nat
  <2>1. IInv'
    BY Inductive DEF Budgeted
  <2>2. limit' = limit
    BY LimitStays
  <2> QED
    BY <2>1, <2>2 DEF Budgeted
<1>2. ASSUME Build PROVE BudgetInv'
  BY <1>2, BuildBudget DEF Budgeted, IInv
<1>3. ASSUME UNCHANGED indexVars PROVE BudgetInv'
  BY <1>3, BudgetRests DEF Budgeted
<1>4. Build \/ UNCHANGED indexVars
  BY DEF Next, vars, EntryReader, TableRows, Open, Seek, ReadType, ReadId, Failed
<1>5. BudgetInv'
  BY <1>2, <1>3, <1>4
<1> QED
  BY <1>1, <1>5 DEF Budgeted

LEMMA BudgetedIsExact == Budgeted => IndexBudgetIsExact
<1> SUFFICES ASSUME Budgeted, phase = "built"
             PROVE  index_bytes = NamesToCharge /\ NamesToCharge <= limit
  BY DEF Budgeted, BudgetInv, IndexBudgetIsExact
<1>1. TablesSeen = Places("table") /\ DataEntriesSeen = Places("data")
  BY DEF TablesSeen, DataEntriesSeen, TableSeen, DataSeen
<1> QED
  BY <1>1, WholeCost DEF Budgeted, BudgetInv

-----------------------------------------------------------------------------
(* For every table of contents, an index that is built is the relation its entries
   spell, in any order, and a contradiction that is reported is there.              *)
THEOREM IndexesAreTheRelation == Spec => []IndexIsTheRelation
<1>1. IInv => IndexIsTheRelation
  BY InvariantIsTheRelation DEF IInv
<1> QED
  BY <1>1, InitInv, Inductive, PTL DEF Spec

(* For every table of contents and every file, a reader is handed out only over the
   block of the entry that was asked for, and rows only of the table that was named:
   what open_entry_reader checks before the first payload byte is enough.            *)
THEOREM OpenedBlocksAreTheEntrys == Spec => []OpenedBlockIsTheEntrys
<1>1. IInv => OpenedBlockIsTheEntrys
  BY DEF IInv
<1> QED
  BY <1>1, InitInv, Inductive, PTL DEF Spec

(* For every table of contents, the selector a matched entry gives leads back to that
   entry, its data and what its statement says, and the tables a schema filter finds
   are those the index has of that schema: metadata_filter.rs and the index agree.   *)
THEOREM FilteredSelectorsLeadBack == Spec => []SelectorsLeadBack
<1>1. IInv => SelectorsLeadBack
  BY BuiltSelectorsLeadBack DEF IInv
<1> QED
  BY <1>1, InitInv, Inductive, PTL DEF Spec

(* For every table of contents and every limit, an index that is built has been charged
   each name once for each copy it keeps, a schema once for all of its tables, and no
   more than the limit allows; and a charge is refused only if the whole exceeds it.    *)
THEOREM IndexBudgetsAreExact == Spec => []IndexBudgetIsExact
BY BudgetInit, BudgetInductive, BudgetedIsExact, PTL DEF Spec
=============================================================================
