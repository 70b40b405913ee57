----------------------------- MODULE ArchiveAccess -----------------------------
(***************************************************************************)
(* An open archive, crates/pgdumpx/src: Archive::table, entry_reader and   *)
(* table_rows with open_entry_reader (archive.rs), TableRef (model.rs) and *)
(* MetadataFilter (metadata_filter.rs), over the index that ArchiveIndex   *)
(* builds and a file that need not be the one the index was read from.     *)
(***************************************************************************)
EXTENDS ArchiveIndex

CONSTANTS
  Files,      \* what is at each offset of a file: [offsets -> [type, id, whole]]
  IdBytes,    \* bytes of an encoded dump ID: the integer size and a sign
  MaxOffset   \* u64::MAX

(* An entry has a location too, [state, offset].  A block is whole if its dump ID
   is there; an ID of 0 stands for an integer out of range.                       *)
ASSUME AccessAssumption ==
  /\ \A toc \in Tocs : \A p \in DOMAIN toc :
       toc[p].location \in [state : {"offset", "unknown", "no_data"}, offset : 0 .. MaxOffset]
  /\ IdBytes \in Nat \ {0} /\ MaxOffset \in Nat

VARIABLES
  file,
  available,  \* the build has a decoder for the archive's compression
  stage,      \* "idle", "seek", "type" or "id"
  wanted,     \* the table a running table_rows call names, or << >>
  target,     \* the ID of the entry being opened
  position,   \* where the source stands
  answer      \* history: what the last call returned

accessVars == <<file, available, stage, wanted, target, position, answer>>
vars == <<indexVars, accessVars>>

-----------------------------------------------------------------------------
(* TableRef: a table, its data entry if the index has one, and what is known of
   that entry's rows; the table's own entry is found by its dump ID again.      *)
NoTable == [table |-> 0, data |-> 0, statement |-> "none"]

Table(schema, name) ==
  IF <<schema, name>> \notin DOMAIN tables THEN NoTable
  ELSE LET id == tables[<<schema, name>>]
       IN  IF id \in DOMAIN data_of
           THEN [table |-> id, data |-> data_of[id], statement |-> metadata[data_of[id]]]
           ELSE [table |-> id, data |-> 0, statement |-> "none"]

Unsupported == {"insert", "binary", "other"}

(* A filter names a schema or Absent, a kind and a name; << >> asks for any. *)
FilterMatches(f, e) ==
  /\ f.schema \in {<< >>, <<e.schema>>}
  /\ f.kind \in {<< >>, <<e.kind>>}
  /\ f.name \in {<< >>, <<e.name>>}

FilterMetadata(f) == {p \in DOMAIN entries : FilterMatches(f, entries[p])}

\* Mutant: a TABLE DATA entry gives a selector too.
SelectorOfAny(e) == IF e.schema = Absent THEN << >> ELSE <<e.schema, e.name>>

(* MetadataMatch::table_selector; << >> is none. *)
SelectorOf(e) == IF e.kind # "table" \/ e.schema = Absent THEN << >> ELSE <<e.schema, e.name>>

ResolveTable(selector) == Table(selector[1], selector[2])

-----------------------------------------------------------------------------
Nothing == [what |-> "none", id |-> 0]

Init ==
  /\ IndexInit
  /\ file \in Files
  /\ available \in BOOLEAN
  /\ stage = "idle"
  /\ wanted = << >>
  /\ target = 0
  /\ position = 0
  /\ answer = Nothing

Answer(what) == /\ answer' = [what |-> what, id |-> target']
                /\ stage' = "idle"

(* What the index alone can refuse is refused before the source is touched. *)
Locate(e) ==
  /\ target' = e.id
  /\ CASE e.location.state = "no_data" -> Answer("EntryHasNoData")
       [] e.location.state = "unknown" -> Answer("EntryDataOffsetUnavailable")
       [] e.location.state = "offset" ->
            IF e.location.offset + 1 + IdBytes > MaxOffset THEN Answer("InvalidDataOffset")
            ELSE stage' = "seek" /\ UNCHANGED answer

Refuse(error) == target' = 0 /\ Answer(error)

(* entry_reader: None for an ID that is in no entry. *)
EntryReader(id) ==
  /\ phase = "built" /\ stage = "idle"
  /\ wanted' = << >>
  /\ IF id \in DOMAIN by_dump_id THEN Locate(EntryById(id)) ELSE Refuse("none")
  /\ UNCHANGED <<indexVars, file, available, position>>

RowsSupported(statement) == statement \notin Unsupported

TableRows(schema, name) ==
  /\ phase = "built" /\ stage = "idle"
  /\ wanted' = <<schema, name>>
  /\ LET table == Table(schema, name)
     IN  CASE table.table = 0 -> Refuse("TableNotFound")
           [] table.table # 0 /\ table.data = 0 -> Refuse("TableDataEntryUnavailable")
           [] table.data # 0 ->
                IF RowsSupported(table.statement) THEN Locate(EntryById(table.data))
                                                  ELSE Refuse("UnsupportedTableDataRepresentation")
  /\ UNCHANGED <<indexVars, file, available, position>>

Recorded == EntryById(target).location.offset

Failed(error) == UNCHANGED <<indexVars, file, available, wanted, target, position>> /\ Answer(error)

(* The source may fail, or stand somewhere else than it was told to. *)
Seek ==
  /\ stage = "seek"
  /\ \/ Failed("Io")
     \/ /\ position' \in 0 .. MaxOffset
        /\ UNCHANGED <<indexVars, file, available, wanted, target>>
        /\ IF position' = Recorded THEN stage' = "type" /\ UNCHANGED answer
                                   ELSE Answer("EntrySeekPositionMismatch")

ReadType ==
  /\ stage = "type"
  /\ \/ Failed("Io")
     \/ position \notin DOMAIN file /\ Failed("UnexpectedEof")
     \/ position \in DOMAIN file /\ file[position].type # "data" /\ Failed("UnexpectedDataBlockType")
     \/ /\ position \in DOMAIN file /\ file[position].type = "data"
        /\ stage' = "id"
        /\ UNCHANGED <<indexVars, file, available, wanted, target, position, answer>>

\* Mutant: a block is anybody's.
AnyBlock(block) == TRUE

SameEntry(block) == block.id = target

ReadId ==
  /\ stage = "id"
  /\ \/ Failed("Io")
     \/ ~file[position].whole /\ Failed("UnexpectedEof")
     \/ /\ file[position].whole
        /\ IF file[position].id = 0 THEN Failed("ArchiveIntegerOutOfRange")
           ELSE IF ~SameEntry(file[position]) THEN Failed("DataBlockDumpIdMismatch")
           ELSE IF ~available THEN Failed("UnsupportedEntryCompression")
           ELSE Failed(IF wanted = << >> THEN "reader" ELSE "rows")

Open == Seek \/ ReadType \/ ReadId

Next ==
  \/ Build /\ UNCHANGED accessVars
  \/ \E id \in {entries[p].id : p \in DOMAIN entries} \cup {99} : EntryReader(id)
  \/ \E schema, name \in DOMAIN NameBytes : TableRows(schema, name)
  \/ Open

Spec == Init /\ [][Next]_vars
-----------------------------------------------------------------------------
(* A reader is handed out only over a DATA block with the dump ID of the entry that
   was asked for, at the offset recorded for it, whatever has become of the file;
   and rows only of the one TABLE DATA entry that depends on the table named.       *)
OpenedBlockIsTheEntrys ==
  stage = "idle" /\ answer.what \in {"reader", "rows"} =>
    \E p \in DOMAIN entries :
      /\ entries[p].id = answer.id
      /\ entries[p].location.state = "offset" /\ entries[p].location.offset \in DOMAIN file
      /\ LET block == file[entries[p].location.offset]
         IN  block.whole /\ block.type = "data" /\ block.id = answer.id
      /\ answer.what = "rows" => /\ wanted = <<entries[p].schema, entries[p].name>>
                                 /\ \E t \in Owners(p) : Agree(t, p) /\ entries[t].schema # Absent

(* A selector made from a matched entry leads back to that entry, with its data and
   its representation, and a schema's tables found by filter are those of the index. *)
SelectorsLeadBack ==
  phase = "built" =>
    \A schema \in DOMAIN NameBytes :
      LET found == FilterMetadata([schema |-> <<schema>>, kind |-> << >>, name |-> << >>])
          chosen == {p \in found : SelectorOf(entries[p]) # << >>}
      IN  /\ {SelectorOf(entries[p]) : p \in chosen} = {k \in DOMAIN tables : k[1] = schema}
          /\ \A p \in chosen :
               LET table == ResolveTable(SelectorOf(entries[p]))
                   data  == {d \in Places("data") : p \in Owners(d)}
               IN  /\ table.table = entries[p].id
                   /\ IF data = {} THEN table.data = 0
                      ELSE \E d \in data : table.data = entries[d].id /\ table.statement = entries[d].statement
=============================================================================
