------------------------------ MODULE FormatCheck ------------------------------
(***************************************************************************)
(* The checks of the formats that pgdumpx reads by pure functions: a COPY  *)
(* row, an archive's integers and dependencies, and a COPY statement.  A   *)
(* text of one of them grows by one byte or symbol at a time.              *)
(***************************************************************************)
EXTENDS ArchivePrimitives

CONSTANTS
  RowBytes, StatementSymbols, ArchiveBytes,  \* what the texts are made of
  MaxLen,                                    \* bound: length of a text
  IntegerSizes, OffsetSizes, MaxColumns

VARIABLES format, text

Rows == INSTANCE CopyTextCheck WITH Alphabet <- RowBytes

Primitives == INSTANCE PrimitivesCheck WITH bytes <- text, Alphabet <- ArchiveBytes

Statements == INSTANCE CopyStatementCheck WITH Symbols <- StatementSymbols

ASSUME TextAssumption ==
  RowBytes \subseteq 0 .. 255 /\ ArchiveBytes \subseteq 0 .. Base - 1 /\ MaxLen \in Nat

Init == format \in {"row", "primitive", "statement"} /\ text = << >>

Next == /\ UNCHANGED format
        /\ \/ format = "row" /\ Rows!Next
           \/ format = "primitive" /\ Primitives!Next
           \/ format = "statement" /\ Statements!Next

Spec == Init /\ [][Next]_<<format, text>>
-----------------------------------------------------------------------------
(* Once the layout pass has accepted a record, the decoding pass cannot fail and
   yields exactly the fields counted, within any limit: CopyRowReader.            *)
AcceptedRowsDecode == format = "row" => Rows!AcceptedRowsDecode

(* What PostgreSQL's COPY writes is read back as it was, and so is what the find
   command shows of a row: write_row.                                            *)
WrittenRowsReadBack == format = "row" => Rows!WrittenRowsReadBack

(* An archive integer and an offset are read exactly as written, or refused for
   being cut or out of range: read_archive_integer, read_archive_offset.         *)
IntegersReadBack == format = "primitive" => Primitives!IntegersReadBack

(* A dependency string is the dump ID it spells, or none: parse_dependency. *)
DependenciesAreDecimal == format = "primitive" => Primitives!DependenciesAreDecimal

(* A COPY statement has the columns it lists, by any reading of its quotes:
   parse_table_data_metadata.                                                *)
ParsedColumnsAreTheStatements == format = "statement" => Statements!ParsedColumnsAreTheStatements

(* The statement pg_dump writes for any column names is read as those names. *)
WrittenStatementsParse == format = "statement" => Statements!WrittenStatementsParse
=============================================================================
