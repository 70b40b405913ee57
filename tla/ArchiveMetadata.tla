---------------------------- MODULE ArchiveMetadata ----------------------------
(***************************************************************************)
(* Reading an archive's header and table of contents: custom/header.rs,    *)
(* custom/toc.rs and the strings of custom/primitives.rs, with the         *)
(* cumulative counters of metadata_budget.rs (crates/pgdumpx/src).         *)
(*                                                                         *)
(* The archive is a sequence of items, one for each field its writer has   *)
(* put there.  An item is an integer n and a content: a byte or an         *)
(* integer is its n, a string is its length, negative for NULL, and what   *)
(* it says, an offset is its state and its position.  One step reads one   *)
(* item, or a string's length, or its bytes.                               *)
(***************************************************************************)
EXTENDS Integers, Sequences

CONSTANTS
  Inputs,     \* sequences of items, records with n : Int and a content
  LimitSets,  \* [string, entries, per_entry, strings, dependencies]: Limits
  MaxInt,     \* largest value of an archive integer: i32::MAX
  U64Max      \* largest value of the counters

ASSUME MetadataAssumption ==
  /\ MaxInt \in Nat /\ U64Max \in Nat
  /\ \A items \in Inputs : /\ items \in Seq({items[i] : i \in DOMAIN items})
                            /\ \A i \in DOMAIN items : items[i].n \in Int
  /\ LimitSets \subseteq [string : Nat, entries : Nat, per_entry : Nat, strings : Nat, dependencies : Nat]

VARIABLES
  input, limits,
  at,            \* items read
  version,       \* the archive's minor version
  todo,          \* names of the fields still to be read of this header or entry
  left,          \* entries still to be read after this one
  pc,            \* "field", "bytes" within a string, or "stopped"
  outcome,       \* "reading", "parsed" or an error
  string_bytes,  \* MetadataBudget.string_bytes
  dependencies,  \* MetadataBudget.dependencies
  listed,        \* dependencies of this entry so far
  parsed,        \* what has been read, in order
  held,          \* history: bytes of the strings kept
  kept           \* history: dependencies kept

vars == <<input, limits, at, version, todo, left, pc, outcome, string_bytes, dependencies,
          listed, parsed, held, kept>>
placeVars == <<version, left, listed>>
budgetVars == <<string_bytes, dependencies>>
keptVars == <<held, kept>>

-----------------------------------------------------------------------------
HeaderFields == <<
  "magic", "version", "integer_size", "offset_size", "format", "compression",
  "created_at", "created_at", "created_at", "created_at", "created_at", "created_at", "created_at",
  "database_name", "server_version", "dump_version", "count">>

RequiredStrings == {"database_name", "server_version", "dump_version",
                    "catalog_table_oid", "catalog_oid", "name", "description", "with_oids"}

OptionalStrings == {"definition", "drop_statement", "copy_statement", "namespace",
                    "tablespace", "table_access_method", "owner"}

Retained == RequiredStrings \cup OptionalStrings

Strings == Retained \cup {"dependency"}

\* Mutant: archives of version 1.15 are read as if they had relation kinds.
EarlyRelationKind(v) == IF v >= 15 THEN <<"relation_kind">> ELSE << >>

RelationKind(v) == IF v >= 16 THEN <<"relation_kind">> ELSE << >>

EntryFields(v) ==
  <<"id", "has_data", "catalog_table_oid", "catalog_oid", "name", "description", "section",
    "definition", "drop_statement", "copy_statement", "namespace", "tablespace",
    "table_access_method">> \o RelationKind(v) \o <<"owner", "with_oids", "dependency", "location">>

Field == Head(todo)

Item == input[at + 1]

-----------------------------------------------------------------------------
Init ==
  /\ input \in Inputs
  /\ limits \in LimitSets
  /\ at = 0 /\ left = 0 /\ version = 0
  /\ todo = HeaderFields
  /\ pc = "field"
  /\ outcome = "reading"
  /\ string_bytes = 0 /\ dependencies = 0 /\ listed = 0
  /\ parsed = << >>
  /\ held = 0 /\ kept = 0

(* Every error ends the reading, and what has been read is dropped. *)
Fail(error) ==
  /\ pc' = "stopped"
  /\ outcome' = error
  /\ UNCHANGED <<input, limits, at, todo, parsed, placeVars, budgetVars, keptVars>>

(* The item is read as v. *)
Accept(v) ==
  /\ at' = at + 1
  /\ parsed' = Append(parsed, <<Field, v>>)
  /\ UNCHANGED <<input, limits>>

(* The next field is the next of this layout, the first of the next entry's, or none. *)
Continue ==
  \/ /\ Len(todo) > 1
     /\ todo' = Tail(todo) /\ pc' = "field"
     /\ UNCHANGED <<left, outcome>>
  \/ /\ Len(todo) = 1 /\ left > 0
     /\ todo' = EntryFields(version) /\ left' = left - 1 /\ pc' = "field"
     /\ UNCHANGED outcome
  \/ /\ Len(todo) = 1 /\ left = 0
     /\ pc' = "stopped" /\ outcome' = "parsed"
     /\ UNCHANGED <<todo, left>>

-----------------------------------------------------------------------------
ValueErrors == [f \in {"magic", "version", "integer_size", "offset_size", "format", "id", "section"} |->
  CASE f = "magic"        -> Item.n # 1
    [] f = "version"      -> Item.n \notin 14 .. 16
    [] f = "integer_size" -> Item.n \notin 1 .. 4
    [] f = "offset_size"  -> Item.n = 0
    [] f = "format"       -> Item.n # 1
    [] f = "id"           -> Item.n <= 0
    [] f = "section"      -> Item.n \notin 1 .. 4]

(* Version 1.14 writes a level where later versions write an algorithm. *)
CompressionOf(n) ==
  IF version >= 15 THEN (IF n \in 0 .. 3 THEN <<"none", "gzip", "lz4", "zstd">>[n + 1] ELSE "unsupported")
  ELSE IF n = 0 THEN "none" ELSE "gzip"

IsInteger == Field \in {"created_at", "count", "id", "has_data", "section", "relation_kind"}
             \/ (Field = "compression" /\ version < 15)

InRange == Item.n \in -(MaxInt + 1) .. MaxInt

Value == CASE Field = "compression" -> CompressionOf(Item.n)
           [] Field = "has_data" -> Item.n # 0
           [] OTHER -> Item.n

IsFixed == Field \in {"magic", "version", "integer_size", "offset_size", "format", "compression", "created_at",
                      "id", "has_data", "section", "relation_kind"}

Refused == \/ Field \in DOMAIN ValueErrors /\ ValueErrors[Field]
           \/ Field = "compression" /\ Value = "unsupported"

(* A byte or an integer of the header or of an entry. *)
ReadValue ==
  /\ pc = "field" /\ at < Len(input)
  /\ IsFixed
  /\ IF IsInteger /\ ~InRange THEN Fail("range")
     ELSE IF Refused THEN Fail("value")
     ELSE /\ Accept(Value)
          /\ Continue
          /\ version' = IF Field = "version" THEN Item.n ELSE version
          /\ listed' = IF Field = "id" THEN 0 ELSE listed
          /\ UNCHANGED <<budgetVars, keptVars>>

(* The number of entries is checked before any room is made for them. *)
ReadCount ==
  /\ pc = "field" /\ at < Len(input)
  /\ Field = "count"
  /\ IF ~InRange THEN Fail("range")
     ELSE IF Item.n < 0 THEN Fail("value")
     ELSE IF Item.n > limits.entries THEN Fail("entries")
     ELSE \/ Fail("allocation")
          \/ /\ Accept(Item.n)
             /\ UNCHANGED <<version, listed, budgetVars, keptVars>>
             /\ IF Item.n = 0 THEN /\ pc' = "stopped" /\ outcome' = "parsed"
                                   /\ UNCHANGED <<todo, left>>
                ELSE /\ todo' = EntryFields(version) /\ left' = Item.n - 1
                     /\ UNCHANGED <<pc, outcome>>

-----------------------------------------------------------------------------
(* A charge that would pass a limit is refused and leaves the counter alone. *)
ChargeError(used, amount, max, error) ==
  IF used + amount > U64Max THEN "overflow" ELSE IF used + amount > max THEN error ELSE "none"

\* Mutant: each string is compared with the cumulative limit alone.
ChargedAlone == IF Item.n > limits.strings THEN "strings" ELSE "none"

StringCharge == ChargeError(string_bytes, Item.n, limits.strings, "strings")

\* Mutant: a string of exactly the limit is too long.
TooLongAtLimit == Item.n >= limits.string

TooLong == Item.n > limits.string

ReadNull ==
  /\ Item.n < 0
  /\ IF Field \in RequiredStrings THEN Fail("missing")
     ELSE Accept("null") /\ Continue /\ UNCHANGED <<version, listed, budgetVars, keptVars>>

Charge ==
  IF Field \in Retained
  THEN StringCharge = "none" /\ string_bytes' = string_bytes + Item.n
  ELSE UNCHANGED string_bytes

(* A string's length is held against the limit for one string, then charged, and
   only then is room made for its bytes.  A dependency is not kept as a string
   and not charged as one.                                                        *)
ReadStringLength ==
  /\ pc = "field" /\ at < Len(input)
  /\ Field \in Strings
  /\ \/ ~InRange /\ Fail("range")
     \/ InRange /\ ReadNull
     \/ /\ InRange /\ Item.n >= 0 /\ TooLong
        /\ Fail("string")
     \/ /\ InRange /\ Item.n >= 0 /\ ~TooLong
        /\ Field \in Retained /\ StringCharge # "none"
        /\ Fail(StringCharge)
     \/ /\ InRange /\ Item.n >= 0 /\ ~TooLong
        /\ Charge
        /\ pc' = "bytes"
        /\ UNCHANGED <<input, limits, at, todo, outcome, parsed, placeVars, dependencies, keptVars>>

ReadString ==
  /\ pc = "bytes" /\ Field \in Retained
  /\ \/ Fail("allocation")
     \/ /\ Accept(Item.content)
        /\ Continue
        /\ held' = held + Item.n
        /\ UNCHANGED <<version, listed, budgetVars, kept>>

ListIsFull == listed >= limits.per_entry

DependencyCharge == ChargeError(dependencies, 1, limits.dependencies, "dependencies")

(* A dependency is counted, parsed and charged, in this order, before it is kept;
   the list goes on until a NULL.  Its text and the list both need memory.         *)
ReadDependency ==
  /\ pc = "bytes" /\ Field = "dependency"
  /\ \/ Fail("allocation")
     \/ IF ListIsFull THEN Fail("per_entry")
        ELSE IF Item.content = "bad" THEN Fail("value")
        ELSE IF DependencyCharge # "none" THEN Fail(DependencyCharge)
        ELSE /\ Accept(Item.content)
             /\ pc' = "field"
             /\ dependencies' = dependencies + 1
             /\ kept' = kept + 1
             /\ listed' = listed + 1
             /\ UNCHANGED <<version, todo, left, outcome, string_bytes, held>>

(* The data offset: a state, and a position that only one of the states means. *)
ReadLocation ==
  /\ pc = "field" /\ at < Len(input)
  /\ Field = "location"
  /\ IF Item.n \notin 1 .. 3 THEN Fail("value")
     ELSE /\ Accept(CASE Item.n = 1 -> "unknown" [] Item.n = 2 -> Item.content [] Item.n = 3 -> "no_data")
          /\ Continue
          /\ UNCHANGED <<version, listed, budgetVars, keptVars>>

(* The source ends, before a field or within a string's bytes, or fails. *)
InputEnds ==
  /\ \/ pc = "field" /\ at = Len(input)
     \/ pc = "bytes" /\ at + 1 = Len(input)
  /\ Fail("eof")

InputFails == pc \in {"field", "bytes"} /\ Fail("io")

Next ==
  \/ ReadValue \/ ReadCount \/ ReadLocation
  \/ ReadStringLength \/ ReadString \/ ReadDependency
  \/ InputEnds \/ InputFails

Spec == Init /\ [][Next]_vars
-----------------------------------------------------------------------------
(* Bytes charged for a string that is being read. *)
Pending == IF pc = "bytes" /\ Field \in Retained THEN Item.n ELSE 0

(* What is kept of an archive's strings and dependencies is exactly what has been
   charged, a string being read included, and never passes the cumulative limits:
   nothing is kept uncharged and nothing is charged twice.                         *)
RetainedWithinLimits ==
  /\ outcome = "reading" => string_bytes = held + Pending
  /\ outcome = "parsed" => string_bytes = held
  /\ held <= string_bytes /\ string_bytes <= limits.strings /\ string_bytes <= U64Max
  /\ dependencies = kept /\ dependencies <= limits.dependencies
  /\ listed <= limits.per_entry
=============================================================================
