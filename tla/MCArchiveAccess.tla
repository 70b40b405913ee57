---------------------------- MODULE MCArchiveAccess ----------------------------
(* Tables of contents and files for ArchiveAccess. *)
EXTENDS ArchiveAccess, SequencesExt

CONSTANTS MaxEntries  \* bound: entries of a table of contents

Bytes == [s |-> 1, q |-> 2, t |-> 2, u |-> 1]

Nowhere == [state |-> "unknown", offset |-> 0]
At(n) == [state |-> "offset", offset |-> n]

TableEntry(id, schema, name, oid) ==
  [id |-> id, kind |-> "table", schema |-> schema, name |-> name, oids |-> <<"1", oid>>, deps |-> << >>,
   statement |-> "none", copied |-> 0, location |-> [state |-> "no_data", offset |-> 0]]

DataEntry(id, deps, schema, name, oid, statement, copied, location) ==
  [id |-> id, kind |-> "data", schema |-> schema, name |-> name, oids |-> <<"0", oid>>, deps |-> deps,
   statement |-> statement, copied |-> copied, location |-> location]

-----------------------------------------------------------------------------
(* Every table of contents of a few entries, consistent or not, of a small pool. *)
Data(id, deps, schema, name, oid, statement, copied) ==
  DataEntry(id, deps, schema, name, oid, statement, copied, Nowhere)

Pool ==
  {TableEntry(id, "s", "t", "7") : id \in {1, 2}}
    \cup {TableEntry(2, "s", "u", "8"), TableEntry(2, "q", "t", "0"), TableEntry(1, Absent, "t", "7")}
    \cup {Data(3, deps, "s", "t", oid, "copy", 4) : deps \in {<<1>>, <<9, 1, 1>>, <<1, 2>>}, oid \in {"7", "8"}}
    \cup {Data(3, << >>, "s", "t", "7", "insert", 0), Data(3, <<1>>, "s", "t", "7", "too_many_columns", 0),
          Data(1, <<2>>, "s", "t", "0", "copy", 2), Data(2, <<1>>, Absent, "t", "7", "copy", 2),
          Data(4, <<2>>, "s", "u", "8", "malformed", 0), Data(4, <<1, 3>>, "s", "t", "7", "copy", 2)}
    \cup {[Data(2, <<1>>, "s", "t", "7", "none", 0) EXCEPT !.kind = "other"]}

IndexedTocs == BoundedSeq(Pool, MaxEntries)

-----------------------------------------------------------------------------
(* A few tables of contents that are read with many files. *)
Statements == {"copy", "insert", "malformed"}

OpenedTocs ==
  {<<DataEntry(3, <<1>>, "s", "t", "7", st, 2, loc), TableEntry(1, "s", "t", "7")>> :
     st \in Statements, loc \in {Nowhere, At(0), At(2), At(4)}}
    \cup {<<TableEntry(1, "s", "t", "7"), DataEntry(4, <<2>>, "t", "t", "7", "copy", 2, At(1)),
            TableEntry(2, "t", "t", "7"), DataEntry(3, <<1>>, "s", "t", "7", st, 2, At(2))>> : st \in Statements}
    \cup {<<TableEntry(1, Absent, "t", "7"), DataEntry(3, <<1>>, Absent, "t", "7", "copy", 2, At(2)),
            TableEntry(2, "s", "s", "7"),
            [DataEntry(4, << >>, "s", "t", "7", "copy", 2, At(1)) EXCEPT !.kind = "other"]>>}

AllTocs == IndexedTocs \cup OpenedTocs

Block(type, id, whole) == [type |-> type, id |-> id, whole |-> whole]

Blocks == {Block("data", id, TRUE) : id \in {0, 3, 4}} \cup {Block("blobs", 3, TRUE), Block("data", 3, FALSE)}

SmallFiles == UNION {[offsets -> Blocks] : offsets \in {{}, {1}, {2}, {1, 2}}}

(* Index budgets matter to the first tables of contents and files to the others. *)
IsCase ==
  IF \E p \in DOMAIN entries : entries[p].location.state = "offset" THEN limit = 20
  ELSE file = << >> /\ available

CheckedInit == Init /\ IsCase

CheckedSpec == CheckedInit /\ [][Next]_vars
=============================================================================
