---------------------------- MODULE TableRowReader ----------------------------
(***************************************************************************)
(* TableRowReader of crates/pgdumpx/src/table_rows.rs: the rows of one     *)
(* table, checked against the column list of its COPY statement, with the  *)
(* equality search on top.                                                 *)
(*                                                                         *)
(* The reader below it is taken at its word: it is a RowStream, which      *)
(* MCCopyRowReader checks CopyRowReader to be.  One step is one answer of  *)
(* that reader or one row handled here.                                    *)
(***************************************************************************)
EXTENDS CopyText

CONSTANTS
  Inputs,        \* byte strings the table's COPY stream may hold
  ColumnCounts,  \* numbers of columns in the COPY metadata, 0 included, or Unknown
  Unknown,       \* the metadata gives no column list
  Searches,      \* the [column, value] pairs looked for; column 0 does not exist
  U64Max,        \* largest row number
  MaxCalls       \* bound: calls the caller makes

ASSUME TableAssumption ==
  /\ Inputs \subseteq Seq(Byte)
  /\ Unknown \notin Nat
  /\ ColumnCounts \subseteq Nat \cup {Unknown}
  /\ Searches \subseteq [column : Nat, value : [kind : {"null", "bytes"}, bytes : Seq(Byte)]]
  /\ U64Max \in Nat \ {0}
  /\ MaxCalls \in Nat

VARIABLES
  input, delivered, phase,   \* the COPY row reader below, as a RowStream
  expected,   \* expected_field_count
  nextRow,    \* next_row_number
  failed,     \* failed
  pc,         \* "idle"; "pull": asking the reader below; "row": it lent a row
  call,       \* the running call: its kind, its search, and what had been delivered
  shown,      \* history: positions of the rows the caller or its predicate has seen
  outcomes    \* history: what each call returned, with the row number it named

vars == <<input, delivered, phase, expected, nextRow, failed, pc, call, shown, outcomes>>
streamVars == <<input, delivered, phase>>

Stream == INSTANCE RowStream

Fields == DecodeFields(Stream!Rows(input)[delivered].raw)

-----------------------------------------------------------------------------
Init ==
  /\ Stream!Init
  /\ expected \in ColumnCounts
  /\ nextRow = 1
  /\ failed = FALSE
  /\ pc = "idle"
  /\ call = [kind |-> "next_row", from |-> 0]
  /\ shown = << >>
  /\ outcomes = << >>

Return(what) == /\ pc' = "idle"
                /\ outcomes' = Append(outcomes, [what |-> what, row |-> nextRow])

MayCall == pc = "idle" /\ Len(outcomes) < MaxCalls

(* A search first resolves its column, before it looks at `failed` or at any
   byte: without a column list that is an error, without the column an answer. *)
Columns(s) == expected # Unknown /\ s.column \in 1 .. expected

UnresolvedColumn(s) ==
  /\ MayCall
  /\ ~Columns(s)
  /\ Return(IF expected = Unknown THEN "MetadataError" ELSE "ColumnNotFound")
  /\ UNCHANGED <<streamVars, expected, nextRow, failed, call, shown>>

\* Mutant: a failed reader is asked again.
StartWhenFailed(c) ==
  /\ MayCall
  /\ call' = c
  /\ pc' = "pull"
  /\ UNCHANGED <<streamVars, expected, nextRow, failed, shown, outcomes>>

(* A reader that has not failed enters its loop. *)
Start(c) ==
  /\ MayCall
  /\ ~failed
  /\ call' = c
  /\ pc' = "pull"
  /\ UNCHANGED <<streamVars, expected, nextRow, failed, shown, outcomes>>

AlreadyFailed ==
  /\ MayCall
  /\ failed
  /\ Return("none")
  /\ UNCHANGED <<streamVars, expected, nextRow, failed, call, shown>>

NextRow   == Start([kind |-> "next_row", from |-> delivered])
FindFirst == Start([kind |-> "find_first", from |-> delivered])
FindFirstEqual(s) ==
  IF Columns(s) THEN Start([kind |-> "find_equal", from |-> delivered, search |-> s])
                ELSE UnresolvedColumn(s)

-----------------------------------------------------------------------------
(* The answers of the reader below.  It numbers lines in the same width, so a
   line-ended row with the last number is refused there (RowNumberFull).      *)
NoRow ==
  /\ pc = "pull"
  /\ Return("none")
  /\ \/ phase # "open" /\ UNCHANGED streamVars
     \/ Stream!Finish
  /\ UNCHANGED <<expected, nextRow, failed, call, shown>>

RowError ==
  /\ pc = "pull"
  /\ Stream!Break
  /\ Return("RowError")
  /\ UNCHANGED <<expected, nextRow, failed, call, shown>>

LentRow ==
  /\ pc = "pull"
  /\ Stream!Deliver
  /\ delivered + 1 < U64Max \/ (delivered + 1 = U64Max /\ phase' = "ended")
  /\ pc' = "row"
  /\ UNCHANGED <<expected, nextRow, failed, call, shown, outcomes>>

\* Mutant: only a row with too many fields is a mismatch.
TooManyFields == expected # Unknown /\ Len(Fields) > expected

Mismatched == expected # Unknown /\ Len(Fields) # expected

Saturated == IF nextRow = U64Max THEN nextRow ELSE nextRow + 1

Mismatch ==
  /\ pc = "row"
  /\ Mismatched
  /\ failed' = TRUE
  /\ Return("CopyRowFieldCountMismatch")
  /\ nextRow' = IF call.kind = "next_row" THEN nextRow ELSE Saturated
  /\ UNCHANGED <<streamVars, expected, call, shown>>

(* next_row: the row goes to the caller unless its number cannot be followed. *)
ReturnRow ==
  /\ pc = "row" /\ call.kind = "next_row"
  /\ ~Mismatched
  /\ IF nextRow = U64Max
     THEN Return("CopyRowNumberOverflow") /\ UNCHANGED <<nextRow, shown>>
     ELSE /\ Return("row")
          /\ nextRow' = nextRow + 1
          /\ shown' = Append(shown, delivered)
  /\ UNCHANGED <<streamVars, expected, failed, call>>

\* Mutant: the column index counts from one instead of zero.
NextColumnEquals(fields, s) ==
  s.column + 1 \in DOMAIN fields /\ fields[s.column + 1] = s.value

(* The equality predicate; a field past the row's end equals nothing. *)
ColumnEquals(fields, s) == s.column \in DOMAIN fields /\ fields[s.column] = s.value

(* The predicate's answer: any for find_first, the comparison for a search. *)
Holds(answer) == call.kind = "find_equal" => answer = ColumnEquals(Fields, call.search)

RowDoesNotMatch ==
  /\ pc = "row" /\ call.kind # "next_row"
  /\ ~Mismatched
  /\ Holds(FALSE)
  /\ nextRow' = Saturated
  /\ shown' = Append(shown, delivered)
  /\ pc' = "pull"
  /\ UNCHANGED <<streamVars, expected, failed, call, outcomes>>

(* A match is copied; a failed allocation loses the row but not the reader. *)
RowMatches ==
  /\ pc = "row" /\ call.kind # "next_row"
  /\ ~Mismatched
  /\ Holds(TRUE)
  /\ nextRow' = Saturated
  /\ shown' = Append(shown, delivered)
  /\ \E what \in {"match", "MatchAllocationFailed"} : Return(what)
  /\ UNCHANGED <<streamVars, expected, failed, call>>

-----------------------------------------------------------------------------
Caller == NextRow \/ FindFirst \/ AlreadyFailed \/ \E s \in Searches : FindFirstEqual(s)
Answer == NoRow \/ RowError \/ LentRow
Handle == Mismatch \/ ReturnRow \/ RowDoesNotMatch \/ RowMatches

Next == Caller \/ Answer \/ Handle

Spec == Init /\ [][Next]_vars

-----------------------------------------------------------------------------
Fatal == {"RowError", "CopyRowFieldCountMismatch", "CopyRowNumberOverflow"}

(* The caller sees the rows of the stream one by one from the first, each with
   exactly the columns of the COPY statement: a mismatched row is never handed
   to a caller or a predicate, nor is any row after it.  The row number kept here
   and the one kept by the reader below are two counters, advanced by different
   code on every path; they agree, so a mismatch names the row that has it, after
   any mix of calls.                                                               *)
ShownRowsHaveTheirColumns ==
  LET fields(k) == Len(DecodeFields(Stream!Rows(input)[k].raw))
  IN  /\ \A k \in DOMAIN shown : /\ shown[k] = k
                                /\ expected # Unknown => fields(k) = expected
      /\ \A i \in DOMAIN outcomes :
           outcomes[i].what = "CopyRowFieldCountMismatch" =>
             /\ outcomes[i].row = delivered
             /\ fields(outcomes[i].row) # expected

(* A fatal error is final in this layer too: whatever the later calls, they see
   no row and do not move the stream.                                          *)
FatalErrorIsFinal ==
  [][(\E i \in DOMAIN outcomes : outcomes[i].what \in Fatal)
       => UNCHANGED <<delivered, shown>>]_vars

(* find_first_equal answers for the rows from where it started: a match is the
   first row with that value, and no match means none of the rows left had it. *)
EqualityIsFirstMatch ==
  outcomes # << >> /\ pc = "idle" /\ call.kind = "find_equal" =>
    LET what   == outcomes[Len(outcomes)].what
        has(k) == DecodeFields(Stream!Rows(input)[k].raw)[call.search.column]
                    = call.search.value
    IN  /\ what = "match" => /\ has(delivered)
                             /\ \A k \in call.from + 1 .. delivered - 1 : ~has(k)
        /\ what = "none" /\ phase = "ended" /\ ~failed =>
             \A k \in call.from + 1 .. Len(Stream!Rows(input)) : ~has(k)

(* The documentation of the type and of next_row: after any row-reading error,
   later search calls return Ok(None).  find_first_equal resolves its column
   before it asks whether the reader has failed, and does not.                *)
LaterCallsReturnNone ==
  \A i, j \in DOMAIN outcomes :
    i < j /\ outcomes[i].what \in Fatal => outcomes[j].what = "none"
=============================================================================
