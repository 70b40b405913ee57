---------------------------- MODULE CopyRowReader ----------------------------
(***************************************************************************)
(* CopyRowReader<R> of crates/pgdumpx/src/copy.rs, one step per byte.      *)
(*                                                                         *)
(* A caller makes next_row and find_first calls one after another; within  *)
(* a call the reader pulls bytes through a BufReader whose source returns  *)
(* any number of bytes at a time and may fail at any read.  The control    *)
(* state pc stands for the program point:                                  *)
(*   idle     no call is running                                           *)
(*   begin    at the top of next_row_with_budget                           *)
(*   byte     read_record's loop, previous byte not a backslash            *)
(*   escaped  read_record's loop, previous byte an unescaped backslash     *)
(*   cr       a carriage return was taken, the next byte is being peeked   *)
(*   line     read_record returned RecordEnd::Line                         *)
(*   eof      read_record returned RecordEnd::Eof                          *)
(*   lent     next_row_with_budget returned a row                          *)
(***************************************************************************)
EXTENDS CopyText

CONSTANTS
  Inputs,             \* byte strings the source may hold
  StructuralLimits,   \* values of (max_row_bytes, max_fields_per_row)
  ReaderLimits,       \* ScanLimits a reader may be built with
  OperationLimits,    \* ScanLimits a find_first call may be given
  Unlimited,          \* an absent limit (None)
  ReadSizes,          \* how many bytes one source read may return
  U64Max,             \* largest value of the u64 counters
  MaxCalls            \* bound: calls the caller makes

Limit == Nat \cup {Unlimited}
ScanLimit == [rows : Limit, bytes : Limit]

ASSUME ReaderAssumption ==
  /\ Inputs \subseteq Seq(Byte)
  /\ Unlimited \notin Nat
  /\ StructuralLimits \subseteq [rowBytes : Nat, fields : Nat]
  /\ ReaderLimits \subseteq ScanLimit
  /\ OperationLimits \subseteq ScanLimit
  /\ ReadSizes \subseteq Nat \ {0}
  /\ U64Max \in Nat \ {0}
  /\ MaxCalls \in Nat

VARIABLES
  input,      \* the bytes of the source
  limits,     \* structural limits of this reader
  buffered,   \* bytes the BufReader has taken from the source
  consumed,   \* bytes the parser has taken from the BufReader
  scan,       \* scan_budget: limits, start position and counted rows
  op,         \* operation_budget of the running call
  rawRow,     \* raw_row
  nextRow,    \* next_row_number
  finished,   \* finished
  pc,         \* program point, see above
  call,       \* the running call: "next_row" or "find_first"
  exposed,    \* history: the rows lent to the caller or its predicate
  outcomes    \* history: what each call returned

vars == <<input, limits, buffered, consumed, scan, op, rawRow, nextRow,
          finished, pc, call, exposed, outcomes>>

(* What a call returns.  RowErrors come out of next_row_with_budget; the copy
   of a matching row is made after it and has an allocation of its own.      *)
RowErrors == {"CopyIo", "CopyConsumedByteCountOverflow",
              "ScanDecompressedByteLimitExceeded", "CopyRowByteLimitExceeded",
              "CopyAllocationFailed", "MalformedCopyEscape",
              "MalformedCopyTerminator", "ScanRowCountOverflow",
              "ScanRowLimitExceeded", "CopyFieldCountLimitExceeded",
              "CopyRowNumberOverflow"}
Outcome == RowErrors \cup {"row", "match", "none", "MatchAllocationFailed"}

Reading == {"byte", "escaped", "cr"}

-----------------------------------------------------------------------------
(* ScanBudget *)
NewBudget(l, start) == [rows |-> l.rows, bytes |-> l.bytes, start |-> start, counted |-> 0]
NoLimits == [rows |-> Unlimited, bytes |-> Unlimited]

\* Mutant: the byte limit is measured from the start of the stream.
BytesFromOrigin(b, position) == b.bytes = Unlimited \/ position <= b.bytes

(* check_bytes: the bytes since the budget's start are within its limit. *)
WithinBytes(b, position) == b.bytes = Unlimited \/ position - b.start <= b.bytes

\* Mutant: the row limit is checked before the row is counted.
RowsCheckedBeforeCounting(b) == b.rows = Unlimited \/ b.counted <= b.rows

(* check_rows on the next row count. *)
WithinRows(b) == b.rows = Unlimited \/ b.counted + 1 <= b.rows

\* Mutant: a row is counted when it is read and again when it is lent.
CountRowTwice(b) == [b EXCEPT !.counted = @ + 2]

CountRow(b) == [b EXCEPT !.counted = @ + 1]

(* next_input_byte's verdict on taking one more byte: CopyInput counts it,
   then the reader's budget and the operation's budget are checked.        *)
NextByteFault ==
  CASE consumed = U64Max -> "CopyConsumedByteCountOverflow"
    [] consumed < U64Max /\ ~(WithinBytes(scan, consumed + 1) /\ WithinBytes(op, consumed + 1)) ->
         "ScanDecompressedByteLimitExceeded"
    [] OTHER -> "ok"

(* try_count_scanned_row's verdict, the counts of both budgets first. *)
RowCountFault ==
  CASE scan.counted = U64Max \/ op.counted = U64Max -> "ScanRowCountOverflow"
    [] ~(WithinRows(scan) /\ WithinRows(op))        -> "ScanRowLimitExceeded"
    [] OTHER                                        -> "ok"
-----------------------------------------------------------------------------
Init ==
  /\ input \in Inputs
  /\ limits \in StructuralLimits
  /\ buffered = 0
  /\ consumed = 0
  /\ \E l \in ReaderLimits : scan = NewBudget(l, 0)
  /\ op = NewBudget(NoLimits, 0)
  /\ rawRow = << >>
  /\ nextRow = 1
  /\ finished = FALSE
  /\ pc = "idle"
  /\ call = "next_row"
  /\ exposed = << >>
  /\ outcomes = << >>

Return(outcome) == /\ outcomes' = Append(outcomes, outcome)
                   /\ pc' = "idle"

(* next_row runs without an operation budget, find_first_with_limits with one
   that starts at the current position.                                      *)
Call(kind, l) ==
  /\ pc = "idle"
  /\ Len(outcomes) < MaxCalls
  /\ call' = kind
  /\ op' = NewBudget(l, consumed)
  /\ pc' = "begin"
  /\ UNCHANGED <<input, limits, buffered, consumed, scan, rawRow, nextRow,
                 finished, exposed, outcomes>>

NextRow   == Call("next_row", NoLimits)
FindFirst == \E l \in OperationLimits : Call("find_first", l)

(* The early return of a reader that is finished. *)
NothingMore ==
  /\ pc = "begin"
  /\ finished
  /\ Return("none")
  /\ UNCHANGED <<input, limits, buffered, consumed, scan, op, rawRow, nextRow,
                 finished, call, exposed>>

(* The reader is presumed finished until a whole line has been parsed. *)
StartRow ==
  /\ pc = "begin"
  /\ ~finished
  /\ finished' = TRUE
  /\ rawRow' = << >>
  /\ pc' = "byte"
  /\ UNCHANGED <<input, limits, buffered, consumed, scan, op, nextRow, call,
                 exposed, outcomes>>

-----------------------------------------------------------------------------
(* BufReader::fill_buf asks the source only when its buffer is empty. *)
Drained  == buffered = consumed
AtEof    == Drained /\ consumed = Len(input)
NextByte == input[consumed + 1]

Fill ==
  /\ pc \in Reading
  /\ Drained
  /\ consumed < Len(input)
  /\ \E n \in ReadSizes :
       buffered' = IF buffered + n < Len(input) THEN buffered + n ELSE Len(input)
  /\ UNCHANGED <<input, limits, consumed, scan, op, rawRow, nextRow, finished,
                 pc, call, exposed, outcomes>>

(* Any error of the source, Interrupted included: fill_buf does not retry. *)
SourceFails ==
  /\ pc \in Reading
  /\ Drained
  /\ Return("CopyIo")
  /\ UNCHANGED <<input, limits, buffered, consumed, scan, op, rawRow, nextRow,
                 finished, call, exposed>>

\* Mutant: whatever byte follows a carriage return is taken with it.
TakesAnyByteAfterCr == pc \in Reading /\ buffered > consumed

(* next_input_byte is about to take NextByte; after a CR only a LF is taken. *)
TakesByte == /\ pc \in Reading
             /\ buffered > consumed
             /\ pc = "cr" => NextByte = LF

RefuseByte ==
  /\ TakesByte
  /\ NextByteFault # "ok"
  /\ consumed' = IF consumed = U64Max THEN consumed ELSE consumed + 1
  /\ Return(NextByteFault)
  /\ UNCHANGED <<input, limits, buffered, scan, op, rawRow, nextRow, finished,
                 call, exposed>>

TakeByte == /\ TakesByte
            /\ NextByteFault = "ok"
            /\ consumed' = consumed + 1

(* push_raw_byte: every escaped byte and every ordinary one. *)
IsRowByte == pc = "escaped" \/ (pc = "byte" /\ NextByte \notin {LF, CR})

KeepByte ==
  /\ TakeByte
  /\ IsRowByte
  /\ Len(rawRow) < limits.rowBytes
  /\ rawRow' = Append(rawRow, NextByte)
  /\ pc' = IF pc = "byte" /\ NextByte = BSL THEN "escaped" ELSE "byte"
  /\ UNCHANGED <<input, limits, buffered, scan, op, nextRow, finished, call,
                 exposed, outcomes>>

RejectByte ==
  /\ TakeByte
  /\ IsRowByte
  /\ \/ /\ Len(rawRow) >= limits.rowBytes
        /\ Return("CopyRowByteLimitExceeded")
     \/ /\ Len(rawRow) < limits.rowBytes
        /\ Return("CopyAllocationFailed")
  /\ UNCHANGED <<input, limits, buffered, scan, op, rawRow, nextRow, finished,
                 call, exposed>>

(* A line feed ends the record; a carriage return does too, after a peek. *)
TakeLineEnd ==
  /\ TakeByte
  /\ pc = "byte"
  /\ NextByte \in {LF, CR}
  /\ pc' = IF NextByte = LF THEN "line" ELSE "cr"
  /\ UNCHANGED <<input, limits, buffered, scan, op, rawRow, nextRow, finished,
                 call, exposed, outcomes>>

TakePairedLineFeed ==
  /\ TakeByte
  /\ pc = "cr"
  /\ pc' = "line"
  /\ UNCHANGED <<input, limits, buffered, scan, op, rawRow, nextRow, finished,
                 call, exposed, outcomes>>

\* Mutant: the peek after a carriage return waits for a byte at the end of input.
PeekNeedsAByte ==
  /\ pc = "cr"
  /\ buffered > consumed /\ NextByte # LF
  /\ pc' = "line"
  /\ UNCHANGED <<input, limits, buffered, consumed, scan, op, rawRow, nextRow,
                 finished, call, exposed, outcomes>>

LoneCarriageReturn ==
  /\ pc = "cr"
  /\ AtEof \/ (buffered > consumed /\ NextByte # LF)
  /\ pc' = "line"
  /\ UNCHANGED <<input, limits, buffered, consumed, scan, op, rawRow, nextRow,
                 finished, call, exposed, outcomes>>

EndOfInput ==
  /\ AtEof
  /\ \/ /\ pc = "byte"
        /\ pc' = "eof"
        /\ UNCHANGED outcomes
     \/ /\ pc = "escaped"
        /\ Return("MalformedCopyEscape")
  /\ UNCHANGED <<input, limits, buffered, consumed, scan, op, rawRow, nextRow,
                 finished, call, exposed>>

-----------------------------------------------------------------------------
(* next_row_with_budget once the record is complete *)
EmptyEof == pc = "eof" /\ rawRow = << >>
IsRow    == pc \in {"line", "eof"} /\ ~EmptyEof /\ rawRow # CopyTerminator

EndOfStream ==
  /\ EmptyEof \/ (pc = "line" /\ rawRow = CopyTerminator)
  /\ Return("none")
  /\ UNCHANGED <<input, limits, buffered, consumed, scan, op, rawRow, nextRow,
                 finished, call, exposed>>

UnendedTerminator ==
  /\ pc = "eof"
  /\ rawRow = CopyTerminator
  /\ Return("MalformedCopyTerminator")
  /\ UNCHANGED <<input, limits, buffered, consumed, scan, op, rawRow, nextRow,
                 finished, call, exposed>>

RefuseRow ==
  /\ IsRow
  /\ RowCountFault # "ok"
  /\ Return(RowCountFault)
  /\ UNCHANGED <<input, limits, buffered, consumed, scan, op, rawRow, nextRow,
                 finished, call, exposed>>

\* Mutant: the last row number is refused to every row.
RefuseLastNumber == nextRow = U64Max

(* The number after a line-ended row must exist; a row that the input's end
   closes needs none after it.                                              *)
RowNumberFull == pc = "line" /\ nextRow = U64Max

(* What can still reject a row that both budgets have counted. *)
CountedRowFaults ==
  LET layout == InspectFieldLayout(rawRow, limits.fields)
  IN  IF layout # "ok" THEN {layout}
      ELSE {"CopyAllocationFailed"}
           \cup (IF RowNumberFull THEN {"CopyRowNumberOverflow"} ELSE {})

CountTheRow ==
  /\ IsRow
  /\ RowCountFault = "ok"
  /\ scan' = CountRow(scan)
  /\ op' = CountRow(op)

\* Mutant: a malformed row is skipped and the reader stays usable.
SkipCountedRow ==
  /\ CountTheRow
  /\ \E fault \in CountedRowFaults : Return(fault)
  /\ finished' = FALSE
  /\ UNCHANGED <<input, limits, buffered, consumed, rawRow, nextRow, call, exposed>>

RejectCountedRow ==
  /\ CountTheRow
  /\ \E fault \in CountedRowFaults : Return(fault)
  /\ UNCHANGED <<input, limits, buffered, consumed, rawRow, nextRow, finished,
                 call, exposed>>

\* Mutant: the reader stays open after a row that no line ending closes.
NeverLastRow == FALSE

LastRow == pc = "eof"

(* The row is lent.  A row that no line ending closes leaves the reader
   finished and the row number as it was.                                *)
LendRow ==
  /\ CountTheRow
  /\ InspectFieldLayout(rawRow, limits.fields) = "ok"
  /\ ~RowNumberFull
  /\ nextRow' = IF pc = "line" THEN nextRow + 1 ELSE nextRow
  /\ finished' = LastRow
  /\ exposed' = Append(exposed, [number |-> nextRow, raw |-> rawRow, stop |-> consumed])
  /\ pc' = "lent"
  /\ UNCHANGED <<input, limits, buffered, consumed, rawRow, call, outcomes>>

ReturnRow ==
  /\ pc = "lent"
  /\ call = "next_row"
  /\ Return("row")
  /\ UNCHANGED <<input, limits, buffered, consumed, scan, op, rawRow, nextRow,
                 finished, call, exposed>>

(* find_first's loop: the predicate may hold of any row.  The match is copied
   into an OwnedRow, which may fail without touching the reader.             *)
PredicateFalse ==
  /\ pc = "lent"
  /\ call = "find_first"
  /\ pc' = "begin"
  /\ UNCHANGED <<input, limits, buffered, consumed, scan, op, rawRow, nextRow,
                 finished, call, exposed, outcomes>>

PredicateTrue ==
  /\ pc = "lent"
  /\ call = "find_first"
  /\ \E outcome \in {"match", "MatchAllocationFailed"} : Return(outcome)
  /\ UNCHANGED <<input, limits, buffered, consumed, scan, op, rawRow, nextRow,
                 finished, call, exposed>>

-----------------------------------------------------------------------------
Caller == NextRow \/ FindFirst

(* The steps of a running call whose source answers without an error. *)
Progress ==
  \/ NothingMore \/ StartRow \/ Fill
  \/ RefuseByte \/ KeepByte \/ RejectByte
  \/ TakeLineEnd \/ TakePairedLineFeed \/ LoneCarriageReturn \/ EndOfInput
  \/ EndOfStream \/ UnendedTerminator
  \/ RefuseRow \/ RejectCountedRow \/ LendRow
  \/ ReturnRow \/ PredicateFalse \/ PredicateTrue

Next == Caller \/ Progress \/ SourceFails

(* A running call keeps running: it is ordinary sequential code, each read of
   the source returns and so does each call of the predicate.  Nothing obliges
   the caller to call again, nor the source ever to fail.                     *)
Spec == Init /\ [][Next]_vars /\ WF_vars(Progress)

-----------------------------------------------------------------------------
TypeOK ==
  /\ input \in Inputs
  /\ limits \in StructuralLimits
  /\ buffered \in Nat
  /\ consumed \in 0 .. U64Max
  /\ scan \in [rows : Limit, bytes : Limit, start : Nat, counted : 0 .. U64Max]
  /\ op \in [rows : Limit, bytes : Limit, start : Nat, counted : 0 .. U64Max]
  /\ rawRow \in Seq(Byte)
  /\ nextRow \in 1 .. U64Max
  /\ finished \in BOOLEAN
  /\ pc \in Reading \cup {"idle", "begin", "line", "eof", "lent"}
  /\ call \in {"next_row", "find_first"}
  /\ exposed \in Seq([number : 1 .. U64Max, raw : Seq(Byte), stop : 0 .. U64Max])
  /\ outcomes \in Seq(Outcome)

(* "Any error returned while reading or parsing a row makes this reader
   terminal": after such an error, and after a clean end, every later call of
   either kind returns Ok(None).                                             *)
NothingAfterTheEnd ==
  \A i, j \in DOMAIN outcomes :
    i < j /\ outcomes[i] \in RowErrors \cup {"none"} => outcomes[j] = "none"

(* A reader that has returned an error or None is inert: it takes no byte, asks
   its source for nothing and lends no row, whatever is called on it.          *)
TerminalReaderIsInert ==
  [][(\E i \in DOMAIN outcomes : outcomes[i] \in RowErrors \cup {"none"})
       => UNCHANGED <<buffered, consumed, scan, nextRow, exposed>>]_vars

(* The rows the running call has been lent. *)
LentToCall == {k \in DOMAIN exposed : exposed[k].stop > op.start}

(* While a row is lent, it and everything before it is inside both budgets: the
   reader's own, over all calls, and the running call's, from where that call
   began.  A row that crosses either is never seen by the predicate.           *)
LentRowsAreWithinBudgets ==
  pc = "lent" =>
    /\ scan.rows # Unlimited  => Len(exposed) <= scan.rows
    /\ scan.bytes # Unlimited => consumed <= scan.bytes
    /\ op.rows # Unlimited    => Cardinality(LentToCall) <= op.rows
    /\ op.bytes # Unlimited   => consumed - op.start <= op.bytes

(* A scan-limit error is earned and exact: the byte error is raised with the one
   byte over a limit taken, the row error when one of the budgets has already
   counted its last permitted row, which was lent.                              *)
LimitErrorsAreExact ==
  outcomes # << >> /\ pc = "idle" =>
    LET last == outcomes[Len(outcomes)]
    IN  /\ last = "ScanDecompressedByteLimitExceeded" =>
             \/ scan.bytes # Unlimited /\ consumed = scan.bytes + 1
             \/ op.bytes # Unlimited /\ consumed = op.start + op.bytes + 1
        /\ last = "ScanRowLimitExceeded" =>
             \/ scan.rows # Unlimited /\ Len(exposed) = scan.rows
             \/ op.rows # Unlimited /\ Cardinality(LentToCall) = op.rows

(* Both budgets count every lent row once, and neither count can overflow before
   the byte count and the row number do: ScanBudget's own overflow error is
   never returned.                                                              *)
RowsAreCountedOnce ==
  /\ pc = "lent" => /\ scan.counted = Len(exposed)
                    /\ op.counted = Cardinality(LentToCall)
  /\ \A i \in DOMAIN outcomes : outcomes[i] # "ScanRowCountOverflow"

(* Every call returns, whatever the input, the limits and the faults. *)
EveryCallReturns == pc # "idle" ~> pc = "idle"

-----------------------------------------------------------------------------
(* The reader as a RowStream: a lent row has been delivered; a parsing error
   breaks the stream; it has ended once the finished reader is at rest.      *)
Broken == \E i \in DOMAIN outcomes : outcomes[i] \in RowErrors
Phase  == CASE Broken -> "broken"
            [] ~Broken /\ finished /\ pc \in {"idle", "begin", "lent"} -> "ended"
            [] OTHER -> "open"

Stream == INSTANCE RowStream WITH delivered <- Len(exposed), phase <- Phase

(* Byte by byte, with read-ahead, budgets and faults, the reader does nothing
   but what a row stream may do.                                             *)
ImplementsRowStream == Stream!Spec

(* The rows lent are the first rows of the input: none is lost, repeated,
   reordered or cut short, their numbers are consecutive, and each ends where
   its record does.  A call that returns a row or a match has taken that row's
   bytes and no other, so a scan that is resumed later starts exactly at the next
   record; Ok(None) from a reader that has not failed means that every row was
   lent and that the bytes taken end with the terminator or with the input.       *)
LentRowsAreThePrefix ==
  LET rows == Stream!Rows(input)
      last == outcomes[Len(outcomes)]
  IN  /\ Len(exposed) <= Len(rows)
      /\ \A k \in DOMAIN exposed :
           exposed[k] = [number |-> k, raw |-> rows[k].raw, stop |-> rows[k].stop]
      /\ outcomes # << >> /\ pc = "idle" /\ ~Broken =>
           /\ last \in {"row", "match", "MatchAllocationFailed"} =>
                consumed = rows[Len(exposed)].stop
           /\ last = "none" => /\ Len(exposed) = Len(rows)
                               /\ consumed = Stream!StreamEnd(input)

(* The last row number goes only to a row that no line ending closes, and a row
   is refused for want of a number only when it is line-ended and every number
   before the last has been lent.                                              *)
RowNumbersRunOut ==
  LET rows == Stream!Rows(input)
  IN  /\ \A k \in DOMAIN exposed : exposed[k].number = U64Max => ~rows[k].line
      /\ \A i \in DOMAIN outcomes :
           outcomes[i] = "CopyRowNumberOverflow" =>
             /\ Len(exposed) + 1 = U64Max
             /\ U64Max <= Len(rows)
             /\ rows[U64Max].line
=============================================================================
