------------------------- MODULE CopyRowReaderProofs -------------------------
(***************************************************************************)
(* Theorems about CopyRowReader, for every input, every limit, every read  *)
(* size of the source and any number of calls.                             *)
(***************************************************************************)
EXTENDS CopyRowReader, FiniteSetTheorems, SequenceTheorems, WellFoundedInduction,
        NaturalsInduction, TLAPS

(* The cursors never pass the bytes they stand for: what makes every byte the
   parser takes a byte of the input.                                          *)
Cursors == consumed <= buffered /\ buffered <= Len(input)

TypeInv == TypeOK /\ Cursors

-----------------------------------------------------------------------------
(* What the verdict operators can answer, and what "ok" means. *)
LEMMA LayoutVerdict ==
  \A raw, n : InspectFieldLayout(raw, n) \in
    {"ok", "CopyFieldCountLimitExceeded", "MalformedCopyTerminator", "MalformedCopyEscape"}
BY DEF InspectFieldLayout

LEMMA ByteVerdict ==
  /\ NextByteFault \in RowErrors \cup {"ok"}
  /\ NextByteFault # "ScanRowCountOverflow"
  /\ NextByteFault = "ok" /\ TypeOK =>
       /\ consumed < U64Max
       /\ WithinBytes(scan, consumed + 1)
       /\ WithinBytes(op, consumed + 1)
BY ReaderAssumption DEF NextByteFault, RowErrors, TypeOK

LEMMA RowVerdict ==
  /\ RowCountFault \in RowErrors \cup {"ok"}
  /\ RowCountFault = "ok" =>
       /\ scan.counted # U64Max
       /\ op.counted # U64Max
       /\ WithinRows(scan)
       /\ WithinRows(op)
BY DEF RowCountFault, RowErrors

LEMMA CountRowType ==
  ASSUME NEW b \in [rows : Limit, bytes : Limit, start : Nat, counted : 0 .. U64Max],
         b.counted # U64Max
  PROVE  /\ CountRow(b) \in [rows : Limit, bytes : Limit, start : Nat, counted : 0 .. U64Max]
         /\ CountRow(b).counted = b.counted + 1
         /\ CountRow(b).rows = b.rows
         /\ CountRow(b).bytes = b.bytes
         /\ CountRow(b).start = b.start
<1>1. U64Max \in Nat
  BY ReaderAssumption
<1>2. b.counted + 1 \in 0 .. U64Max
  BY <1>1
<1> QED
  BY <1>2 DEF CountRow

LEMMA CountedVerdict == CountedRowFaults \subseteq RowErrors \ {"ScanRowCountOverflow"}
BY LayoutVerdict DEF CountedRowFaults, RowErrors

-----------------------------------------------------------------------------
LEMMA TypeInvInit == Init => TypeInv
<1> SUFFICES ASSUME Init PROVE TypeInv
  OBVIOUS
<1>1. PICK l \in ReaderLimits : scan = NewBudget(l, 0)
  BY DEF Init
<1>2. scan \in [rows : Limit, bytes : Limit, start : Nat, counted : 0 .. U64Max]
  BY <1>1, ReaderAssumption DEF NewBudget, ScanLimit
<1>3. op \in [rows : Limit, bytes : Limit, start : Nat, counted : 0 .. U64Max]
  BY ReaderAssumption DEF Init, NewBudget, NoLimits, Limit
<1>4. input \in Seq(Byte) /\ Len(input) \in Nat
  BY ReaderAssumption DEF Init
<1>5. U64Max \in Nat /\ U64Max >= 1
  BY ReaderAssumption
<1>6. exposed \in Seq([number : 1 .. U64Max, raw : Seq(Byte), stop : 0 .. U64Max])
  BY DEF Init
<1>7. rawRow \in Seq(Byte) /\ outcomes \in Seq(Outcome)
  BY DEF Init
<1>8. Cursors
  BY <1>4 DEF Init, Cursors
<1>9. /\ input \in Inputs /\ limits \in StructuralLimits /\ finished \in BOOLEAN
      /\ pc \in Reading \cup {"idle", "begin", "line", "eof", "lent"}
      /\ call \in {"next_row", "find_first"}
  BY DEF Init
<1>10. buffered \in Nat /\ consumed \in 0 .. U64Max /\ nextRow \in 1 .. U64Max
  BY <1>5 DEF Init
<1> QED
  BY <1>2, <1>3, <1>6, <1>7, <1>8, <1>9, <1>10 DEF TypeInv, TypeOK

LEMMA TypeInvStep == TypeInv /\ [Next]_vars => TypeInv'
<1> USE ReaderAssumption DEF TypeInv, TypeOK, Cursors
<1> SUFFICES ASSUME TypeInv, [Next]_vars PROVE TypeInv'
  OBVIOUS
<1>in. input \in Seq(Byte)
  OBVIOUS
<1>byte. ASSUME TakesByte PROVE NextByte \in Byte /\ consumed + 1 <= buffered
  BY <1>in, <1>byte DEF TakesByte, NextByte
<1>count. ASSUME RowCountFault = "ok"
          PROVE  /\ CountRow(scan) \in [rows : Limit, bytes : Limit, start : Nat, counted : 0 .. U64Max]
                 /\ CountRow(op) \in [rows : Limit, bytes : Limit, start : Nat, counted : 0 .. U64Max]
  BY <1>count, RowVerdict, CountRowType
<1>ret. ASSUME NEW o \in Outcome, Return(o)
        PROVE  outcomes' \in Seq(Outcome) /\ pc' \in Reading \cup {"idle", "begin", "line", "eof", "lent"}
  BY <1>ret DEF Return
<1>1. CASE UNCHANGED vars
  BY <1>1 DEF vars
<1>2. ASSUME NEW l \in ScanLimit, NEW kind \in {"next_row", "find_first"}, Call(kind, l)
      PROVE  TypeInv'
  BY <1>2 DEF Call, NewBudget, ScanLimit, Limit
<1>3. CASE NextRow
  <2>1. NoLimits \in ScanLimit
    BY DEF NoLimits, ScanLimit, Limit
  <2> QED
    BY <1>2, <1>3, <2>1 DEF NextRow
<1>4. CASE FindFirst
  BY <1>2, <1>4 DEF FindFirst
<1>5. CASE NothingMore
  BY <1>5 DEF NothingMore, Return, Outcome
<1>6. CASE StartRow
  BY <1>6 DEF StartRow, Reading
<1>7. CASE Fill
  BY <1>7, <1>in DEF Fill, Drained
<1>8. CASE SourceFails
  BY <1>8 DEF SourceFails, Return, Outcome, RowErrors
<1>9. CASE RefuseByte
  <2>1. NextByteFault \in Outcome
    BY <1>9, ByteVerdict DEF RefuseByte, Outcome
  <2> QED
    BY <1>9, <1>byte, <2>1, <1>ret DEF RefuseByte
<1>10. CASE KeepByte
  BY <1>10, <1>byte, ByteVerdict DEF KeepByte, TakeByte, Reading
<1>11. CASE RejectByte
  <2>1. PICK o \in {"CopyRowByteLimitExceeded", "CopyAllocationFailed"} : Return(o)
    BY <1>11 DEF RejectByte
  <2>2. o \in Outcome
    BY DEF Outcome, RowErrors
  <2> QED
    BY <1>11, <1>byte, <1>ret, <2>1, <2>2, ByteVerdict DEF RejectByte, TakeByte
<1>12. CASE TakeLineEnd
  BY <1>12, <1>byte, ByteVerdict DEF TakeLineEnd, TakeByte, Reading
<1>13. CASE TakePairedLineFeed
  BY <1>13, <1>byte, ByteVerdict DEF TakePairedLineFeed, TakeByte
<1>14. CASE LoneCarriageReturn
  BY <1>14 DEF LoneCarriageReturn
<1>15. CASE EndOfInput
  <2>1. CASE pc = "byte" /\ pc' = "eof" /\ UNCHANGED outcomes
    BY <1>15, <2>1 DEF EndOfInput
  <2>2. CASE Return("MalformedCopyEscape")
    BY <1>15, <2>2, <1>ret DEF EndOfInput, Outcome, RowErrors
  <2> QED
    BY <1>15, <2>1, <2>2 DEF EndOfInput
<1>16. CASE EndOfStream
  BY <1>16 DEF EndOfStream, Return, Outcome
<1>17. CASE UnendedTerminator
  BY <1>17 DEF UnendedTerminator, Return, Outcome, RowErrors
<1>18. CASE RefuseRow
  <2>1. RowCountFault \in Outcome
    BY <1>18, RowVerdict DEF RefuseRow, Outcome
  <2> QED
    BY <1>18, <2>1, <1>ret DEF RefuseRow
<1>19. CASE RejectCountedRow
  <2>1. PICK fault \in CountedRowFaults : Return(fault)
    BY <1>19 DEF RejectCountedRow
  <2>2. fault \in Outcome
    BY CountedVerdict DEF Outcome
  <2> QED
    BY <1>19, <2>1, <2>2, <1>ret, <1>count DEF RejectCountedRow, CountTheRow
<1>20. CASE LendRow
  <2>1. nextRow' \in 1 .. U64Max
    BY <1>20 DEF LendRow, RowNumberFull
  <2>2. exposed' \in Seq([number : 1 .. U64Max, raw : Seq(Byte), stop : 0 .. U64Max])
    BY <1>20 DEF LendRow
  <2> QED
    BY <1>20, <2>1, <2>2, <1>count DEF LendRow, CountTheRow, LastRow
<1>21. CASE ReturnRow
  BY <1>21 DEF ReturnRow, Return, Outcome
<1>22. CASE PredicateFalse
  BY <1>22 DEF PredicateFalse
<1>23. CASE PredicateTrue
  BY <1>23 DEF PredicateTrue, Return, Outcome
<1> QED
  BY <1>1, <1>3, <1>4, <1>5, <1>6, <1>7, <1>8, <1>9, <1>10, <1>11, <1>12, <1>13,
     <1>14, <1>15, <1>16, <1>17, <1>18, <1>19, <1>20, <1>21, <1>22, <1>23
  DEF Next, Caller, Progress

(* Every counter stays in its width: no step takes a counter past U64Max, since
   each increment is checked before it is made.                               *)
THEOREM TypeCorrect == Spec => []TypeOK
<1>1. TypeInv => TypeOK
  BY DEF TypeInv
<1> QED
  BY <1>1, TypeInvInit, TypeInvStep, PTL DEF Spec

(* Bytes are taken only after they have been buffered, and buffered only from the
   input: CopyInput and its BufReader. *)
THEOREM CursorsCorrect == Spec => []TypeInv
BY TypeInvInit, TypeInvStep, PTL DEF Spec

-----------------------------------------------------------------------------
(***************************************************************************)
(* Termination of the reader.  An error or a None can only be returned by  *)
(* a finished reader, and a finished reader never gets past the top of     *)
(* next_row_with_budget.                                                   *)
(***************************************************************************)
Stopped == \E i \in DOMAIN outcomes : outcomes[i] \in RowErrors \cup {"none"}

StopInv ==
  /\ pc \in Reading \cup {"line", "eof"} => finished
  /\ Stopped => finished /\ pc \in {"idle", "begin"}
  /\ NothingAfterTheEnd

(* What appending an outcome does to the history. *)
LEMMA ReturnAppends ==
  ASSUME TypeOK, NEW o \in Outcome, Return(o)
  PROVE  /\ DOMAIN outcomes = 1 .. Len(outcomes)
         /\ DOMAIN outcomes' = 1 .. Len(outcomes) + 1
         /\ \A i \in 1 .. Len(outcomes) : outcomes'[i] = outcomes[i]
         /\ outcomes'[Len(outcomes) + 1] = o
         /\ Len(outcomes) \in Nat
         /\ pc' = "idle"
BY DEF TypeOK, Return

(* A call that was past the top of next_row_with_budget returns: nothing had
   stopped before, so the outcome may be any.                               *)
LEMMA ReturnWhileRunning ==
  ASSUME TypeOK, StopInv, NEW o \in Outcome, Return(o), finished' = finished,
         pc \notin {"idle", "begin"},
         o \in RowErrors \cup {"none"} => finished
  PROVE  StopInv'
<1>1. ~Stopped
  BY DEF StopInv
<1>2. pc' = "idle"
  BY ReturnAppends
<1>3. Stopped' => finished'
  BY <1>1, ReturnAppends DEF Stopped
<1>4. NothingAfterTheEnd'
  BY <1>1, ReturnAppends DEF Stopped, NothingAfterTheEnd
<1> QED
  BY <1>2, <1>3, <1>4 DEF StopInv, Reading

(* A step that returns nothing and leaves `finished` alone. *)
LEMMA QuietStep ==
  ASSUME StopInv, UNCHANGED outcomes, finished' = finished,
         pc \in {"idle", "begin"} => pc' \in {"idle", "begin"},
         pc' \in Reading \cup {"line", "eof"} => pc \in Reading \cup {"line", "eof"}
  PROVE  StopInv'
<1>1. Stopped' = Stopped
  BY DEF Stopped
<1>2. NothingAfterTheEnd'
  BY DEF StopInv, NothingAfterTheEnd
<1> QED
  BY <1>1, <1>2 DEF StopInv

LEMMA StopInvStep == TypeInv /\ StopInv /\ [Next]_vars => StopInv'
<1> SUFFICES ASSUME TypeInv, StopInv, [Next]_vars PROVE StopInv'
  OBVIOUS
<1> USE DEF Reading
<1>type. TypeOK
  BY DEF TypeInv
<1>run. pc \in Reading \cup {"line", "eof"} => finished
  BY DEF StopInv
<1>1. CASE UNCHANGED vars
  BY <1>1, QuietStep DEF vars
<1>2. CASE NextRow
  BY <1>2, QuietStep DEF NextRow, Call
<1>3. CASE FindFirst
  BY <1>3, QuietStep DEF FindFirst, Call
<1>4. CASE NothingMore
  <2>1. /\ Return("none")  /\ finished' = finished  /\ finished
    BY <1>4 DEF NothingMore
  <2>2. pc' = "idle" /\ NothingAfterTheEnd'
    BY <2>1, <1>type, ReturnAppends DEF StopInv, NothingAfterTheEnd, Outcome
  <2> QED
    BY <2>1, <2>2 DEF StopInv
<1>5. CASE StartRow
  <2>1. ~Stopped
    BY <1>5 DEF StartRow, StopInv
  <2>2. ~Stopped' /\ NothingAfterTheEnd'
    BY <1>5, <2>1 DEF StartRow, Stopped, StopInv, NothingAfterTheEnd
  <2> QED
    BY <1>5, <2>2 DEF StartRow, StopInv
<1>6. CASE Fill
  BY <1>6, QuietStep DEF Fill
<1>7. CASE SourceFails
  BY <1>7, <1>type, <1>run, ReturnWhileRunning DEF SourceFails, Outcome, RowErrors
<1>8. CASE RefuseByte
  <2>1. NextByteFault \in Outcome
    BY <1>8, ByteVerdict DEF RefuseByte, Outcome
  <2> QED
    BY <1>8, <2>1, <1>type, <1>run, ReturnWhileRunning DEF RefuseByte, TakesByte
<1>9. CASE KeepByte
  BY <1>9, QuietStep DEF KeepByte, TakeByte, TakesByte
<1>10. CASE RejectByte
  <2>1. PICK o \in {"CopyRowByteLimitExceeded", "CopyAllocationFailed"} : Return(o)
    BY <1>10 DEF RejectByte
  <2>2. o \in Outcome
    BY DEF Outcome, RowErrors
  <2> QED
    BY <1>10, <2>1, <2>2, <1>type, <1>run, ReturnWhileRunning
    DEF RejectByte, TakeByte, TakesByte
<1>11. CASE TakeLineEnd
  BY <1>11, QuietStep DEF TakeLineEnd
<1>12. CASE TakePairedLineFeed
  BY <1>12, QuietStep DEF TakePairedLineFeed
<1>13. CASE LoneCarriageReturn
  BY <1>13, QuietStep DEF LoneCarriageReturn
<1>14. CASE EndOfInput
  <2>1. CASE pc = "byte" /\ pc' = "eof" /\ UNCHANGED outcomes
    BY <1>14, <2>1, QuietStep DEF EndOfInput
  <2>2. CASE pc = "escaped" /\ Return("MalformedCopyEscape")
    BY <1>14, <2>2, <1>type, <1>run, ReturnWhileRunning DEF EndOfInput, Outcome, RowErrors
  <2> QED
    BY <1>14, <2>1, <2>2 DEF EndOfInput
<1>15. CASE EndOfStream
  BY <1>15, <1>type, <1>run, ReturnWhileRunning DEF EndOfStream, EmptyEof, Outcome
<1>16. CASE UnendedTerminator
  BY <1>16, <1>type, <1>run, ReturnWhileRunning DEF UnendedTerminator, Outcome, RowErrors
<1>17. CASE RefuseRow
  <2>1. RowCountFault \in Outcome
    BY <1>17, RowVerdict DEF RefuseRow, Outcome
  <2> QED
    BY <1>17, <2>1, <1>type, <1>run, ReturnWhileRunning DEF RefuseRow, IsRow
<1>18. CASE RejectCountedRow
  <2>1. PICK fault \in CountedRowFaults : Return(fault)
    BY <1>18 DEF RejectCountedRow
  <2>2. fault \in Outcome
    BY CountedVerdict DEF Outcome
  <2> QED
    BY <1>18, <2>1, <2>2, <1>type, <1>run, ReturnWhileRunning
    DEF RejectCountedRow, CountTheRow, IsRow
<1>19. CASE LendRow
  <2>1. ~Stopped
    BY <1>19 DEF LendRow, CountTheRow, IsRow, StopInv
  <2>2. ~Stopped' /\ NothingAfterTheEnd'
    BY <1>19, <2>1 DEF LendRow, Stopped, StopInv, NothingAfterTheEnd
  <2> QED
    BY <1>19, <2>2 DEF LendRow, StopInv
<1>20. CASE ReturnRow
  BY <1>20, <1>type, ReturnWhileRunning DEF ReturnRow, Outcome, RowErrors
<1>21. CASE PredicateFalse
  <2>1. ~Stopped
    BY <1>21 DEF PredicateFalse, StopInv
  <2> QED
    BY <1>21, <2>1 DEF PredicateFalse, Stopped, StopInv, NothingAfterTheEnd
<1>22. CASE PredicateTrue
  <2>1. PICK o \in {"match", "MatchAllocationFailed"} : Return(o)
    BY <1>22 DEF PredicateTrue
  <2>2. o \in Outcome /\ o \notin RowErrors \cup {"none"}
    BY DEF Outcome, RowErrors
  <2> QED
    BY <1>22, <2>1, <2>2, <1>type, ReturnWhileRunning DEF PredicateTrue
<1> QED
  BY <1>1, <1>2, <1>3, <1>4, <1>5, <1>6, <1>7, <1>8, <1>9, <1>10, <1>11, <1>12, <1>13,
     <1>14, <1>15, <1>16, <1>17, <1>18, <1>19, <1>20, <1>21, <1>22
  DEF Next, Caller, Progress

LEMMA StopInvInit == Init => StopInv
BY DEF Init, StopInv, Stopped, NothingAfterTheEnd, Reading

(* After an error of a row operation, or after a clean end, every later call
   returns Ok(None).                                                        *)
THEOREM TerminalAnswers == Spec => []NothingAfterTheEnd
<1>1. StopInv => NothingAfterTheEnd
  BY DEF StopInv
<1> QED
  BY <1>1, TypeInvInit, TypeInvStep, StopInvInit, StopInvStep, PTL DEF Spec

(* Such a reader takes no byte, reads no source and lends no row. *)
THEOREM TerminalReaderIsInertCorrect == Spec => TerminalReaderIsInert
<1>1. StopInv /\ [Next]_vars
        => [Stopped => UNCHANGED <<buffered, consumed, scan, nextRow, exposed>>]_vars
  <2> SUFFICES ASSUME StopInv, Next, Stopped
               PROVE  UNCHANGED <<buffered, consumed, scan, nextRow, exposed>>
    OBVIOUS
  <2>1. finished /\ pc \in {"idle", "begin"}
    BY DEF StopInv
  <2> QED
    BY <2>1 DEF Next, Caller, Progress, NextRow, FindFirst, Call, NothingMore, StartRow,
       Fill, SourceFails, Reading, RefuseByte, KeepByte, RejectByte, TakeLineEnd, TakeByte,
       TakesByte, TakePairedLineFeed, LoneCarriageReturn, EndOfInput, EndOfStream, EmptyEof,
       UnendedTerminator, RefuseRow, IsRow, RejectCountedRow, CountTheRow, LendRow,
       ReturnRow, PredicateFalse, PredicateTrue
<1> QED
  BY <1>1, TypeInvInit, TypeInvStep, StopInvInit, StopInvStep, PTL
  DEF Spec, TerminalReaderIsInert, Stopped

-----------------------------------------------------------------------------
(***************************************************************************)
(* Accounting.  Until the reader stops, the lent rows, the counts of both  *)
(* budgets and the row number move together, and the rows of the running   *)
(* call are the last op.counted ones.                                      *)
(***************************************************************************)
InRows(b) == b.rows # Unlimited => b.counted <= b.rows

NoCountOverflow == \A i \in DOMAIN outcomes : outcomes[i] # "ScanRowCountOverflow"

(* The record being read has taken at least one byte since the call began. *)
TookAByte ==
  \/ pc \in {"escaped", "cr", "line"}
  \/ pc \in {"byte", "eof"} /\ rawRow # << >>

RunningAccounts ==
  /\ scan.start = 0
  /\ scan.counted = Len(exposed)
  /\ op.counted <= Len(exposed)
  /\ \A k \in DOMAIN exposed :
       /\ exposed[k].stop <= consumed
       /\ exposed[k].stop > op.start <=> k > Len(exposed) - op.counted
  /\ InRows(scan) /\ InRows(op)
  /\ WithinBytes(scan, consumed) /\ WithinBytes(op, consumed)
  /\ pc \in Reading \cup {"line", "eof"} \/ ~finished => nextRow = Len(exposed) + 1
  /\ TookAByte => consumed > op.start

AccountInv == /\ op.start <= consumed
              /\ ~Stopped => RunningAccounts
              /\ NoCountOverflow

(* An element of the history is a lent row, at a position of the sequence. *)
LEMMA ExposedElement ==
  ASSUME TypeOK, NEW k \in DOMAIN exposed
  PROVE  exposed[k].stop \in Nat /\ k \in 1 .. Len(exposed) /\ Len(exposed) \in Nat
<1> DEFINE LentRow == [number : 1 .. U64Max, raw : Seq(Byte), stop : 0 .. U64Max]
<1>1. exposed \in Seq(LentRow)
  BY DEF TypeOK
<1>2. \A r \in LentRow : r.stop \in 0 .. U64Max
  OBVIOUS
<1>3. U64Max \in Nat
  BY ReaderAssumption
<1> HIDE DEF LentRow
<1>4. k \in 1 .. Len(exposed) /\ Len(exposed) \in Nat /\ exposed[k] \in LentRow
  BY <1>1
<1> QED
  BY <1>2, <1>3, <1>4

LEMMA AccountInvInit == Init => AccountInv
<1> SUFFICES ASSUME Init PROVE AccountInv
  OBVIOUS
<1>1. PICK l \in ReaderLimits : scan = NewBudget(l, 0)
  BY DEF Init
<1>2. l.rows \in Limit /\ l.bytes \in Limit
  BY ReaderAssumption DEF ScanLimit
<1>3. InRows(scan) /\ WithinBytes(scan, 0) /\ scan.start = 0 /\ scan.counted = 0
  BY <1>1, <1>2, ReaderAssumption DEF NewBudget, InRows, WithinBytes, Limit
<1>4. InRows(op) /\ WithinBytes(op, 0) /\ op.start = 0 /\ op.counted = 0
  BY DEF Init, NewBudget, NoLimits, InRows, WithinBytes
<1> QED
  BY <1>3, <1>4 DEF Init, AccountInv, RunningAccounts, NoCountOverflow, TookAByte, Reading

(* A call that ends in an error or in None has stopped the reader. *)
LEMMA ReturnStops ==
  ASSUME TypeOK, AccountInv, NEW o \in Outcome, Return(o), o \in RowErrors \cup {"none"},
         o # "ScanRowCountOverflow", op'.start <= consumed'
  PROVE  AccountInv'
<1>1. Stopped'
  BY ReturnAppends DEF Stopped
<1>2. NoCountOverflow'
  BY ReturnAppends DEF AccountInv, NoCountOverflow
<1> QED
  BY <1>1, <1>2 DEF AccountInv

(* A call that hands over a row changes nothing but the history. *)
LEMMA ReturnRowAccounts ==
  ASSUME TypeOK, AccountInv, NEW o \in {"row", "match", "MatchAllocationFailed"}, Return(o),
         UNCHANGED <<consumed, scan, op, rawRow, nextRow, finished, exposed>>
  PROVE  AccountInv'
<1>1. o \in Outcome /\ o \notin RowErrors
  BY DEF Outcome, RowErrors
<1>2. ~Stopped' => ~Stopped
  BY <1>1, ReturnAppends DEF Stopped
<1>3. NoCountOverflow'
  BY <1>1, ReturnAppends DEF AccountInv, NoCountOverflow
<1>4. RunningAccounts => RunningAccounts'
  BY DEF RunningAccounts, InRows, WithinBytes, Return, Reading, TookAByte
<1> QED
  BY <1>2, <1>3, <1>4 DEF AccountInv

(* A step inside a record: the counts stay, and the bytes taken, if any, have
   been checked against both budgets.                                        *)
LEMMA InsideRecord ==
  ASSUME TypeOK, StopInv, AccountInv, pc \in Reading, UNCHANGED <<outcomes, scan, op, nextRow, exposed>>,
         pc' \in Reading \cup {"line", "eof"}, consumed' \in Nat, consumed' >= consumed,
         WithinBytes(scan, consumed'), WithinBytes(op, consumed'),
         TookAByte' => TookAByte \/ consumed' > consumed
  PROVE  AccountInv'
<1>1. Stopped' = Stopped /\ ~Stopped
  BY DEF Stopped, StopInv, Reading
<1>2. RunningAccounts /\ op.start <= consumed /\ NoCountOverflow
  BY <1>1 DEF AccountInv
<1>3. NoCountOverflow' /\ op'.start <= consumed'
  BY <1>2 DEF NoCountOverflow, TypeOK
<1>4. TookAByte' => consumed' > op.start
  BY <1>2 DEF RunningAccounts, TypeOK
<1>5. ASSUME NEW k \in DOMAIN exposed PROVE exposed[k].stop <= consumed'
  <2>1. exposed[k].stop \in Nat /\ consumed \in Nat
    BY ExposedElement, ReaderAssumption DEF TypeOK
  <2>2. exposed[k].stop <= consumed
    BY <1>2 DEF RunningAccounts
  <2> QED
    BY <2>1, <2>2
<1>6. RunningAccounts'
  BY <1>2, <1>4, <1>5 DEF RunningAccounts, InRows, WithinBytes
<1> QED
  BY <1>3, <1>6 DEF AccountInv

(* A call starts: no row has been lent to it yet. *)
LEMMA CallAccounts ==
  ASSUME TypeInv, AccountInv, NEW l \in ScanLimit, NEW kind, Call(kind, l)
  PROVE  AccountInv'
<1> USE ReaderAssumption DEF TypeInv, TypeOK, Call
<1>1. /\ op'.start = consumed /\ op'.counted = 0
      /\ InRows(op') /\ WithinBytes(op', consumed)
  BY DEF NewBudget, InRows, WithinBytes, ScanLimit, Limit
<1>2. Stopped' = Stopped /\ NoCountOverflow' = NoCountOverflow
  BY DEF Stopped, NoCountOverflow
<1>3. ASSUME RunningAccounts, NEW k \in DOMAIN exposed
      PROVE  /\ exposed[k].stop <= consumed
             /\ exposed[k].stop > op'.start <=> k > Len(exposed) - op'.counted
  <2> HIDE DEF TypeInv, TypeOK, Call
  <2>0. consumed \in Nat /\ Len(exposed) \in Nat
    BY ExposedElement DEF TypeInv, TypeOK
  <2>1. exposed[k].stop \in Nat /\ k \in Nat /\ k <= Len(exposed)
    BY ExposedElement DEF TypeInv
  <2>2. exposed[k].stop <= consumed
    BY <1>3 DEF RunningAccounts
  <2>3. ~(exposed[k].stop > op'.start) /\ ~(k > Len(exposed) - op'.counted)
    BY <1>1, <2>0, <2>1, <2>2
  <2> QED
    BY <2>2, <2>3
<1>4. ~TookAByte'
  BY DEF TookAByte
<1>5. RunningAccounts => RunningAccounts'
  BY <1>1, <1>3, <1>4 DEF RunningAccounts, Reading, InRows, WithinBytes
<1> QED
  BY <1>1, <1>2, <1>5 DEF AccountInv

(* The row is counted in both budgets, numbered and lent. *)
LEMMA LendAccounts ==
  ASSUME TypeInv, StopInv, AccountInv, LendRow
  PROVE  AccountInv'
<1> USE ReaderAssumption DEF TypeInv, TypeOK
<1>1. ~Stopped /\ Stopped' = Stopped /\ NoCountOverflow' = NoCountOverflow
  BY DEF LendRow, CountTheRow, IsRow, StopInv, Stopped, NoCountOverflow
<1>2. RunningAccounts /\ op.start <= consumed
  BY <1>1 DEF AccountInv
<1>3. /\ scan' = CountRow(scan) /\ op' = CountRow(op) /\ RowCountFault = "ok"
      /\ WithinRows(scan) /\ WithinRows(op)
      /\ scan.counted # U64Max /\ op.counted # U64Max
  BY RowVerdict DEF LendRow, CountTheRow
<1>4. /\ scan'.counted = scan.counted + 1 /\ scan'.start = scan.start
      /\ scan'.rows = scan.rows /\ scan'.bytes = scan.bytes
      /\ op'.counted = op.counted + 1 /\ op'.start = op.start
      /\ op'.rows = op.rows /\ op'.bytes = op.bytes
  BY <1>3, CountRowType
<1>5. InRows(scan)' /\ InRows(op)'
  BY <1>3, <1>4 DEF WithinRows, InRows
<1>6. WithinBytes(scan, consumed)' /\ WithinBytes(op, consumed)'
  BY <1>2, <1>4 DEF RunningAccounts, WithinBytes, LendRow
<1>7. consumed > op.start
  BY <1>2 DEF LendRow, CountTheRow, IsRow, EmptyEof, RunningAccounts, TookAByte
<1>8. /\ Len(exposed') = Len(exposed) + 1
      /\ \A k \in 1 .. Len(exposed) : exposed'[k] = exposed[k]
      /\ exposed'[Len(exposed) + 1].stop = consumed
      /\ consumed' = consumed
  BY DEF LendRow
<1>9. ASSUME NEW k \in DOMAIN exposed'
      PROVE  /\ exposed'[k].stop <= consumed'
             /\ exposed'[k].stop > op'.start <=> k > Len(exposed') - op'.counted
  <2>1. k \in 1 .. Len(exposed) + 1
    BY <1>8 DEF LendRow
  <2>nat. /\ Len(exposed) \in Nat /\ op.counted \in Nat /\ op.start \in Nat
          /\ consumed \in Nat /\ op.counted <= Len(exposed)
    BY <1>2 DEF RunningAccounts
  <2>len. Len(exposed') = Len(exposed) + 1 /\ op'.counted = op.counted + 1
    BY <1>4, <1>8
  <2> HIDE DEF TypeInv, TypeOK
  <2>2. CASE k = Len(exposed) + 1
    <3>1. exposed'[k].stop = consumed
      BY <1>8, <2>2
    <3>2. k > Len(exposed') - op'.counted
      BY <1>4, <1>8, <2>2, <2>nat
    <3> QED
      BY <1>4, <1>7, <1>8, <2>nat, <3>1, <3>2
  <2>3. CASE k \in 1 .. Len(exposed)
    <3>1. k \in DOMAIN exposed
      BY <2>3 DEF TypeInv, TypeOK
    <3>2. /\ exposed[k].stop <= consumed
          /\ exposed[k].stop > op.start <=> k > Len(exposed) - op.counted
      BY <1>2, <3>1 DEF RunningAccounts
    <3>3. exposed'[k].stop = exposed[k].stop
      BY <1>8, <2>3
    <3>4. Len(exposed') - op'.counted = Len(exposed) - op.counted
      BY <2>nat, <2>len
    <3> QED
      BY <1>4, <1>8, <3>2, <3>3, <3>4
  <2> QED
    BY <2>1, <2>2, <2>3
<1>10. ~finished' => nextRow' = Len(exposed') + 1
  BY <1>2, <1>8 DEF LendRow, LastRow, CountTheRow, IsRow, RunningAccounts
<1>11. ~TookAByte' /\ pc' = "lent"
  BY DEF LendRow, TookAByte
<1>12. scan'.start = 0 /\ scan'.counted = Len(exposed') /\ op'.counted <= Len(exposed')
  BY <1>2, <1>4, <1>8 DEF RunningAccounts
<1>13. RunningAccounts'
  BY <1>5, <1>6, <1>9, <1>10, <1>11, <1>12 DEF RunningAccounts, Reading
<1> QED
  BY <1>1, <1>2, <1>4, <1>8, <1>13 DEF AccountInv

LEMMA AccountInvStep == TypeInv /\ StopInv /\ AccountInv /\ [Next]_vars => AccountInv'
<1> SUFFICES ASSUME TypeInv, StopInv, AccountInv, [Next]_vars PROVE AccountInv'
  OBVIOUS
<1>type. TypeOK /\ consumed \in Nat /\ op.start \in Nat /\ op.start <= consumed
  BY ReaderAssumption DEF TypeInv, TypeOK, AccountInv
<1>none. "none" \in Outcome /\ "none" # "ScanRowCountOverflow"
  BY DEF Outcome
<1>errors. RowErrors \subseteq Outcome
  BY DEF Outcome
<1>running. ASSUME pc \notin {"idle", "begin"} PROVE ~Stopped /\ RunningAccounts
  BY <1>running DEF StopInv, AccountInv
<1>within. ASSUME pc \in Reading PROVE WithinBytes(scan, consumed) /\ WithinBytes(op, consumed)
  BY <1>within, <1>running DEF Reading, RunningAccounts
<1>1. CASE UNCHANGED vars
  BY <1>1 DEF vars, AccountInv, Stopped, NoCountOverflow, RunningAccounts, InRows, WithinBytes,
     TookAByte
<1>2. CASE NextRow
  <2>1. NoLimits \in ScanLimit
    BY DEF NoLimits, ScanLimit, Limit
  <2> QED
    BY <1>2, <2>1, CallAccounts DEF NextRow
<1>3. CASE FindFirst
  BY <1>3, CallAccounts, ReaderAssumption DEF FindFirst
<1>4. CASE NothingMore
  BY <1>4, <1>type, <1>none, ReturnStops DEF NothingMore
<1>5. CASE StartRow
  <2>1. ~TookAByte' /\ UNCHANGED <<outcomes, scan, op, nextRow, exposed, consumed>>
        /\ ~finished
    BY <1>5 DEF StartRow, TookAByte
  <2> QED
    BY <2>1 DEF AccountInv, Stopped, NoCountOverflow, RunningAccounts, InRows, WithinBytes
<1>6. CASE Fill
  <2>1. TookAByte' = TookAByte
    BY <1>6 DEF Fill, TookAByte
  <2> QED
    BY <1>6, <2>1, <1>type, <1>within, InsideRecord DEF Fill
<1>7. CASE SourceFails
  BY <1>7, <1>type, <1>errors, ReturnStops DEF SourceFails, RowErrors
<1>8. CASE RefuseByte
  <2>1. NextByteFault \in RowErrors \ {"ScanRowCountOverflow"}
    BY <1>8, ByteVerdict DEF RefuseByte
  <2>2. consumed' >= consumed /\ consumed' \in Nat /\ op' = op
    BY <1>8, <1>type DEF RefuseByte
  <2> QED
    BY <1>8, <2>1, <2>2, <1>type, <1>errors, ReturnStops DEF RefuseByte
<1>9. ASSUME TakeByte, UNCHANGED <<outcomes, scan, op, nextRow, exposed>>,
             pc' \in Reading \cup {"line", "eof"}
      PROVE  AccountInv'
  <2>1. consumed' = consumed + 1
    BY <1>9 DEF TakeByte
  <2>2. WithinBytes(scan, consumed') /\ WithinBytes(op, consumed')
    BY <1>9, <1>type, <2>1, ByteVerdict DEF TakeByte
  <2> QED
    BY <1>9, <2>1, <2>2, <1>type, InsideRecord DEF TakeByte, TakesByte
<1>10. CASE KeepByte
  BY <1>9, <1>10 DEF KeepByte, Reading
<1>11. CASE RejectByte
  <2>1. PICK o \in {"CopyRowByteLimitExceeded", "CopyAllocationFailed"} : Return(o)
    BY <1>11 DEF RejectByte
  <2>2. o \in RowErrors \ {"ScanRowCountOverflow"}
    BY DEF RowErrors
  <2>3. op'.start <= consumed'
    BY <1>11, <1>type DEF RejectByte, TakeByte
  <2> QED
    BY <2>1, <2>2, <2>3, <1>type, <1>errors, ReturnStops
<1>12. CASE TakeLineEnd
  BY <1>9, <1>12 DEF TakeLineEnd, Reading
<1>13. CASE TakePairedLineFeed
  BY <1>9, <1>13 DEF TakePairedLineFeed
<1>14. CASE LoneCarriageReturn
  <2>1. TookAByte
    BY <1>14 DEF LoneCarriageReturn, TookAByte
  <2>2. pc \in Reading
    BY <1>14 DEF LoneCarriageReturn, Reading
  <2> QED
    BY <1>14, <2>1, <2>2, <1>type, <1>within, InsideRecord DEF LoneCarriageReturn
<1>15. CASE EndOfInput
  <2>1. CASE pc = "byte" /\ pc' = "eof" /\ UNCHANGED outcomes
    <3>1. TookAByte' => TookAByte
      BY <1>15, <2>1 DEF EndOfInput, TookAByte
    <3>2. pc \in Reading
      BY <2>1 DEF Reading
    <3> QED
      BY <1>15, <2>1, <3>1, <3>2, <1>type, <1>within, InsideRecord DEF EndOfInput
  <2>2. CASE Return("MalformedCopyEscape")
    BY <1>15, <2>2, <1>type, <1>errors, ReturnStops DEF EndOfInput, RowErrors
  <2> QED
    BY <1>15, <2>1, <2>2 DEF EndOfInput
<1>16. CASE EndOfStream
  BY <1>16, <1>type, <1>none, ReturnStops DEF EndOfStream
<1>17. CASE UnendedTerminator
  BY <1>17, <1>type, <1>errors, ReturnStops DEF UnendedTerminator, RowErrors
<1>18. CASE RefuseRow
  <2>1. RunningAccounts /\ pc \in {"line", "eof"}
    BY <1>18, <1>running DEF RefuseRow, IsRow
  <2>2. scan.counted < U64Max /\ op.counted < U64Max
    <3>1. nextRow = Len(exposed) + 1
      BY <2>1 DEF RunningAccounts
    <3>2. nextRow \in 1 .. U64Max /\ U64Max \in Nat /\ Len(exposed) \in Nat
          /\ scan.counted \in Nat /\ op.counted \in Nat
      BY ReaderAssumption DEF TypeInv, TypeOK
    <3> QED
      BY <2>1, <3>1, <3>2 DEF RunningAccounts
  <2>3. U64Max \in Nat /\ scan.counted \in Nat /\ op.counted \in Nat
    BY <1>type, ReaderAssumption DEF TypeOK
  <2>4. RowCountFault # "ScanRowCountOverflow"
    BY <2>2, <2>3 DEF RowCountFault
  <2>5. RowCountFault \in RowErrors
    BY <1>18, RowVerdict DEF RefuseRow
  <2> QED
    BY <1>18, <2>4, <2>5, <1>type, <1>errors, ReturnStops DEF RefuseRow
<1>19. CASE RejectCountedRow
  <2>1. PICK fault \in CountedRowFaults : Return(fault)
    BY <1>19 DEF RejectCountedRow
  <2>2. fault \in RowErrors \ {"ScanRowCountOverflow"}
    BY CountedVerdict
  <2>3. op'.start = op.start /\ consumed' = consumed
    BY <1>19, <1>type, RowVerdict, CountRowType DEF RejectCountedRow, CountTheRow, TypeOK
  <2> QED
    BY <2>1, <2>2, <2>3, <1>type, <1>errors, ReturnStops
<1>20. CASE LendRow
  BY <1>20, LendAccounts
<1>21. CASE ReturnRow
  BY <1>21, <1>type, ReturnRowAccounts DEF ReturnRow
<1>22. CASE PredicateFalse
  <2>1. ~TookAByte' /\ UNCHANGED <<outcomes, scan, op, nextRow, exposed, consumed, finished>>
    BY <1>22 DEF PredicateFalse, TookAByte
  <2>2. pc' = "begin"
    BY <1>22 DEF PredicateFalse
  <2> QED
    BY <2>1, <2>2 DEF AccountInv, Stopped, NoCountOverflow, RunningAccounts, InRows,
       WithinBytes, Reading
<1>23. CASE PredicateTrue
  BY <1>23, <1>type, ReturnRowAccounts DEF PredicateTrue
<1> QED
  BY <1>1, <1>2, <1>3, <1>4, <1>5, <1>6, <1>7, <1>8, <1>10, <1>11, <1>12, <1>13,
     <1>14, <1>15, <1>16, <1>17, <1>18, <1>19, <1>20, <1>21, <1>22, <1>23
  DEF Next, Caller, Progress

(* The rows lent to the running call are as many as its budget has counted. *)
LEMMA LentToCallCount ==
  ASSUME TypeInv, RunningAccounts
  PROVE  Cardinality(LentToCall) = op.counted
<1>1. /\ Len(exposed) \in Nat /\ op.counted \in Nat /\ op.counted <= Len(exposed)
      /\ DOMAIN exposed = 1 .. Len(exposed)
  BY ReaderAssumption DEF TypeInv, TypeOK, RunningAccounts
<1>2. LentToCall = (Len(exposed) - op.counted + 1) .. Len(exposed)
  BY <1>1 DEF LentToCall, RunningAccounts
<1> DEFINE a == Len(exposed) - op.counted + 1
           b == Len(exposed)
<1>3. a \in Int /\ b \in Int /\ (IF a > b THEN 0 ELSE b - a + 1) = op.counted
  BY <1>1
<1>4. Cardinality(a .. b) = op.counted
  <2> HIDE DEF a, b
  <2> QED
    BY <1>3, FS_Interval
<1> QED
  BY <1>2, <1>4

(* No row is lent beyond either budget: a row that crosses the reader's limits
   or the limits of the running find_first never reaches the caller.           *)
THEOREM BudgetsBoundLentRows == Spec => []LentRowsAreWithinBudgets
<1>1. TypeInv /\ StopInv /\ AccountInv => LentRowsAreWithinBudgets
  <2> SUFFICES ASSUME TypeInv, StopInv, AccountInv, pc = "lent"
               PROVE  /\ scan.rows # Unlimited  => Len(exposed) <= scan.rows
                      /\ scan.bytes # Unlimited => consumed <= scan.bytes
                      /\ op.rows # Unlimited    => Cardinality(LentToCall) <= op.rows
                      /\ op.bytes # Unlimited   => consumed - op.start <= op.bytes
    BY DEF LentRowsAreWithinBudgets
  <2>1. RunningAccounts
    BY DEF StopInv, AccountInv
  <2>2. consumed - scan.start = consumed
    BY <2>1, ReaderAssumption DEF RunningAccounts, TypeInv, TypeOK
  <2> QED
    BY <2>1, <2>2, LentToCallCount DEF RunningAccounts, InRows, WithinBytes
<1> QED
  BY <1>1, TypeInvInit, TypeInvStep, StopInvInit, StopInvStep, AccountInvInit, AccountInvStep,
     PTL DEF Spec

(* Every lent row is counted once in each budget, and ScanRowCountOverflow is
   unreachable: the row number runs out first.                                *)
THEOREM RowCountsAreExact == Spec => []RowsAreCountedOnce
<1>1. TypeInv /\ StopInv /\ AccountInv => RowsAreCountedOnce
  <2> SUFFICES ASSUME TypeInv, StopInv, AccountInv PROVE RowsAreCountedOnce
    OBVIOUS
  <2>1. pc = "lent" => RunningAccounts
    BY DEF StopInv, AccountInv
  <2> QED
    BY <2>1, LentToCallCount DEF RowsAreCountedOnce, RunningAccounts, AccountInv, NoCountOverflow
<1> QED
  BY <1>1, TypeInvInit, TypeInvStep, StopInvInit, StopInvStep, AccountInvInit, AccountInvStep,
     PTL DEF Spec

-----------------------------------------------------------------------------
(***************************************************************************)
(* Scan-limit errors.  Each is raised while the account above still holds, *)
(* so what a budget has counted is what was taken and lent.                *)
(***************************************************************************)
LEMMA OtherReturn ==
  ASSUME TypeOK, NEW o \in Outcome, Return(o),
         o \notin {"ScanDecompressedByteLimitExceeded", "ScanRowLimitExceeded"}
  PROVE  LimitErrorsAreExact'
<1>1. outcomes'[Len(outcomes')] = o
  BY ReturnAppends DEF TypeOK, Return
<1> QED
  BY <1>1 DEF LimitErrorsAreExact

LEMMA NotIdle == pc' # "idle" => LimitErrorsAreExact'
BY DEF LimitErrorsAreExact

(* The one byte too many has been taken. *)
LEMMA RefusedByteIsExact ==
  ASSUME TypeInv, RunningAccounts, op.start <= consumed, RefuseByte
  PROVE  LimitErrorsAreExact'
<1>1. Return(NextByteFault) /\ NextByteFault \in Outcome /\ UNCHANGED <<scan, op>>
      /\ consumed' = IF consumed = U64Max THEN consumed ELSE consumed + 1
  BY ByteVerdict DEF RefuseByte, Outcome
<1>2. CASE NextByteFault # "ScanDecompressedByteLimitExceeded"
  <2>1. NextByteFault # "ScanRowLimitExceeded"
    BY DEF NextByteFault
  <2> QED
    BY <1>1, <1>2, <2>1, OtherReturn DEF TypeInv
<1>3. CASE NextByteFault = "ScanDecompressedByteLimitExceeded"
  <2>1. /\ consumed < U64Max
        /\ ~(WithinBytes(scan, consumed + 1) /\ WithinBytes(op, consumed + 1))
    BY <1>3 DEF NextByteFault
  <2>2. /\ consumed \in Nat /\ U64Max \in Nat /\ op.start \in Nat /\ scan.start = 0
        /\ scan.bytes \in Limit /\ op.bytes \in Limit
    BY ReaderAssumption DEF TypeInv, TypeOK, RunningAccounts
  <2>3. consumed' = consumed + 1
    BY <1>1, <2>1, <2>2
  <2>4. WithinBytes(scan, consumed) /\ WithinBytes(op, consumed)
    BY DEF RunningAccounts
  <2>5. \/ scan.bytes # Unlimited /\ consumed + 1 = scan.bytes + 1
        \/ op.bytes # Unlimited /\ consumed + 1 = op.start + op.bytes + 1
    BY <2>1, <2>2, <2>4 DEF WithinBytes, Limit
  <2>6. outcomes'[Len(outcomes')] = "ScanDecompressedByteLimitExceeded"
    BY <1>1, <1>3, ReturnAppends DEF TypeInv, TypeOK, Return
  <2> QED
    BY <1>1, <2>3, <2>5, <2>6 DEF LimitErrorsAreExact
<1> QED
  BY <1>2, <1>3

(* The last row a budget permits has been lent. *)
LEMMA RefusedRowIsExact ==
  ASSUME TypeInv, RunningAccounts, RefuseRow
  PROVE  LimitErrorsAreExact'
<1>1. /\ Return(RowCountFault) /\ RowCountFault \in Outcome /\ UNCHANGED <<scan, op, exposed>>
      /\ RowCountFault # "ok"
  BY RowVerdict DEF RefuseRow, Outcome
<1>2. CASE RowCountFault # "ScanRowLimitExceeded"
  <2>1. RowCountFault # "ScanDecompressedByteLimitExceeded"
    BY DEF RowCountFault
  <2> QED
    BY <1>1, <1>2, <2>1, OtherReturn DEF TypeInv
<1>3. CASE RowCountFault = "ScanRowLimitExceeded"
  <2>1. ~(WithinRows(scan) /\ WithinRows(op))
    BY <1>3 DEF RowCountFault
  <2>2. /\ scan.counted \in Nat /\ op.counted \in Nat /\ scan.rows \in Limit /\ op.rows \in Limit
        /\ InRows(scan) /\ InRows(op) /\ scan.counted = Len(exposed)
    BY ReaderAssumption DEF TypeInv, TypeOK, RunningAccounts
  <2>3. \/ scan.rows # Unlimited /\ scan.counted = scan.rows
        \/ op.rows # Unlimited /\ op.counted = op.rows
    BY <2>1, <2>2 DEF WithinRows, InRows, Limit
  <2>4. Cardinality(LentToCall)' = op.counted
    <3>1. LentToCall' = LentToCall
      BY <1>1 DEF LentToCall
    <3> QED
      BY <3>1, LentToCallCount
  <2>5. outcomes'[Len(outcomes')] = "ScanRowLimitExceeded"
    BY <1>1, <1>3, ReturnAppends DEF TypeInv, TypeOK, Return
  <2> QED
    BY <1>1, <2>2, <2>3, <2>4, <2>5 DEF LimitErrorsAreExact
<1> QED
  BY <1>2, <1>3

LEMMA LimitsStep ==
  TypeInv /\ StopInv /\ AccountInv /\ LimitErrorsAreExact /\ [Next]_vars => LimitErrorsAreExact'
<1> SUFFICES ASSUME TypeInv, StopInv, AccountInv, LimitErrorsAreExact, [Next]_vars
             PROVE  LimitErrorsAreExact'
  OBVIOUS
<1>type. TypeOK
  BY DEF TypeInv
<1>running. ASSUME pc \notin {"idle", "begin"} PROVE RunningAccounts /\ op.start <= consumed
  BY <1>running DEF StopInv, AccountInv
<1>error. ASSUME NEW o \in (RowErrors \cup {"none", "row", "match", "MatchAllocationFailed"}),
                 o \notin {"ScanDecompressedByteLimitExceeded", "ScanRowLimitExceeded"}, Return(o)
          PROVE  LimitErrorsAreExact'
  BY <1>type, <1>error, OtherReturn DEF Outcome
<1>1. CASE UNCHANGED vars
  BY <1>1 DEF vars, LimitErrorsAreExact, LentToCall
<1>2. CASE Caller \/ StartRow \/ PredicateFalse \/ LendRow
  BY <1>2, NotIdle DEF Caller, NextRow, FindFirst, Call, StartRow, PredicateFalse, LendRow
<1>3. CASE Fill
  BY <1>3, NotIdle DEF Fill, Reading
<1>4. CASE KeepByte \/ TakeLineEnd \/ TakePairedLineFeed \/ LoneCarriageReturn
  BY <1>4, NotIdle DEF KeepByte, TakeLineEnd, TakePairedLineFeed, LoneCarriageReturn
<1>5. CASE NothingMore \/ EndOfStream
  BY <1>5, <1>error DEF NothingMore, EndOfStream
<1>6. CASE SourceFails \/ UnendedTerminator
  BY <1>6, <1>error DEF SourceFails, UnendedTerminator, RowErrors
<1>7. CASE RejectByte
  BY <1>7, <1>error DEF RejectByte, RowErrors
<1>8. CASE EndOfInput
  <2>1. CASE pc' = "eof"
    BY <2>1, NotIdle
  <2>2. CASE Return("MalformedCopyEscape")
    BY <2>2, <1>error DEF RowErrors
  <2> QED
    BY <1>8, <2>1, <2>2 DEF EndOfInput
<1>9. CASE RejectCountedRow
  <2>1. PICK fault \in CountedRowFaults : Return(fault)
    BY <1>9 DEF RejectCountedRow
  <2>2. fault \notin {"ScanDecompressedByteLimitExceeded", "ScanRowLimitExceeded"}
    BY LayoutVerdict DEF CountedRowFaults
  <2> QED
    BY <2>1, <2>2, <1>error, CountedVerdict
<1>10. CASE ReturnRow \/ PredicateTrue
  BY <1>10, <1>error DEF ReturnRow, PredicateTrue, RowErrors
<1>11. CASE RefuseByte
  BY <1>11, <1>running, RefusedByteIsExact DEF RefuseByte, TakesByte, Reading
<1>12. CASE RefuseRow
  BY <1>12, <1>running, RefusedRowIsExact DEF RefuseRow, IsRow
<1> QED
  BY <1>1, <1>2, <1>3, <1>4, <1>5, <1>6, <1>7, <1>8, <1>9, <1>10, <1>11, <1>12
  DEF Next, Progress

(* A scan-limit error is earned: the byte error comes with exactly the one byte
   over a limit taken, the row error when a budget has lent its last row, of
   both budgets for every pair of limits; ScanBudget and next_row_with_budget.  *)
THEOREM LimitErrorsEarned == Spec => []LimitErrorsAreExact
<1>1. Init => LimitErrorsAreExact
  BY DEF Init, LimitErrorsAreExact
<1> QED
  BY <1>1, TypeInvInit, TypeInvStep, StopInvInit, StopInvStep, AccountInvInit, AccountInvStep,
     LimitsStep, PTL DEF Spec

-----------------------------------------------------------------------------
(***************************************************************************)
(* The framing of an input, which RowStream defines from its line endings  *)
(* alone: where they are, which record each closes, and which records are  *)
(* rows.  RowStream takes CopyText for itself; its names mean the same.    *)
(***************************************************************************)
(* The constants and counts that both use. *)
LEMMA StreamSpeaksCopyText ==
  /\ Stream!LF = LF /\ Stream!CR = CR /\ Stream!BSL = BSL
  /\ Stream!CopyTerminator = CopyTerminator
  /\ \A T : Stream!Cardinality(T) = Cardinality(T)
<1>1. \A T : Stream!Cardinality(T) = Cardinality(T)
  BY Zenon DEF Stream!Cardinality, Cardinality
<1>2. Stream!LF = LF /\ Stream!CR = CR /\ Stream!BSL = BSL /\ Stream!DOT = DOT
  BY DEF Stream!LF, LF, Stream!CR, CR, Stream!BSL, BSL, Stream!DOT, DOT
<1>3. Stream!CopyTerminator = CopyTerminator
  BY <1>2, Zenon DEF Stream!CopyTerminator, CopyTerminator
<1> QED
  BY <1>1, <1>2, <1>3

(* A set of naturals has a least element. *)
LEMMA Least ==
  ASSUME NEW S, S \subseteq Nat, S # {}
  PROVE  \E m \in S : \A j \in S : m <= j
<1> DEFINE Less == {p \in Nat \X Nat : p[1] < p[2]}
<1>1. IsWellFoundedOn(Less, Nat)
  BY NatLessThanWellFounded DEF OpToRel
<1>2. PICK m \in S : \A j \in S : <<j, m>> \notin Less
  BY <1>1, WFMin
<1>3. \A j \in S : ~(j < m)
  BY <1>2
<1> QED
  BY <1>3

(* A bounded one has a greatest. *)
LEMMA Greatest ==
  ASSUME NEW b \in Nat, NEW S, S \subseteq 0 .. b, S # {}
  PROVE  \E m \in S : \A j \in S : m >= j
<1> DEFINE T == {b - j : j \in S}
<1>1. T \subseteq Nat /\ T # {}
  <2>1. \A j \in S : b - j \in Nat
    OBVIOUS
  <2>2. \E j : j \in S
    OBVIOUS
  <2> QED
    BY <2>1, <2>2
<1>2. PICK t \in T : \A u \in T : t <= u
  <2> HIDE DEF T
  <2> QED
    BY <1>1, Least
<1>3. PICK m \in S : t = b - m
  BY <1>2
<1>4. \A j \in S : b - m <= b - j
  BY <1>2, <1>3
<1> QED
  BY <1>4

-----------------------------------------------------------------------------
(* The run of backslashes before a position. *)
BackslashRuns(s, i) == {n \in 0 .. i - 1 : \A j \in i - n .. i - 1 : s[j] = BSL}

(* There is a longest run, so that Max picks one. *)
LEMMA RunHasMax ==
  ASSUME NEW s \in Seq(Byte), NEW i \in 1 .. Len(s) + 1
  PROVE  /\ Stream!Max(BackslashRuns(s, i)) \in BackslashRuns(s, i)
         /\ \A n \in BackslashRuns(s, i) : Stream!Max(BackslashRuns(s, i)) >= n
         /\ BackslashRuns(s, i) \subseteq Nat
<1>1. i - 1 \in Nat /\ BackslashRuns(s, i) \subseteq 0 .. i - 1 /\ 0 \in BackslashRuns(s, i)
  BY DEF BackslashRuns
<1>2. \E m \in BackslashRuns(s, i) : \A j \in BackslashRuns(s, i) : m >= j
  BY <1>1, Greatest
<1> QED
  BY <1>1, <1>2 DEF Stream!Max

(* A position is escaped when the longest run before it is odd. *)
LEMMA OddEscapeIs ==
  ASSUME NEW s \in Seq(Byte), NEW i \in 1 .. Len(s) + 1
  PROVE  Stream!OddEscape(s, i) <=> Stream!Max(BackslashRuns(s, i)) % 2 = 1
<1>1. {n \in 0 .. i - 1 : \A j \in i - n .. i - 1 : s[j] = Stream!BSL} = BackslashRuns(s, i)
  BY StreamSpeaksCopyText DEF BackslashRuns
<1> QED
  BY <1>1, Zenon DEF Stream!OddEscape

(* Nothing escapes the first byte. *)
LEMMA OddEscapeFirst ==
  ASSUME NEW s \in Seq(Byte)
  PROVE  ~Stream!OddEscape(s, 1)
<1>1. 1 \in 1 .. Len(s) + 1
  OBVIOUS
<1>2. Stream!Max(BackslashRuns(s, 1)) = 0
  BY <1>1, RunHasMax DEF BackslashRuns
<1> QED
  BY <1>1, <1>2, OddEscapeIs

(* What read_record does byte by byte: a backslash escapes the next byte unless it is
   escaped itself. *)
LEMMA OddEscapeStep ==
  ASSUME NEW s \in Seq(Byte), NEW i \in 1 .. Len(s)
  PROVE  Stream!OddEscape(s, i + 1) <=> s[i] = BSL /\ ~Stream!OddEscape(s, i)
<1> DEFINE m == Stream!Max(BackslashRuns(s, i))
           n == Stream!Max(BackslashRuns(s, i + 1))
<1>1. i \in 1 .. Len(s) + 1 /\ i + 1 \in 1 .. Len(s) + 1 /\ i \in Nat
  OBVIOUS
<1>2. m \in BackslashRuns(s, i) /\ \A k \in BackslashRuns(s, i) : m >= k
  BY <1>1, RunHasMax
<1>3. n \in BackslashRuns(s, i + 1) /\ \A k \in BackslashRuns(s, i + 1) : n >= k
  BY <1>1, RunHasMax
<1> HIDE DEF m, n
<1>4. CASE s[i] # BSL
  <2>1. n = 0
    <3>1. n \in 0 .. i /\ (n > 0 => s[i] = BSL)
      BY <1>3, <1>1 DEF BackslashRuns
    <3> QED
      BY <1>1, <1>4, <3>1
  <2> QED
    BY <1>1, <1>4, <2>1, OddEscapeIs DEF n
<1>5. CASE s[i] = BSL
  <2>1. m + 1 \in BackslashRuns(s, i + 1)
    BY <1>1, <1>2, <1>5 DEF BackslashRuns
  <2>2. n > 0 => n - 1 \in BackslashRuns(s, i)
    BY <1>1, <1>3 DEF BackslashRuns
  <2>3. n = m + 1 /\ m \in Nat
    <3>1. n \in Nat /\ m \in Nat
      BY <1>1, <1>2, <1>3 DEF BackslashRuns
    <3>2. n >= m + 1
      BY <1>3, <2>1
    <3>3. m >= n - 1
      BY <1>2, <2>2, <3>1, <3>2
    <3> QED
      BY <3>1, <3>2, <3>3
  <2>4. n % 2 = 1 <=> m % 2 # 1
    BY <2>3
  <2> QED
    BY <1>1, <1>5, <2>4, OddEscapeIs DEF m, n
<1> QED
  BY <1>4, <1>5

-----------------------------------------------------------------------------
(* How many line endings of s stand up to position c. *)
Ends(s) == Stream!LineEnds(s)
Passed(s, c) == Cardinality({j \in Ends(s) : j <= c})

(* The line endings are finitely many positions. *)
LEMMA EndsArePositions ==
  ASSUME NEW s \in Seq(Byte)
  PROVE  /\ Ends(s) \subseteq 1 .. Len(s) /\ IsFiniteSet(Ends(s))
         /\ Ends(s) \subseteq Stream!Breaks(s)
         /\ Len(s) \in Nat
<1>1. Ends(s) \subseteq DOMAIN s /\ DOMAIN s = 1 .. Len(s) /\ Len(s) \in Nat
  BY DEF Ends, Stream!LineEnds, Stream!Breaks
<1>2. IsFiniteSet(1 .. Len(s))
  BY <1>1, FS_Interval
<1>3. Ends(s) \subseteq Stream!Breaks(s)
  BY DEF Ends, Stream!LineEnds
<1> QED
  BY <1>1, <1>2, <1>3, FS_Subset

(* A line ending is a line feed or a carriage return that no backslash escapes. *)
LEMMA BreakIs ==
  ASSUME NEW s \in Seq(Byte), NEW i
  PROVE  i \in Stream!Breaks(s) <=> i \in 1 .. Len(s) /\ s[i] \in {LF, CR} /\ ~Stream!OddEscape(s, i)
BY StreamSpeaksCopyText DEF Stream!Breaks

(* It ends a line, unless it is the line feed of a CR LF. *)
LEMMA EndIs ==
  ASSUME NEW s \in Seq(Byte), NEW i
  PROVE  i \in Ends(s) <=> /\ i \in Stream!Breaks(s)
                           /\ ~(s[i] = LF /\ i - 1 \in Stream!Breaks(s) /\ s[i - 1] = CR)
BY StreamSpeaksCopyText DEF Ends, Stream!LineEnds

(* The last byte of a line ending. *)
LEMMA BeyondIs ==
  ASSUME NEW s \in Seq(Byte), NEW i
  PROVE  Stream!Beyond(s, i) = IF s[i] = CR /\ i + 1 \in 1 .. Len(s) /\ s[i + 1] = LF THEN i + 1 ELSE i
BY StreamSpeaksCopyText DEF Stream!Beyond

(* The count is a natural number. *)
LEMMA PassedType ==
  ASSUME NEW s \in Seq(Byte), NEW c \in Nat
  PROVE  /\ Passed(s, c) \in Nat
         /\ IsFiniteSet({j \in Ends(s) : j <= c})
<1>1. {j \in Ends(s) : j <= c} \subseteq Ends(s)
  OBVIOUS
<1>2. IsFiniteSet({j \in Ends(s) : j <= c})
  BY <1>1, EndsArePositions, FS_Subset
<1> QED
  BY <1>2, FS_CardinalityType DEF Passed

(* It begins with none. *)
LEMMA PassedNone ==
  ASSUME NEW s \in Seq(Byte)
  PROVE  Passed(s, 0) = 0
<1>1. {j \in Ends(s) : j <= 0} = {}
  BY EndsArePositions
<1> QED
  BY <1>1, FS_EmptySet DEF Passed

(* It grows by one at each line ending. *)
LEMMA PassedStep ==
  ASSUME NEW s \in Seq(Byte), NEW c \in Nat
  PROVE  Passed(s, c + 1) = IF c + 1 \in Ends(s) THEN Passed(s, c) + 1 ELSE Passed(s, c)
<1> DEFINE upto(d) == {j \in Ends(s) : j <= d}
<1>1. CASE c + 1 \in Ends(s)
  <2>1. upto(c + 1) = upto(c) \cup {c + 1} /\ c + 1 \notin upto(c)
    BY <1>1, EndsArePositions
  <2>2. IsFiniteSet(upto(c))
    BY PassedType
  <2> HIDE DEF upto
  <2>3. Cardinality(upto(c + 1)) = Cardinality(upto(c)) + 1
    BY <2>1, <2>2, FS_AddElement
  <2> QED
    BY <1>1, <2>3 DEF Passed, upto
<1>2. CASE c + 1 \notin Ends(s)
  <2>1. upto(c + 1) = upto(c)
    BY <1>2, EndsArePositions
  <2> QED
    BY <1>2, <2>1 DEF Passed
<1> QED
  BY <1>1, <1>2

(* At the end of the input it has them all. *)
LEMMA PassedAll ==
  ASSUME NEW s \in Seq(Byte)
  PROVE  Passed(s, Len(s)) = Cardinality(Ends(s))
<1>1. {j \in Ends(s) : j <= Len(s)} = Ends(s)
  BY EndsArePositions
<1> QED
  BY <1>1 DEF Passed

(* A line ending is known by how many there are up to it. *)
LEMMA PassedIsPlace ==
  ASSUME NEW s \in Seq(Byte), NEW c \in Ends(s)
  PROVE  /\ Passed(s, c) \in 1 .. Cardinality(Ends(s))
         /\ \A d \in Ends(s) : Passed(s, d) = Passed(s, c) => d = c
<1> DEFINE upto(d) == {j \in Ends(s) : j <= d}
<1>1. Ends(s) \subseteq Nat /\ IsFiniteSet(Ends(s)) /\ \A d \in Ends(s) : d \in upto(d) /\ upto(d) \subseteq Ends(s)
  BY EndsArePositions
<1>2. \A d \in Ends(s) : IsFiniteSet(upto(d)) /\ Cardinality(upto(d)) \in Nat
  BY <1>1, PassedType DEF Passed
<1>3. ASSUME NEW d \in Ends(s), NEW e \in Ends(s), d < e PROVE Cardinality(upto(d)) < Cardinality(upto(e))
  <2>1. upto(d) \subseteq upto(e) /\ upto(d) # upto(e)
    <3>1. e \notin upto(d) /\ e \in upto(e)
      BY <1>1, <1>3
    <3>2. upto(d) \subseteq upto(e)
      BY <1>1, <1>3
    <3> QED
      BY <3>1, <3>2
  <2>2. IsFiniteSet(upto(e)) /\ IsFiniteSet(upto(d)) /\ Cardinality(upto(d)) \in Nat /\ Cardinality(upto(e)) \in Nat
    BY <1>2
  <2> HIDE DEF upto
  <2>3. Cardinality(upto(d)) <= Cardinality(upto(e)) /\ Cardinality(upto(d)) # Cardinality(upto(e))
    BY <2>1, <2>2, FS_Subset
  <2> QED
    BY <2>2, <2>3
<1>4. Cardinality(upto(c)) \in 1 .. Cardinality(Ends(s))
  <2>1. upto(c) # {} /\ upto(c) \subseteq Ends(s) /\ IsFiniteSet(upto(c)) /\ Cardinality(upto(c)) \in Nat
    BY <1>1, <1>2
  <2> HIDE DEF upto
  <2>2. Cardinality(upto(c)) <= Cardinality(Ends(s)) /\ Cardinality(Ends(s)) \in Nat
    BY <1>1, <2>1, FS_Subset, FS_CardinalityType
  <2>3. Cardinality(upto(c)) # 0
    BY <2>1, FS_EmptySet
  <2> QED
    BY <2>1, <2>2, <2>3
<1>5. \A d \in Ends(s) : Cardinality(upto(d)) = Cardinality(upto(c)) => d = c
  <2> SUFFICES ASSUME NEW d \in Ends(s), Cardinality(upto(d)) = Cardinality(upto(c)), d # c PROVE FALSE
    OBVIOUS
  <2>1. d < c \/ c < d
    BY <1>1
  <2>2. Cardinality(upto(d)) \in Nat /\ Cardinality(upto(c)) \in Nat
    BY <1>2
  <2> HIDE DEF upto
  <2> QED
    BY <1>3, <2>1, <2>2
<1> QED
  BY <1>4, <1>5 DEF Passed

(* Ordered puts each line ending at the place that the count gives it. *)
LEMMA OrderedEnds ==
  ASSUME NEW s \in Seq(Byte)
  PROVE  /\ DOMAIN Stream!Ordered(Ends(s)) = 1 .. Cardinality(Ends(s))
         /\ Len(Stream!Ordered(Ends(s))) = Cardinality(Ends(s))
         /\ Cardinality(Ends(s)) \in Nat
         /\ \A c \in Ends(s) : Stream!Ordered(Ends(s))[Passed(s, c)] = c
<1> DEFINE S == Ends(s)
           n == Cardinality(S)
           kth(k) == CHOOSE i \in S : Cardinality({j \in S : j <= i}) = k
<1>1. n \in Nat
  BY EndsArePositions, FS_CardinalityType
<1>2. Stream!Ordered(S) = [k \in 1 .. Stream!Cardinality(S) |-> CHOOSE i \in S : Stream!Cardinality({j \in S : j <= i}) = k]
  BY Zenon DEF Stream!Ordered
<1>3. \A k : (CHOOSE i \in S : Stream!Cardinality({j \in S : j <= i}) = k) = kth(k)
  BY StreamSpeaksCopyText
<1>4. Stream!Ordered(S) = [k \in 1 .. n |-> kth(k)]
  BY <1>2, <1>3, StreamSpeaksCopyText
<1>5. ASSUME NEW c \in S PROVE Stream!Ordered(S)[Passed(s, c)] = c
  <2>1. Passed(s, c) \in 1 .. n
    BY PassedIsPlace
  <2>2. kth(Passed(s, c)) = c
    BY PassedIsPlace DEF Passed
  <2> HIDE DEF n, kth, S
  <2> QED
    BY <1>4, <2>1, <2>2
<1>6. Len(Stream!Ordered(S)) = n
  <2> HIDE DEF n, kth, S
  <2>1. Len([k \in 1 .. n |-> kth(k)]) = n
    BY <1>1
  <2> QED
    BY <1>4, <2>1
<1>7. DOMAIN Stream!Ordered(S) = 1 .. n
  BY <1>4
<1> QED
  BY <1>1, <1>5, <1>6, <1>7

-----------------------------------------------------------------------------
(* Where record k of s begins. *)
From(s, k) == IF k = 1 THEN 1 ELSE Stream!Beyond(s, Stream!Ordered(Ends(s))[k - 1]) + 1

Closed(s, k, e) == [raw |-> SubSeq(s, From(s, k), e - 1), line |-> TRUE, stop |-> Stream!Beyond(s, e)]
Rest(s, k) == SubSeq(s, From(s, k), Len(s))
Open(s, k) == [raw |-> Rest(s, k), line |-> FALSE, stop |-> Len(s)]

(* Records in terms of Closed and Open. *)
LEMMA RecordsAre ==
  ASSUME NEW s \in Seq(Byte)
  PROVE  LET n == Cardinality(Ends(s))
             closed == [k \in 1 .. n |-> Closed(s, k, Stream!Ordered(Ends(s))[k])]
         IN  Stream!Records(s) = IF Rest(s, n + 1) = << >> THEN closed ELSE Append(closed, Open(s, n + 1))
<1> DEFINE n == Cardinality(Ends(s))
           ends == Stream!Ordered(Ends(s))
           from(k) == IF k = 1 THEN 1 ELSE Stream!Beyond(s, ends[k - 1]) + 1
           closed == [k \in DOMAIN ends |->
                        [raw |-> SubSeq(s, from(k), ends[k] - 1), line |-> TRUE, stop |-> Stream!Beyond(s, ends[k])]]
           rest == SubSeq(s, from(Len(ends) + 1), Len(s))
<1>1. Stream!Records(s) = IF rest = << >> THEN closed ELSE Append(closed, [raw |-> rest, line |-> FALSE, stop |-> Len(s)])
  BY DEF Stream!Records, Ends
<1>2. DOMAIN ends = 1 .. n /\ Len(ends) = n
  BY OrderedEnds
<1>3. \A k : from(k) = From(s, k)
  BY DEF From
<1>4. closed = [k \in 1 .. n |-> Closed(s, k, ends[k])]
  BY <1>2, <1>3, Zenon DEF Closed
<1>5. rest = Rest(s, n + 1)
  BY <1>2, <1>3, Zenon DEF Rest
<1> HIDE DEF closed, rest, ends, n
<1> QED
  BY <1>1, <1>4, <1>5 DEF Open, ends, n

(* The number of line endings. *)
Lines(s) == Cardinality(Ends(s))

(* As many records as line endings, and the rest if there is any. *)
LEMMA RecordsFirst ==
  ASSUME NEW s \in Seq(Byte)
  PROVE  /\ Lines(s) \in Nat
         /\ Len(Stream!Records(s)) \in {Lines(s), Lines(s) + 1}
         /\ Len(Stream!Records(s)) = Lines(s) <=> Rest(s, Lines(s) + 1) = << >>
         /\ DOMAIN Stream!Records(s) = 1 .. Len(Stream!Records(s))
         /\ Stream!Records(s) \in Seq({Stream!Records(s)[k] : k \in 1 .. Len(Stream!Records(s))})
         /\ \A k \in 1 .. Lines(s) : Stream!Records(s)[k] = Closed(s, k, Stream!Ordered(Ends(s))[k])
         /\ Rest(s, Lines(s) + 1) # << >> => Stream!Records(s)[Lines(s) + 1] = Open(s, Lines(s) + 1)
<1> DEFINE n == Lines(s)
           closed == [k \in 1 .. n |-> Closed(s, k, Stream!Ordered(Ends(s))[k])]
           Piece == {closed[k] : k \in 1 .. n} \cup {Open(s, n + 1)}
           records == Stream!Records(s)
<1>1. n \in Nat
  BY OrderedEnds DEF Lines
<1>2. records = IF Rest(s, n + 1) = << >> THEN closed ELSE Append(closed, Open(s, n + 1))
  BY RecordsAre DEF Lines
<1>3. closed \in Seq(Piece) /\ Len(closed) = n /\ Open(s, n + 1) \in Piece
      /\ \A k \in 1 .. n : closed[k] = Closed(s, k, Stream!Ordered(Ends(s))[k])
  <2> HIDE DEF n
  <2>1. closed \in [1 .. n -> Piece]
    OBVIOUS
  <2>2. \A k \in 1 .. n : closed[k] = Closed(s, k, Stream!Ordered(Ends(s))[k])
    OBVIOUS
  <2> HIDE DEF closed
  <2>3. Open(s, n + 1) \in Piece
    OBVIOUS
  <2> HIDE DEF Piece
  <2> QED
    BY <1>1, <2>1, <2>2, <2>3
<1> HIDE DEF closed, Piece, records, n
<1>4. records \in Seq(Piece) /\ Len(records) = IF Rest(s, n + 1) = << >> THEN n ELSE n + 1
  BY <1>1, <1>2, <1>3
<1>5. \A k \in 1 .. n : records[k] = closed[k]
  BY <1>1, <1>2, <1>3
<1>6. Rest(s, n + 1) # << >> => records[n + 1] = Open(s, n + 1)
  BY <1>1, <1>2, <1>3
<1>7. DOMAIN records = 1 .. Len(records) /\ Len(records) \in Nat
  BY <1>4
<1>8. records \in Seq({records[k] : k \in 1 .. Len(records)})
  <2> DEFINE V == {records[k] : k \in 1 .. Len(records)}
  <2>1. \A k \in 1 .. Len(records) : records[k] \in V
    OBVIOUS
  <2> HIDE DEF V
  <2>2. records = [k \in 1 .. Len(records) |-> records[k]]
    BY <1>4
  <2>3. [k \in 1 .. Len(records) |-> records[k]] \in Seq(V)
    BY <1>7, <2>1, IsASeq
  <2> QED
    BY <2>2, <2>3 DEF V
<1> QED
  BY <1>1, <1>3, <1>4, <1>5, <1>6, <1>7, <1>8 DEF records, n

(* The record that a line ending closes. *)
LEMMA RecordAt ==
  ASSUME NEW s \in Seq(Byte), NEW e \in Ends(s)
  PROVE  /\ Passed(s, e) \in 1 .. Len(Stream!Records(s))
         /\ Stream!Records(s)[Passed(s, e)] = Closed(s, Passed(s, e), e)
<1>1. Passed(s, e) \in 1 .. Lines(s) /\ Stream!Ordered(Ends(s))[Passed(s, e)] = e
  BY PassedIsPlace, OrderedEnds DEF Lines
<1>2. Lines(s) \in Nat /\ Lines(s) <= Len(Stream!Records(s))
      /\ Len(Stream!Records(s)) \in Nat
  <2>1. Lines(s) \in Nat
    BY RecordsFirst, Zenon
  <2>2. Len(Stream!Records(s)) \in {Lines(s), Lines(s) + 1}
    BY RecordsFirst, Zenon
  <2> QED
    BY <2>1, <2>2
<1>3. \A k \in 1 .. Lines(s) : Stream!Records(s)[k] = Closed(s, k, Stream!Ordered(Ends(s))[k])
  BY RecordsFirst, Zenon
<1> QED
  BY <1>1, <1>2, <1>3

(* What follows the last line ending is a record unless it is empty. *)
LEMMA LastRecord ==
  ASSUME NEW s \in Seq(Byte)
  PROVE  LET n == Passed(s, Len(s))
         IN  /\ n \in Nat
             /\ Rest(s, n + 1) = << >> => Len(Stream!Records(s)) = n
             /\ Rest(s, n + 1) # << >> =>
                  Len(Stream!Records(s)) = n + 1 /\ Stream!Records(s)[n + 1] = Open(s, n + 1)
BY PassedAll, RecordsFirst DEF Lines

-----------------------------------------------------------------------------
(* The first k records are rows. *)
RowsUpto(s, k) ==
  /\ k \in 0 .. Len(Stream!Records(s))
  /\ \A j \in 1 .. k : ~Stream!IsTerminator(Stream!Records(s)[j])

(* While no terminator has come by, rows are records; with the last record, or with a
   terminator, the rows and the stream end. *)
LEMMA RowsAreRecords ==
  ASSUME NEW s \in Seq(Byte), NEW k, RowsUpto(s, k)
  PROVE  /\ k <= Len(Stream!Rows(s))
         /\ Len(Stream!Rows(s)) \in Nat
         /\ \A j \in 1 .. k : Stream!Rows(s)[j] = Stream!Records(s)[j]
         /\ k = Len(Stream!Records(s)) =>
              Len(Stream!Rows(s)) = k /\ Stream!StreamEnd(s) = Len(s)
         /\ k < Len(Stream!Records(s)) /\ Stream!IsTerminator(Stream!Records(s)[k + 1]) =>
              Len(Stream!Rows(s)) = k /\ Stream!StreamEnd(s) = Stream!Records(s)[k + 1].stop
<1> DEFINE records == Stream!Records(s)
           rows == Stream!Rows(s)
           N == Len(records)
           stops == {j \in DOMAIN records : Stream!IsTerminator(records[j])}
           V == {records[j] : j \in 1 .. N}
           Goal == /\ k <= Len(rows)
                   /\ Len(rows) \in Nat
                   /\ \A j \in 1 .. k : rows[j] = records[j]
                   /\ k = N => Len(rows) = k /\ Stream!StreamEnd(s) = Len(s)
                   /\ k < N /\ Stream!IsTerminator(records[k + 1]) =>
                        Len(rows) = k /\ Stream!StreamEnd(s) = records[k + 1].stop
<1> SUFFICES Goal
  OBVIOUS
<1>1. records \in Seq(V) /\ N \in Nat /\ DOMAIN records = 1 .. N
  BY RecordsFirst
<1>2. rows = IF stops = {} THEN records ELSE SubSeq(records, 1, Stream!Min(stops) - 1)
  BY DEF Stream!Rows
<1>3. Stream!StreamEnd(s) = IF rows = records THEN Len(s) ELSE records[Len(rows) + 1].stop
  BY DEF Stream!StreamEnd
<1>4. k \in 0 .. N /\ \A j \in 1 .. k : ~Stream!IsTerminator(records[j])
  BY DEF RowsUpto
<1>5. \A j \in stops : j \in 1 .. N /\ Stream!IsTerminator(records[j]) /\ j > k
  BY <1>1, <1>4
<1>6. \A j \in 1 .. N : Stream!IsTerminator(records[j]) => j \in stops
  BY <1>1
<1> HIDE DEF records, rows, N, stops, V, Goal
<1>7. CASE stops = {}
  <2>1. rows = records
    BY <1>2, <1>7
  <2>2. ~(k < N /\ Stream!IsTerminator(records[k + 1]))
    BY <1>1, <1>4, <1>6, <1>7
  <2>3. Len(rows) = N /\ Stream!StreamEnd(s) = Len(s)
    BY <1>3, <2>1 DEF N
  <2>4. \A j \in 1 .. k : rows[j] = records[j]
    BY <2>1
  <2>5. k <= N /\ N \in Nat
    BY <1>1, <1>4
  <2> QED
    BY <2>2, <2>3, <2>4, <2>5 DEF Goal
<1>8. CASE stops # {}
  <2> DEFINE m == Stream!Min(stops)
  <2>1. m \in stops /\ \A j \in stops : m <= j
    <3>1. stops \subseteq Nat
      BY <1>5
    <3>2. \E j \in stops : \A i \in stops : j <= i
      BY <1>8, <3>1, Least
    <3> QED
      BY <3>2 DEF Stream!Min
  <2> HIDE DEF m
  <2>2. m \in 1 .. N /\ m > k /\ Stream!IsTerminator(records[m])
    BY <1>5, <2>1
  <2>3. rows = SubSeq(records, 1, m - 1)
    BY <1>2, <1>8 DEF m
  <2>4. Len(rows) = m - 1 /\ \A j \in 1 .. m - 1 : rows[j] = records[j]
    <3>1. \A j \in 1 .. m - 1 : records[j] \in V
      BY <1>1, <2>2
    <3> QED
      BY <1>1, <2>2, <2>3, <3>1, SubSeqProperties
  <2>5. rows # records
    BY <1>1, <2>2, <2>4 DEF N
  <2>6. k < N /\ Stream!IsTerminator(records[k + 1]) => m = k + 1
    BY <1>1, <1>4, <1>6, <2>1, <2>2
  <2>7. k # N
    BY <1>1, <1>4, <2>2
  <2>8. k <= m - 1 /\ m - 1 \in Nat
    BY <1>1, <1>4, <2>2
  <2>9. k < N /\ Stream!IsTerminator(records[k + 1]) =>
          Len(rows) = k /\ Stream!StreamEnd(s) = records[k + 1].stop
    BY <1>3, <1>4, <2>4, <2>5, <2>6
  <2>10. \A j \in 1 .. k : rows[j] = records[j]
    BY <1>1, <1>4, <2>4, <2>8
  <2>11. k <= Len(rows) /\ Len(rows) \in Nat
    BY <2>4, <2>8
  <2> QED
    BY <2>7, <2>9, <2>10, <2>11 DEF Goal
<1> QED
  BY <1>7, <1>8

-----------------------------------------------------------------------------
(* Where a reader that has lent n rows and taken c bytes stands in s.  The next
   byte is never the second half of a line ending it has already passed.       *)
Fresh(s, c) == c + 1 \in Stream!Breaks(s) => c + 1 \in Ends(s)

(* between two records *)
Between(s, c, n) ==
  /\ From(s, n + 1) = c + 1
  /\ Passed(s, c) = n
  /\ ~Stream!OddEscape(s, c + 1)
  /\ Fresh(s, c)

(* inside record n + 1, of which it has kept raw *)
Within(s, c, n, raw) ==
  /\ From(s, n + 1) \in 1 .. c + 1
  /\ raw = SubSeq(s, From(s, n + 1), c)
  /\ Passed(s, c) = n
  /\ Fresh(s, c)

(* after line ending e of that record *)
AtLineEnd(s, e, n, raw) ==
  /\ e \in Ends(s)
  /\ Passed(s, e) = n + 1
  /\ raw = SubSeq(s, From(s, n + 1), e - 1)

(* The first record begins at the first byte. *)
LEMMA FirstRecord ==
  ASSUME NEW s \in Seq(Byte)
  PROVE  Between(s, 0, 0)
<1>1. Fresh(s, 0)
  <2>1. 0 \notin Stream!Breaks(s)
    BY BreakIs
  <2> QED
    BY <2>1, EndIs DEF Fresh
<1> QED
  BY <1>1, PassedNone, OddEscapeFirst DEF Between, From

(* A reader that starts a record has kept nothing of it. *)
LEMMA RecordBegins ==
  ASSUME NEW s \in Seq(Byte), NEW c \in 0 .. Len(s), NEW n \in Nat, Between(s, c, n)
  PROVE  Within(s, c, n, << >>)
<1>1. SubSeq(s, c + 1, c) = << >>
  BY SubSeqEmpty
<1> QED
  BY <1>1 DEF Between, Within

(* One byte more of a cut is that byte appended. *)
LEMMA CutGrows ==
  ASSUME NEW s \in Seq(Byte), NEW c \in 0 .. Len(s) - 1, NEW f \in 1 .. c + 1
  PROVE  SubSeq(s, f, c + 1) = Append(SubSeq(s, f, c), s[c + 1])
<1>1. /\ \A k \in f .. c + 1 : s[k] \in Byte
      /\ \A k \in f .. c : s[k] \in Byte
  OBVIOUS
<1> DEFINE long == SubSeq(s, f, c + 1)
           short == SubSeq(s, f, c)
<1>2. /\ long \in Seq(Byte) /\ Len(long) = c + 1 - f + 1
      /\ \A i \in 1 .. c + 1 - f + 1 : long[i] = s[f + i - 1]
  BY <1>1, SubSeqProperties
<1>3. /\ short \in Seq(Byte) /\ Len(short) = c - f + 1
      /\ \A i \in 1 .. c - f + 1 : short[i] = s[f + i - 1]
  <2>1. CASE f <= c
    BY <1>1, <2>1, SubSeqProperties
  <2>2. CASE f = c + 1
    <3>1. short = << >>
      BY <2>2, SubSeqEmpty
    <3> HIDE DEF short
    <3> QED
      BY <2>2, <3>1
  <2> QED
    BY <2>1, <2>2
<1> HIDE DEF long, short
<1>4. Append(short, s[c + 1]) \in Seq(Byte) /\ Len(Append(short, s[c + 1])) = Len(long)
  BY <1>2, <1>3
<1>5. ASSUME NEW i \in 1 .. Len(long) PROVE Append(short, s[c + 1])[i] = long[i]
  <2>1. CASE i <= Len(short)
    <3>1. i \in 1 .. c - f + 1 /\ i \in 1 .. c + 1 - f + 1
      BY <1>2, <1>3, <2>1
    <3>2. Append(short, s[c + 1])[i] = short[i]
      BY <1>3, <2>1
    <3> QED
      BY <1>2, <1>3, <3>1, <3>2
  <2>2. CASE i = Len(short) + 1
    <3>1. i \in 1 .. c + 1 - f + 1 /\ f + i - 1 = c + 1
      BY <1>2, <1>3, <2>2
    <3>2. Append(short, s[c + 1])[i] = s[c + 1]
      BY <1>3, <2>2
    <3> QED
      BY <1>2, <3>1, <3>2
  <2> QED
    BY <1>2, <1>3, <2>1, <2>2
<1>6. long = Append(short, s[c + 1])
  BY <1>2, <1>4, <1>5, SeqEqual
<1> QED
  BY <1>6 DEF long, short

(* An escaped or ordinary byte belongs to the record. *)
LEMMA RecordGoesOn ==
  ASSUME NEW s \in Seq(Byte), NEW c \in 0 .. Len(s) - 1, NEW n \in Nat, NEW raw,
         Within(s, c, n, raw),
         Stream!OddEscape(s, c + 1) \/ s[c + 1] \notin {LF, CR}
  PROVE  /\ Within(s, c + 1, n, Append(raw, s[c + 1]))
         /\ Stream!OddEscape(s, c + 2) <=> s[c + 1] = BSL /\ ~Stream!OddEscape(s, c + 1)
<1>1. c \in Nat /\ c + 1 \in 1 .. Len(s) /\ c + 1 + 1 = c + 2 /\ (c + 2) - 1 = c + 1
  OBVIOUS
<1>2. c + 1 \notin Stream!Breaks(s)
  BY <1>1, BreakIs
<1>3. Passed(s, c + 1) = n
  BY <1>1, <1>2, EndIs, PassedStep DEF Within
<1>4. Fresh(s, c + 1)
  BY <1>1, <1>2, EndIs DEF Fresh
<1>5. From(s, n + 1) \in 1 .. c + 2
  BY <1>1 DEF Within
<1>6. Append(raw, s[c + 1]) = SubSeq(s, From(s, n + 1), c + 1)
  BY CutGrows DEF Within
<1>7. Stream!OddEscape(s, c + 2) <=> s[c + 1] = BSL /\ ~Stream!OddEscape(s, c + 1)
  BY <1>1, OddEscapeStep
<1> QED
  BY <1>1, <1>3, <1>4, <1>5, <1>6, <1>7 DEF Within

(* An unescaped line feed or carriage return ends it. *)
LEMMA RecordEnds ==
  ASSUME NEW s \in Seq(Byte), NEW c \in 0 .. Len(s) - 1, NEW n \in Nat, NEW raw,
         Within(s, c, n, raw),
         ~Stream!OddEscape(s, c + 1), s[c + 1] \in {LF, CR}
  PROVE  AtLineEnd(s, c + 1, n, raw)
<1>1. c \in Nat /\ c + 1 \in 1 .. Len(s) /\ (c + 1) - 1 = c
  OBVIOUS
<1>2. c + 1 \in Ends(s)
  BY <1>1, BreakIs DEF Within, Fresh
<1>3. Passed(s, c + 1) = n + 1
  BY <1>1, <1>2, PassedStep DEF Within
<1> QED
  BY <1>1, <1>2, <1>3 DEF Within, AtLineEnd

(* Behind a line ending the record is complete and the next one begins. *)
LEMMA RecordIsBehind ==
  ASSUME NEW s \in Seq(Byte), NEW e, NEW n \in Nat, NEW raw, AtLineEnd(s, e, n, raw)
  PROVE  /\ Stream!Beyond(s, e) \in 1 .. Len(s)
         /\ Between(s, Stream!Beyond(s, e), n + 1)
         /\ n + 1 \in 1 .. Len(Stream!Records(s))
         /\ Stream!Records(s)[n + 1] = [raw |-> raw, line |-> TRUE, stop |-> Stream!Beyond(s, e)]
<1> DEFINE c == Stream!Beyond(s, e)
<1>1. e \in Ends(s) /\ Passed(s, e) = n + 1 /\ e \in 1 .. Len(s) /\ Len(s) \in Nat /\ e \in Stream!Breaks(s)
  BY EndsArePositions DEF AtLineEnd
<1>2. s[e] \in {LF, CR}
  BY <1>1, BreakIs
<1>3. c = IF s[e] = CR /\ e + 1 \in 1 .. Len(s) /\ s[e + 1] = LF THEN e + 1 ELSE e
  BY BeyondIs
<1> HIDE DEF c
<1>4. c \in 1 .. Len(s) /\ s[c] \in {LF, CR} /\ c + 1 - 1 = c
  BY <1>1, <1>2, <1>3
<1>5. From(s, n + 2) = c + 1
  BY <1>1, OrderedEnds DEF From, c
<1>6. Passed(s, c) = n + 1
  <2>1. CASE c = e
    BY <1>1, <2>1
  <2>2. CASE c # e
    <3>1. c = e + 1 /\ s[e] = CR /\ s[e + 1] = LF /\ e + 1 - 1 = e
      BY <1>1, <1>3, <2>2
    <3>2. e + 1 \notin Ends(s)
      BY <1>1, <3>1, EndIs
    <3> QED
      BY <1>1, <3>1, <3>2, PassedStep
  <2> QED
    BY <2>1, <2>2
<1>7. ~Stream!OddEscape(s, c + 1)
  BY <1>4, OddEscapeStep DEF BSL, LF, CR
<1>8. Fresh(s, c)
  <2> SUFFICES ASSUME c + 1 \in Stream!Breaks(s), s[c + 1] = LF, s[c] = CR PROVE FALSE
    BY <1>4, EndIs DEF Fresh
  <2>1. c + 1 \in 1 .. Len(s)
    BY BreakIs
  <2>2. c # e
    BY <1>3, <2>1
  <2> QED
    BY <1>3, <2>2 DEF LF, CR
<1>9. n + 2 = (n + 1) + 1
  OBVIOUS
<1>10. n + 1 \in 1 .. Len(Stream!Records(s)) /\ Stream!Records(s)[n + 1] = [raw |-> raw, line |-> TRUE, stop |-> c]
  BY <1>1, RecordAt DEF Closed, AtLineEnd, c
<1> QED
  BY <1>4, <1>5, <1>6, <1>7, <1>8, <1>9, <1>10 DEF Between, c

-----------------------------------------------------------------------------
(***************************************************************************)
(* The reader against the frames of its input.  FrameInv: at each program  *)
(* point, what has been taken and kept is what stands between the record's *)
(* beginning and the position.  PrefixInv: what has been lent.  EndInv and *)
(* LentInv: where a reader that has ended, or returned a row, stands.      *)
(***************************************************************************)
FrameInv ==
  /\ pc \in {"idle", "begin", "lent"} /\ ~finished => Between(input, consumed, Len(exposed))
  /\ pc \in {"byte", "escaped"} =>
       /\ Within(input, consumed, Len(exposed), rawRow)
       /\ Stream!OddEscape(input, consumed + 1) <=> pc = "escaped"
  /\ pc = "cr" => input[consumed] = CR /\ AtLineEnd(input, consumed, Len(exposed), rawRow)
  /\ pc = "line" => \E e \in Ends(input) : /\ consumed = Stream!Beyond(input, e)
                                           /\ AtLineEnd(input, e, Len(exposed), rawRow)
  /\ pc = "eof" => consumed = Len(input) /\ Within(input, consumed, Len(exposed), rawRow)

PrefixInv ==
  /\ RowsUpto(input, Len(exposed))
  /\ \A k \in 1 .. Len(exposed) :
       exposed[k] = [number |-> k, raw |-> Stream!Records(input)[k].raw, stop |-> Stream!Records(input)[k].stop]

EndInv ==
  ~Broken /\ finished /\ pc \in {"idle", "begin", "lent"} =>
    Len(exposed) = Len(Stream!Rows(input)) /\ consumed = Stream!StreamEnd(input)

LastOutcome(o) == outcomes # << >> /\ outcomes[Len(outcomes)] = o

LentInv ==
  pc = "lent" \/ (pc = "idle" /\ \E o \in {"row", "match", "MatchAllocationFailed"} : LastOutcome(o)) =>
    Len(exposed) # 0 /\ consumed = exposed[Len(exposed)].stop

StreamInv == FrameInv /\ PrefixInv /\ EndInv /\ LentInv

(* The input, the position and the history have their types. *)
LEMMA InputIs ==
  ASSUME TypeInv
  PROVE  /\ input \in Seq(Byte) /\ Len(input) \in Nat
         /\ consumed \in 0 .. Len(input)
         /\ Len(exposed) \in Nat /\ DOMAIN exposed = 1 .. Len(exposed)
<1>1. input \in Seq(Byte)
  BY ReaderAssumption DEF TypeInv, TypeOK
<1>2. U64Max \in Nat /\ consumed \in 0 .. U64Max /\ buffered \in Nat /\ consumed <= buffered /\ buffered <= Len(input)
  BY ReaderAssumption DEF TypeInv, TypeOK, Cursors
<1>3. exposed \in Seq([number : 1 .. U64Max, raw : Seq(Byte), stop : 0 .. U64Max])
  BY DEF TypeInv, TypeOK
<1>4. Len(exposed) \in Nat /\ DOMAIN exposed = 1 .. Len(exposed)
  BY <1>3
<1>5. Len(input) \in Nat
  BY <1>1
<1> QED
  BY <1>1, <1>2, <1>4, <1>5

(* A new reader stands before the first record. *)
LEMMA StreamInvInit == Init => StreamInv
<1> SUFFICES ASSUME Init PROVE StreamInv
  OBVIOUS
<1>1. /\ input \in Seq(Byte) /\ consumed = 0 /\ exposed = << >> /\ Len(exposed) = 0 /\ pc = "idle"
      /\ finished = FALSE /\ outcomes = << >>
  BY ReaderAssumption DEF Init
<1>2. FrameInv
  BY <1>1, FirstRecord DEF FrameInv
<1>3. PrefixInv
  BY <1>1, RecordsFirst DEF PrefixInv, RowsUpto
<1> QED
  BY <1>1, <1>2, <1>3 DEF StreamInv, EndInv, LentInv, LastOutcome

-----------------------------------------------------------------------------
(* The record that has been read, when it is a row. *)
LEMMA RowIsNextRecord ==
  ASSUME TypeInv, FrameInv, IsRow
  PROVE  LET n == Len(exposed)
             r == Stream!Records(input)[n + 1]
         IN  /\ n + 1 \in 1 .. Len(Stream!Records(input))
             /\ r.raw = rawRow /\ r.stop = consumed /\ (r.line <=> pc = "line")
             /\ ~Stream!IsTerminator(r)
             /\ pc = "line" => Between(input, consumed, n + 1)
             /\ pc = "eof" => n + 1 = Len(Stream!Records(input)) /\ consumed = Len(input)
<1> DEFINE n == Len(exposed)
           r == Stream!Records(input)[n + 1]
<1>1. n \in Nat /\ input \in Seq(Byte)
  BY InputIs
<1> HIDE DEF n
<1>2. rawRow # CopyTerminator /\ pc \in {"line", "eof"} /\ (pc = "eof" => rawRow # << >>)
  BY DEF IsRow, EmptyEof
<1>3. CASE pc = "line"
  <2>1. PICK e \in Ends(input) : consumed = Stream!Beyond(input, e) /\ AtLineEnd(input, e, n, rawRow)
    BY <1>3 DEF FrameInv, n
  <2>2. /\ n + 1 \in 1 .. Len(Stream!Records(input))
        /\ r = [raw |-> rawRow, line |-> TRUE, stop |-> consumed]
        /\ Between(input, consumed, n + 1)
    BY <1>1, <2>1, RecordIsBehind
  <2>3. r.raw = rawRow /\ r.stop = consumed /\ r.line
    BY <2>2
  <2> QED
    BY <1>2, <1>3, <2>2, <2>3, StreamSpeaksCopyText DEF Stream!IsTerminator, n
<1>4. CASE pc = "eof"
  <2>1. consumed = Len(input) /\ Within(input, Len(input), n, rawRow)
    BY <1>4 DEF FrameInv, n
  <2>2. Passed(input, Len(input)) = n /\ rawRow = Rest(input, n + 1)
    BY <2>1 DEF Within, Rest
  <2>3. Len(Stream!Records(input)) = n + 1 /\ r = Open(input, n + 1)
    BY <1>1, <1>2, <1>4, <2>2, LastRecord
  <2>4. r = [raw |-> rawRow, line |-> FALSE, stop |-> consumed]
    BY <2>1, <2>2, <2>3 DEF Open
  <2>5. r.raw = rawRow /\ r.stop = consumed /\ ~r.line
    BY <2>4
  <2> QED
    BY <1>1, <1>4, <2>1, <2>3, <2>5 DEF Stream!IsTerminator, n
<1> QED
  BY <1>2, <1>3, <1>4

(* The record at which the stream ends cleanly. *)
LEMMA NoMoreRows ==
  ASSUME TypeInv, FrameInv, PrefixInv, EmptyEof \/ (pc = "line" /\ rawRow = CopyTerminator)
  PROVE  Len(exposed) = Len(Stream!Rows(input)) /\ consumed = Stream!StreamEnd(input)
<1> DEFINE n == Len(exposed)
<1>1. n \in Nat /\ input \in Seq(Byte) /\ RowsUpto(input, n)
  BY InputIs DEF PrefixInv
<1> HIDE DEF n
<1>2. CASE EmptyEof
  <2>1. pc = "eof" /\ rawRow = << >>
    BY <1>2 DEF EmptyEof
  <2>2. consumed = Len(input) /\ Within(input, Len(input), n, rawRow)
    BY <2>1 DEF FrameInv, n
  <2>3. Passed(input, Len(input)) = n /\ Rest(input, n + 1) = << >>
    BY <2>1, <2>2 DEF Within, Rest
  <2>4. Len(Stream!Records(input)) = n
    BY <1>1, <2>3, LastRecord
  <2> QED
    BY <1>1, <2>2, <2>4, RowsAreRecords DEF n
<1>3. CASE pc = "line" /\ rawRow = CopyTerminator
  <2>1. PICK e \in Ends(input) : consumed = Stream!Beyond(input, e) /\ AtLineEnd(input, e, n, rawRow)
    BY <1>3 DEF FrameInv, n
  <2>2. /\ n + 1 \in 1 .. Len(Stream!Records(input))
        /\ Stream!Records(input)[n + 1] = [raw |-> rawRow, line |-> TRUE, stop |-> consumed]
    BY <1>1, <2>1, RecordIsBehind
  <2>3. Stream!IsTerminator(Stream!Records(input)[n + 1]) /\ Stream!Records(input)[n + 1].stop = consumed
    BY <1>3, <2>2, StreamSpeaksCopyText DEF Stream!IsTerminator
  <2>4. n < Len(Stream!Records(input))
    BY <1>1, <2>2 DEF RowsUpto
  <2> QED
    BY <1>1, <2>3, <2>4, RowsAreRecords DEF n
<1> QED
  BY <1>2, <1>3

-----------------------------------------------------------------------------
(* What a returned outcome shows of the history. *)
LEMMA BrokenAfter ==
  ASSUME TypeOK, NEW o \in Outcome, Return(o)
  PROVE  /\ Broken' <=> Broken \/ o \in RowErrors
         /\ outcomes' # << >> /\ outcomes'[Len(outcomes')] = o
         /\ pc' = "idle"
<1>1. outcomes \in Seq(Outcome) /\ outcomes' = Append(outcomes, o)
  BY DEF TypeOK, Return
<1>2. outcomes' # << >> /\ outcomes'[Len(outcomes')] = o
  BY <1>1
<1> QED
  BY <1>2, ReturnAppends DEF Broken

(* The rows lent stay what they are. *)
LEMMA PrefixKept == PrefixInv /\ UNCHANGED <<input, exposed>> => PrefixInv'
BY DEF PrefixInv, RowsUpto

(* A call that fails leaves a reader with which nothing is promised any more. *)
LEMMA FailedCall ==
  ASSUME TypeOK, StreamInv, NEW o \in RowErrors, Return(o), finished, finished' = finished,
         UNCHANGED <<input, exposed>>
  PROVE  StreamInv'
<1>1. o \in Outcome /\ o \notin {"row", "match", "MatchAllocationFailed"}
  BY DEF Outcome, RowErrors
<1>2. Broken' /\ pc' = "idle" /\ outcomes'[Len(outcomes')] = o
  BY <1>1, BrokenAfter
<1>3. FrameInv'
  BY <1>2 DEF FrameInv
<1>4. LentInv'
  BY <1>1, <1>2 DEF LentInv, LastOutcome
<1> QED
  BY <1>2, <1>3, <1>4, PrefixKept DEF StreamInv, EndInv

(* A step inside a record, or to its end. *)
LEMMA RecordStep ==
  ASSUME StreamInv, UNCHANGED <<input, exposed>>, pc' \in Reading \cup {"line", "eof"}, FrameInv'
  PROVE  StreamInv'
<1>1. pc' \notin {"idle", "begin", "lent"}
  BY DEF Reading
<1> QED
  BY <1>1, PrefixKept DEF StreamInv, EndInv, LentInv

(* A step between two records. *)
LEMMA RestingStep ==
  ASSUME StreamInv, UNCHANGED <<input, exposed, consumed, finished>>,
         pc \in {"idle", "begin", "lent"}, pc' \in {"idle", "begin"},
         Broken => Broken', LentInv'
  PROVE  StreamInv'
<1>1. FrameInv'
  BY DEF StreamInv, FrameInv
<1>2. EndInv'
  BY DEF StreamInv, EndInv
<1> QED
  BY <1>1, <1>2, PrefixKept DEF StreamInv

(* A call that returns a row, or None again, leaves the reader where it stands. *)
LEMMA RestingReturn ==
  ASSUME TypeOK, StreamInv, NEW o \in {"none", "row", "match", "MatchAllocationFailed"}, Return(o),
         UNCHANGED <<input, exposed, consumed, finished>>,
         pc = IF o = "none" THEN "begin" ELSE "lent"
  PROVE  StreamInv'
<1>1. o \in Outcome
  BY DEF Outcome
<1>2. (Broken => Broken') /\ pc' = "idle" /\ outcomes'[Len(outcomes')] = o
  BY <1>1, BrokenAfter
<1>3. LentInv'
  BY <1>2 DEF StreamInv, LentInv, LastOutcome
<1> QED
  BY <1>2, <1>3, RestingStep

(* A row that is lent is the next record, and behind it stands the one after it. *)
LEMMA LentRowFrames ==
  ASSUME TypeInv, StopInv, AccountInv, StreamInv, LendRow
  PROVE  StreamInv'
<1> DEFINE n == Len(exposed)
           r == Stream!Records(input)[n + 1]
<1>1. n \in Nat /\ input \in Seq(Byte) /\ DOMAIN exposed = 1 .. n
      /\ exposed \in Seq([number : 1 .. U64Max, raw : Seq(Byte), stop : 0 .. U64Max])
  BY InputIs DEF TypeInv, TypeOK
<1>2. /\ IsRow /\ UNCHANGED <<input, consumed, rawRow, outcomes>>
      /\ pc' = "lent" /\ finished' = (pc = "eof")
      /\ exposed' = Append(exposed, [number |-> nextRow, raw |-> rawRow, stop |-> consumed])
  BY DEF LendRow, CountTheRow, LastRow
<1>3. pc \in {"line", "eof"}
  BY <1>2 DEF IsRow
<1>4. ~Stopped /\ nextRow = n + 1
  BY <1>3 DEF StopInv, AccountInv, RunningAccounts
<1>5. /\ n + 1 \in 1 .. Len(Stream!Records(input))
      /\ r.raw = rawRow /\ r.stop = consumed
      /\ ~Stream!IsTerminator(r)
      /\ pc = "line" => Between(input, consumed, n + 1)
      /\ pc = "eof" => n + 1 = Len(Stream!Records(input)) /\ consumed = Len(input)
  BY <1>2, RowIsNextRecord DEF StreamInv
<1> HIDE DEF n, r
<1>6. /\ Len(exposed') = n + 1
      /\ \A k \in 1 .. n : exposed'[k] = exposed[k]
      /\ exposed'[n + 1] = [number |-> n + 1, raw |-> r.raw, stop |-> r.stop]
  BY <1>1, <1>2, <1>4, <1>5 DEF n
<1>7. RowsUpto(input, n + 1)
  <2>1. \A j \in 1 .. n + 1 : j \in 1 .. n \/ j = n + 1
    BY <1>1
  <2>2. \A j \in 1 .. n : ~Stream!IsTerminator(Stream!Records(input)[j])
    BY DEF StreamInv, PrefixInv, RowsUpto, n
  <2>3. n + 1 \in 0 .. Len(Stream!Records(input))
    BY <1>1, <1>5
  <2> QED
    BY <1>5, <2>1, <2>2, <2>3 DEF RowsUpto, r
<1>8. PrefixInv'
  <2>1. \A k \in 1 .. n + 1 :
          exposed'[k] = [number |-> k, raw |-> Stream!Records(input)[k].raw, stop |-> Stream!Records(input)[k].stop]
    <3> SUFFICES ASSUME NEW k \in 1 .. n + 1
                 PROVE  exposed'[k] = [number |-> k, raw |-> Stream!Records(input)[k].raw,
                                       stop |-> Stream!Records(input)[k].stop]
      OBVIOUS
    <3>1. CASE k = n + 1
      BY <1>6, <3>1 DEF r
    <3>2. CASE k # n + 1
      <4>1. k \in 1 .. n
        BY <1>1, <3>2
      <4> QED
        BY <1>6, <4>1 DEF StreamInv, PrefixInv, n
    <3> QED
      BY <3>1, <3>2
  <2> QED
    BY <1>2, <1>6, <1>7, <2>1 DEF PrefixInv
<1>9. FrameInv'
  BY <1>2, <1>3, <1>5, <1>6 DEF FrameInv
<1>10. EndInv'
  <2> SUFFICES ASSUME finished'
               PROVE  n + 1 = Len(Stream!Rows(input)) /\ consumed = Stream!StreamEnd(input)
    BY <1>2, <1>6 DEF EndInv
  <2>1. n + 1 = Len(Stream!Records(input)) /\ consumed = Len(input)
    BY <1>2, <1>5
  <2> QED
    BY <1>1, <1>7, <2>1, RowsAreRecords
<1>11. LentInv'
  BY <1>1, <1>2, <1>5, <1>6 DEF LentInv
<1> QED
  BY <1>8, <1>9, <1>10, <1>11 DEF StreamInv

-----------------------------------------------------------------------------
(* One case for each action of the reader. *)
LEMMA StreamInvStep == TypeInv /\ StopInv /\ AccountInv /\ StreamInv /\ [Next]_vars => StreamInv'
<1> SUFFICES ASSUME TypeInv, StopInv, AccountInv, StreamInv, [Next]_vars PROVE StreamInv'
  OBVIOUS
<1> USE DEF Reading
<1> DEFINE n == Len(exposed)
<1>type. /\ TypeOK /\ n \in Nat /\ input \in Seq(Byte) /\ Len(input) \in Nat
         /\ consumed \in 0 .. Len(input)
  BY InputIs DEF TypeInv
<1>run. pc \in Reading \cup {"line", "eof"} => finished
  BY DEF StopInv
<1>frame. FrameInv
  BY DEF StreamInv
<1> HIDE DEF n
<1>next. ASSUME TakesByte PROVE consumed \in 0 .. Len(input) - 1 /\ NextByte = input[consumed + 1]
  BY <1>next, ReaderAssumption DEF TakesByte, NextByte, TypeInv, TypeOK, Cursors
<1>1. CASE UNCHANGED vars
  BY <1>1 DEF vars, StreamInv, FrameInv, PrefixInv, RowsUpto, EndInv, LentInv, LastOutcome, Broken
<1>2. CASE Caller
  <2>1. /\ UNCHANGED <<input, exposed, consumed, finished, outcomes>>
        /\ pc = "idle" /\ pc' = "begin"
    BY <1>2 DEF Caller, NextRow, FindFirst, Call
  <2> QED
    BY <2>1, RestingStep DEF Broken, LentInv
<1>3. CASE NothingMore
  <2>1. /\ Return("none") /\ pc = "begin"
        /\ UNCHANGED <<input, exposed, consumed, finished>>
    BY <1>3 DEF NothingMore
  <2> QED
    BY <2>1, <1>type, RestingReturn
<1>4. CASE StartRow
  <2>1. /\ Between(input, consumed, n) /\ UNCHANGED <<input, consumed, exposed>>
        /\ rawRow' = << >> /\ pc' = "byte"
    BY <1>4, <1>frame DEF StartRow, FrameInv, n
  <2>2. Within(input, consumed, n, << >>) /\ ~Stream!OddEscape(input, consumed + 1)
    BY <1>type, <2>1, RecordBegins DEF Between
  <2>3. FrameInv'
    BY <2>1, <2>2 DEF FrameInv, n
  <2> QED
    BY <2>1, <2>3, RecordStep
<1>5. CASE Fill
  <2>1. UNCHANGED <<input, consumed, exposed, rawRow, pc, finished>> /\ pc \in Reading
    BY <1>5 DEF Fill
  <2>2. FrameInv'
    BY <1>frame, <2>1 DEF FrameInv
  <2> QED
    BY <2>1, <2>2, RecordStep
<1>6. CASE SourceFails
  BY <1>6, <1>type, <1>run, FailedCall DEF SourceFails, RowErrors
<1>7. CASE RefuseByte
  <2>1. NextByteFault \in RowErrors
    BY <1>7, ByteVerdict DEF RefuseByte
  <2> QED
    BY <1>7, <1>type, <1>run, <2>1, FailedCall DEF RefuseByte, TakesByte
<1>8. CASE KeepByte
  <2>1. /\ consumed \in 0 .. Len(input) - 1 /\ consumed' = consumed + 1
        /\ pc \in {"byte", "escaped"}
        /\ pc = "escaped" \/ input[consumed + 1] \notin {LF, CR}
        /\ rawRow' = Append(rawRow, input[consumed + 1])
        /\ pc' \in {"byte", "escaped"}
        /\ pc' = "escaped" <=> input[consumed + 1] = BSL /\ pc # "escaped"
        /\ UNCHANGED <<input, exposed>>
    BY <1>8, <1>next DEF KeepByte, TakeByte, IsRowByte
  <2>2. Within(input, consumed, n, rawRow) /\ (Stream!OddEscape(input, consumed + 1) <=> pc = "escaped")
    BY <1>frame, <2>1 DEF FrameInv, n
  <2>3. /\ Within(input, consumed + 1, n, Append(rawRow, input[consumed + 1]))
        /\ Stream!OddEscape(input, consumed + 2) <=> pc' = "escaped"
    BY <1>type, <2>1, <2>2, RecordGoesOn
  <2>4. consumed' + 1 = consumed + 2
    BY <2>1
  <2>5. FrameInv'
    BY <2>1, <2>3, <2>4 DEF FrameInv, n
  <2> QED
    BY <2>1, <2>5, RecordStep
<1>9. CASE RejectByte
  <2>1. PICK o \in {"CopyRowByteLimitExceeded", "CopyAllocationFailed"} : Return(o)
    BY <1>9 DEF RejectByte
  <2>2. o \in RowErrors
    BY DEF RowErrors
  <2>3. pc \in Reading /\ finished' = finished /\ UNCHANGED <<input, exposed>>
    BY <1>9 DEF RejectByte, TakeByte, TakesByte
  <2> QED
    BY <2>1, <2>2, <2>3, <1>type, <1>run, FailedCall
<1>10. CASE TakeLineEnd
  <2>1. /\ consumed \in 0 .. Len(input) - 1 /\ consumed' = consumed + 1
        /\ pc = "byte" /\ input[consumed + 1] \in {LF, CR}
        /\ pc' = (IF input[consumed + 1] = LF THEN "line" ELSE "cr")
        /\ UNCHANGED <<input, exposed, rawRow>>
    BY <1>10, <1>next DEF TakeLineEnd, TakeByte
  <2>2. Within(input, consumed, n, rawRow) /\ ~Stream!OddEscape(input, consumed + 1)
    BY <1>frame, <2>1 DEF FrameInv, n
  <2>3. AtLineEnd(input, consumed + 1, n, rawRow)
    BY <1>type, <2>1, <2>2, RecordEnds
  <2>4. CASE input[consumed + 1] = LF
    <3>1. Stream!Beyond(input, consumed + 1) = consumed + 1
      BY <1>type, <2>4, BeyondIs DEF LF, CR
    <3>2. pc' = "line" /\ consumed + 1 \in Ends(input)
      BY <2>1, <2>3, <2>4 DEF AtLineEnd
    <3>3. FrameInv'
      BY <2>1, <2>3, <3>1, <3>2 DEF FrameInv, n
    <3> QED
      BY <2>1, <3>2, <3>3, RecordStep
  <2>5. CASE input[consumed + 1] # LF
    <3>1. pc' = "cr" /\ input[consumed + 1] = CR
      BY <2>1, <2>5
    <3>2. FrameInv'
      BY <2>1, <2>3, <3>1 DEF FrameInv, n
    <3> QED
      BY <2>1, <3>1, <3>2, RecordStep
  <2> QED
    BY <2>4, <2>5
<1>11. CASE TakePairedLineFeed
  <2>1. /\ consumed \in 0 .. Len(input) - 1 /\ consumed' = consumed + 1
        /\ pc = "cr" /\ input[consumed + 1] = LF /\ pc' = "line"
        /\ UNCHANGED <<input, exposed, rawRow>>
    BY <1>11, <1>next DEF TakePairedLineFeed, TakeByte, TakesByte
  <2>2. input[consumed] = CR /\ AtLineEnd(input, consumed, n, rawRow) /\ consumed \in Ends(input)
    BY <1>frame, <2>1 DEF FrameInv, n, AtLineEnd
  <2>3. Stream!Beyond(input, consumed) = consumed + 1
    BY <1>type, <2>1, <2>2, BeyondIs
  <2>4. FrameInv'
    BY <2>1, <2>2, <2>3 DEF FrameInv, n
  <2> QED
    BY <2>1, <2>4, RecordStep
<1>12. CASE LoneCarriageReturn
  <2>1. /\ pc = "cr" /\ pc' = "line" /\ UNCHANGED <<input, exposed, rawRow, consumed>>
        /\ consumed = Len(input) \/ input[consumed + 1] # LF
    BY <1>12 DEF LoneCarriageReturn, AtEof, NextByte
  <2>2. input[consumed] = CR /\ AtLineEnd(input, consumed, n, rawRow) /\ consumed \in Ends(input)
    BY <1>frame, <2>1 DEF FrameInv, n, AtLineEnd
  <2>3. Stream!Beyond(input, consumed) = consumed
    BY <1>type, <2>1, <2>2, BeyondIs
  <2>4. FrameInv'
    BY <2>1, <2>2, <2>3 DEF FrameInv, n
  <2> QED
    BY <2>1, <2>4, RecordStep
<1>13. CASE EndOfInput
  <2>0. consumed = Len(input) /\ UNCHANGED <<input, exposed, rawRow, consumed>> /\ finished' = finished
    BY <1>13 DEF EndOfInput, AtEof
  <2>1. CASE pc = "byte" /\ pc' = "eof" /\ UNCHANGED outcomes
    <3>1. Within(input, consumed, n, rawRow)
      BY <1>frame, <2>1 DEF FrameInv, n
    <3>2. FrameInv'
      BY <2>0, <2>1, <3>1 DEF FrameInv, n
    <3> QED
      BY <2>0, <2>1, <3>2, RecordStep
  <2>2. CASE pc = "escaped" /\ Return("MalformedCopyEscape")
    BY <2>0, <2>2, <1>type, <1>run, FailedCall DEF RowErrors
  <2> QED
    BY <1>13, <2>1, <2>2 DEF EndOfInput
<1>14. CASE EndOfStream
  <2>1. /\ Return("none") /\ UNCHANGED <<input, exposed, consumed, finished>>
        /\ pc \in {"line", "eof"} /\ (EmptyEof \/ (pc = "line" /\ rawRow = CopyTerminator))
    BY <1>14 DEF EndOfStream, EmptyEof
  <2>2. "none" \in Outcome
    BY DEF Outcome
  <2>3. pc' = "idle" /\ finished' /\ outcomes'[Len(outcomes')] = "none"
    BY <1>type, <1>run, <2>1, <2>2, BrokenAfter
  <2>4. Len(exposed) = Len(Stream!Rows(input)) /\ consumed = Stream!StreamEnd(input)
    BY <2>1, NoMoreRows DEF StreamInv
  <2>5. FrameInv' /\ EndInv' /\ LentInv'
    BY <2>1, <2>3, <2>4 DEF FrameInv, EndInv, LentInv, LastOutcome
  <2> QED
    BY <2>1, <2>5, PrefixKept DEF StreamInv
<1>15. CASE UnendedTerminator
  BY <1>15, <1>type, <1>run, FailedCall DEF UnendedTerminator, RowErrors
<1>16. CASE RefuseRow
  <2>1. RowCountFault \in RowErrors
    BY <1>16, RowVerdict DEF RefuseRow
  <2> QED
    BY <1>16, <1>type, <1>run, <2>1, FailedCall DEF RefuseRow, IsRow
<1>17. CASE RejectCountedRow
  <2>1. PICK fault \in CountedRowFaults : Return(fault)
    BY <1>17 DEF RejectCountedRow
  <2>2. fault \in RowErrors
    BY CountedVerdict
  <2> QED
    BY <1>17, <1>type, <1>run, <2>1, <2>2, FailedCall DEF RejectCountedRow, CountTheRow, IsRow
<1>18. CASE LendRow
  BY <1>18, LentRowFrames
<1>19. CASE ReturnRow
  BY <1>19, <1>type, RestingReturn DEF ReturnRow
<1>20. CASE PredicateFalse
  <2>1. /\ UNCHANGED <<input, exposed, consumed, finished, outcomes>>
        /\ pc = "lent" /\ pc' = "begin"
    BY <1>20 DEF PredicateFalse
  <2> QED
    BY <2>1, RestingStep DEF Broken, LentInv
<1>21. CASE PredicateTrue
  BY <1>21, <1>type, RestingReturn DEF PredicateTrue
<1> QED
  BY <1>1, <1>2, <1>3, <1>4, <1>5, <1>6, <1>7, <1>8, <1>9, <1>10, <1>11, <1>12, <1>13,
     <1>14, <1>15, <1>16, <1>17, <1>18, <1>19, <1>20, <1>21
  DEF Next, Progress

-----------------------------------------------------------------------------
(* The rows lent are the first rows of the input, and where a call returns the
   bytes taken end with the last of them, or with the stream: read_record,
   next_row_with_budget and find_first_with_limits, for every input.           *)
THEOREM LentRowsAreTheInputs == Spec => []LentRowsAreThePrefix
<1>1. TypeInv /\ StopInv /\ StreamInv => LentRowsAreThePrefix
  <2> SUFFICES ASSUME TypeInv, StopInv, StreamInv PROVE LentRowsAreThePrefix
    OBVIOUS
  <2> DEFINE n == Len(exposed)
             rows == Stream!Rows(input)
             records == Stream!Records(input)
  <2>1. n \in Nat /\ input \in Seq(Byte) /\ DOMAIN exposed = 1 .. n
    BY InputIs
  <2>2. RowsUpto(input, n) /\ PrefixInv
    BY DEF StreamInv, PrefixInv
  <2>3. n <= Len(rows) /\ \A k \in 1 .. n : rows[k] = records[k]
    <3> HIDE DEF n
    <3> QED
      BY <2>1, <2>2, RowsAreRecords
  <2>4. \A k \in 1 .. n : exposed[k] = [number |-> k, raw |-> rows[k].raw, stop |-> rows[k].stop]
    BY <2>2, <2>3 DEF PrefixInv
  <2>5. ASSUME pc = "idle", NEW o \in {"row", "match", "MatchAllocationFailed"}, LastOutcome(o)
        PROVE  consumed = rows[n].stop
    <3>1. n # 0 /\ consumed = exposed[n].stop
      BY <2>5 DEF StreamInv, LentInv
    <3>2. n \in 1 .. n
      BY <2>1, <3>1
    <3>3. exposed[n].stop = rows[n].stop
      <4> HIDE DEF n, rows
      <4>1. exposed[n] = [number |-> n, raw |-> rows[n].raw, stop |-> rows[n].stop]
        BY <2>4, <3>2
      <4> QED
        BY <4>1
    <3> QED
      BY <3>1, <3>3
  <2>6. ASSUME pc = "idle", ~Broken, LastOutcome("none")
        PROVE  n = Len(rows) /\ consumed = Stream!StreamEnd(input)
    <3>1. outcomes \in Seq(Outcome)
      BY DEF TypeInv, TypeOK
    <3>2. Len(outcomes) \in DOMAIN outcomes
      BY <2>6, <3>1 DEF LastOutcome
    <3>3. finished
      BY <2>6, <3>2 DEF LastOutcome, Stopped, StopInv
    <3> QED
      BY <2>6, <3>3 DEF StreamInv, EndInv
  <2> HIDE DEF n, rows, records
  <2> QED
    BY <2>1, <2>3, <2>4, <2>5, <2>6 DEF LentRowsAreThePrefix, LastOutcome, n, rows
<1> QED
  BY <1>1, TypeInvInit, TypeInvStep, StopInvInit, StopInvStep, AccountInvInit, AccountInvStep,
     StreamInvInit, StreamInvStep, PTL DEF Spec

-----------------------------------------------------------------------------
(***************************************************************************)
(* The last row number.  Both checks of the counter are made while a row   *)
(* is complete, when the number is one more than the rows lent; what they  *)
(* decide is told by the record the row is.                                *)
(***************************************************************************)
Overflowed == \E i \in DOMAIN outcomes : outcomes[i] = "CopyRowNumberOverflow"

NumbersInv ==
  /\ U64Max <= Len(exposed) => ~Stream!Records(input)[U64Max].line
  /\ Overflowed => /\ Len(exposed) + 1 = U64Max
                   /\ RowsUpto(input, U64Max)
                   /\ Stream!Records(input)[U64Max].line

(* Lending a row and refusing a counted one are the only steps that matter. *)
LEMMA NumbersChange ==
  ASSUME Next
  PROVE  \/ LendRow
         \/ RejectCountedRow
         \/ UNCHANGED <<input, exposed, outcomes>>
         \/ /\ UNCHANGED <<input, exposed>>
            /\ \E o \in Outcome \ {"CopyRowNumberOverflow"} : Return(o)
<1> DEFINE Other == Outcome \ {"CopyRowNumberOverflow"}
           Kept == UNCHANGED <<input, exposed>>
           Said == \E o \in Other : Return(o)
<1> USE DEF Outcome, RowErrors
<1>1. CASE Caller \/ StartRow \/ Fill \/ KeepByte \/ TakeLineEnd \/ TakePairedLineFeed
           \/ LoneCarriageReturn \/ PredicateFalse
  BY <1>1 DEF Caller, NextRow, FindFirst, Call, StartRow, Fill, KeepByte, TakeLineEnd,
     TakePairedLineFeed, LoneCarriageReturn, PredicateFalse
<1>2. CASE NothingMore \/ EndOfStream
  <2>1. Kept /\ Return("none") /\ "none" \in Other
    BY <1>2 DEF NothingMore, EndOfStream
  <2> QED
    BY <2>1
<1>3. CASE SourceFails
  <2>1. Kept /\ Return("CopyIo") /\ "CopyIo" \in Other
    BY <1>3 DEF SourceFails
  <2> QED
    BY <2>1
<1>4. CASE RefuseByte
  <2>1. NextByteFault \in Other
    BY <1>4 DEF RefuseByte, NextByteFault
  <2> QED
    BY <1>4, <2>1 DEF RefuseByte
<1>5. CASE RejectByte
  <2>1. Kept /\ \E o \in {"CopyRowByteLimitExceeded", "CopyAllocationFailed"} : Return(o)
    BY <1>5 DEF RejectByte
  <2> QED
    BY <2>1
<1>6. CASE EndOfInput
  <2>1. UNCHANGED <<input, exposed>> /\ (UNCHANGED outcomes \/ Return("MalformedCopyEscape"))
    BY <1>6 DEF EndOfInput
  <2>2. "MalformedCopyEscape" \in Other
    OBVIOUS
  <2> QED
    BY <2>1, <2>2
<1>7. CASE UnendedTerminator
  <2>1. Kept /\ Return("MalformedCopyTerminator") /\ "MalformedCopyTerminator" \in Other
    BY <1>7 DEF UnendedTerminator
  <2> QED
    BY <2>1
<1>8. CASE RefuseRow
  <2>1. RowCountFault \in Other
    BY <1>8 DEF RefuseRow, RowCountFault
  <2> QED
    BY <1>8, <2>1 DEF RefuseRow
<1>9. CASE ReturnRow
  <2>1. Kept /\ Return("row") /\ "row" \in Other
    BY <1>9 DEF ReturnRow
  <2> QED
    BY <2>1
<1>10. CASE PredicateTrue
  <2>1. Kept /\ \E o \in {"match", "MatchAllocationFailed"} : Return(o)
    BY <1>10 DEF PredicateTrue
  <2> QED
    BY <2>1
<1> QED
  BY <1>1, <1>2, <1>3, <1>4, <1>5, <1>6, <1>7, <1>8, <1>9, <1>10 DEF Next, Progress

(* What a call returns overflows only if its outcome says so. *)
LEMMA OverflowedAfter ==
  ASSUME TypeOK, NEW o \in Outcome, Return(o)
  PROVE  Overflowed' <=> Overflowed \/ o = "CopyRowNumberOverflow"
BY ReturnAppends DEF Overflowed

(* A complete row has the next number, and its record ends as it does. *)
LEMMA NextNumber ==
  ASSUME TypeInv, StopInv, AccountInv, StreamInv, IsRow
  PROVE  /\ ~Overflowed
         /\ nextRow = Len(exposed) + 1
         /\ RowsUpto(input, nextRow)
         /\ Stream!Records(input)[nextRow].line <=> pc = "line"
<1> DEFINE n == Len(exposed)
<1>1. pc \in {"line", "eof"} /\ n \in Nat
  BY InputIs DEF IsRow
<1>2. ~Stopped
  BY <1>1 DEF StopInv
<1>3. nextRow = n + 1
  BY <1>1, <1>2 DEF AccountInv, RunningAccounts
<1>4. ~Overflowed
  BY <1>2 DEF Overflowed, Stopped, RowErrors
<1>5. /\ n + 1 \in 1 .. Len(Stream!Records(input))
      /\ Stream!Records(input)[n + 1].line <=> pc = "line"
      /\ ~Stream!IsTerminator(Stream!Records(input)[n + 1])
  BY RowIsNextRecord DEF StreamInv
<1>6. RowsUpto(input, n)
  BY DEF StreamInv, PrefixInv
<1> HIDE DEF n
<1>7. RowsUpto(input, n + 1)
  <2>1. \A j \in 1 .. n + 1 : j \in 1 .. n \/ j = n + 1
    BY <1>1
  <2>2. n + 1 \in 0 .. Len(Stream!Records(input))
    BY <1>1, <1>5
  <2> QED
    BY <1>5, <1>6, <2>1, <2>2 DEF RowsUpto
<1> QED
  BY <1>3, <1>4, <1>5, <1>7 DEF n

LEMMA NumbersInvStep ==
  TypeInv /\ StopInv /\ AccountInv /\ StreamInv /\ NumbersInv /\ [Next]_vars => NumbersInv'
<1> SUFFICES ASSUME TypeInv, StopInv, AccountInv, StreamInv, NumbersInv, [Next]_vars
             PROVE  NumbersInv'
  OBVIOUS
<1>type. TypeOK /\ Len(exposed) \in Nat /\ U64Max \in Nat
  BY InputIs, ReaderAssumption DEF TypeInv
<1>1. CASE UNCHANGED <<input, exposed, outcomes>>
  BY <1>1 DEF NumbersInv, Overflowed, RowsUpto
<1>2. CASE UNCHANGED <<input, exposed>> /\ \E o \in Outcome \ {"CopyRowNumberOverflow"} : Return(o)
  <2>1. Overflowed' <=> Overflowed
    BY <1>2, <1>type, OverflowedAfter
  <2> QED
    BY <1>2, <2>1 DEF NumbersInv, RowsUpto
<1>3. CASE LendRow
  <2>1. /\ IsRow /\ ~RowNumberFull /\ UNCHANGED <<input, outcomes>>
        /\ exposed' = Append(exposed, [number |-> nextRow, raw |-> rawRow, stop |-> consumed])
    BY <1>3 DEF LendRow, CountTheRow
  <2>2. ~Overflowed' /\ nextRow = Len(exposed) + 1
    BY <2>1, NextNumber DEF Overflowed
  <2>3. Len(exposed') = Len(exposed) + 1
    BY <1>type, <2>1 DEF TypeOK
  <2>4. ASSUME U64Max = nextRow PROVE ~Stream!Records(input)[U64Max].line
    BY <2>1, <2>4, NextNumber DEF RowNumberFull
  <2>5. U64Max <= Len(exposed') => ~Stream!Records(input)[U64Max].line
    BY <1>type, <2>2, <2>3, <2>4 DEF NumbersInv
  <2> QED
    BY <2>1, <2>2, <2>5 DEF NumbersInv
<1>4. CASE RejectCountedRow
  <2>1. IsRow /\ UNCHANGED <<input, exposed>>
    BY <1>4 DEF RejectCountedRow, CountTheRow
  <2>2. PICK fault \in CountedRowFaults : Return(fault)
    BY <1>4 DEF RejectCountedRow
  <2>3. fault \in Outcome
    BY CountedVerdict DEF Outcome
  <2>4. fault = "CopyRowNumberOverflow" => RowNumberFull
    BY LayoutVerdict DEF CountedRowFaults
  <2>5. Overflowed' => pc = "line" /\ nextRow = U64Max
    BY <1>type, <2>1, <2>2, <2>3, <2>4, OverflowedAfter, NextNumber DEF RowNumberFull
  <2>6. Overflowed' => /\ Len(exposed) + 1 = U64Max
                       /\ RowsUpto(input, U64Max)
                       /\ Stream!Records(input)[U64Max].line
    BY <2>1, <2>5, NextNumber
  <2> QED
    BY <2>1, <2>6 DEF NumbersInv, RowsUpto
<1> QED
  BY <1>1, <1>2, <1>3, <1>4, NumbersChange DEF vars

(* The two checks of the row counter agree with the input, for every width of the
   counter: the last number is lent only to a row that the input's end closes, and
   a row is refused for want of a number only if its line is ended and every other
   number has been lent.                                                          *)
THEOREM LastNumbersCorrect == Spec => []RowNumbersRunOut
<1>1. Init => NumbersInv
  <2> SUFFICES ASSUME Init PROVE NumbersInv
    OBVIOUS
  <2>1. Len(exposed) = 0 /\ ~Overflowed /\ U64Max >= 1
    BY ReaderAssumption DEF Init, Overflowed
  <2> QED
    BY <2>1, ReaderAssumption DEF NumbersInv
<1>2. TypeInv /\ StreamInv /\ NumbersInv => RowNumbersRunOut
  <2> SUFFICES ASSUME TypeInv, StreamInv, NumbersInv PROVE RowNumbersRunOut
    OBVIOUS
  <2> DEFINE n == Len(exposed)
             rows == Stream!Rows(input)
             records == Stream!Records(input)
  <2>1. n \in Nat /\ input \in Seq(Byte) /\ DOMAIN exposed = 1 .. n /\ U64Max \in Nat \ {0}
    BY InputIs, ReaderAssumption
  <2>2. RowsUpto(input, n)
    BY DEF StreamInv, PrefixInv
  <2>3. \A k \in 1 .. n : exposed[k].number = k
    <3> SUFFICES ASSUME NEW k \in 1 .. n PROVE exposed[k].number = k
      OBVIOUS
    <3>1. exposed[k] = [number |-> k, raw |-> records[k].raw, stop |-> records[k].stop]
      BY DEF StreamInv, PrefixInv
    <3> HIDE DEF n, records
    <3> QED
      BY <3>1
  <2>4. \A k \in 1 .. n : rows[k] = records[k]
    <3> HIDE DEF n
    <3> QED
      BY <2>1, <2>2, RowsAreRecords
  <2>5. \A k \in 1 .. n : exposed[k].number = U64Max => ~rows[k].line
    BY <2>1, <2>3, <2>4 DEF NumbersInv
  <2>6. ASSUME Overflowed PROVE n + 1 = U64Max /\ U64Max <= Len(rows) /\ rows[U64Max].line
    <3>1. n + 1 = U64Max /\ RowsUpto(input, U64Max) /\ records[U64Max].line
      BY <2>6 DEF NumbersInv
    <3>2. U64Max <= Len(rows) /\ \A k \in 1 .. U64Max : rows[k] = records[k]
      BY <2>1, <3>1, RowsAreRecords
    <3>3. U64Max \in 1 .. U64Max
      BY <2>1
    <3> QED
      BY <3>1, <3>2, <3>3
  <2> HIDE DEF n, rows, records
  <2> QED
    BY <2>1, <2>5, <2>6 DEF RowNumbersRunOut, Overflowed, n, rows
<1> QED
  BY <1>1, <1>2, NumbersInvStep, TypeInvInit, TypeInvStep, StopInvInit, StopInvStep,
     AccountInvInit, AccountInvStep, StreamInvInit, StreamInvStep, PTL DEF Spec

-----------------------------------------------------------------------------
(***************************************************************************)
(* The refinement: every step of the reader is a step of RowStream, or one *)
(* that it does not see.                                                   *)
(***************************************************************************)
(* Both modules take the same layouts for good. *)
LEMMA StreamInspects ==
  \A raw, fields : Stream!InspectFieldLayout(raw, fields) = InspectFieldLayout(raw, fields)
<1>1. /\ Stream!BSL = BSL /\ Stream!TAB = TAB /\ Stream!DOT = DOT
      /\ \A T : Stream!Cardinality(T) = Cardinality(T)
  BY StreamSpeaksCopyText DEF Stream!TAB, TAB, Stream!DOT, DOT
<1>2. \A raw : Stream!Escaped(raw) = Escaped(raw)
  BY <1>1, Zenon DEF Stream!Escaped, Escaped
<1>3. \A raw, b : Stream!Unescaped(raw, b) = Unescaped(raw, b)
  BY <1>2, Zenon DEF Stream!Unescaped, Unescaped
<1>4. \A raw : Stream!DotEscapes(raw) = DotEscapes(raw) /\ Stream!Dangling(raw) = Dangling(raw)
  BY <1>1, <1>3, Zenon DEF Stream!DotEscapes, DotEscapes, Stream!Dangling, Dangling
<1>5. \A raw, f : Stream!ExcessTabs(raw, f) = ExcessTabs(raw, f)
  BY <1>1, <1>3, Zenon DEF Stream!ExcessTabs, ExcessTabs
<1>6. \A raw : Stream!FieldCount(raw) = FieldCount(raw)
  BY <1>1, <1>3, Zenon DEF Stream!FieldCount, FieldCount
<1>7. \A S : Stream!Min(S) = Min(S)
  BY Zenon DEF Stream!Min, Min
<1> QED
  BY <1>4, <1>5, <1>6, <1>7 DEF Stream!InspectFieldLayout, InspectFieldLayout

(* A layout that any limit on fields accepts is accepted when none is in force. *)
LEMMA AcceptedIsWellFormed ==
  ASSUME NEW raw \in Seq(Byte), NEW fields \in Nat, InspectFieldLayout(raw, fields) = "ok"
  PROVE  InspectFieldLayout(raw, Len(raw) + 1) = "ok"
<1> DEFINE tabs == Unescaped(raw, TAB)
           upto(i) == {j \in tabs : j <= i}
           few == Len(raw) + 1
<1>1. DotEscapes(raw) = {} /\ Dangling(raw) = {}
  BY DEF InspectFieldLayout
<1>2. tabs \subseteq 1 .. Len(raw) /\ Len(raw) \in Nat
  BY DEF Unescaped
<1>3. IsFiniteSet(1 .. Len(raw)) /\ Cardinality(1 .. Len(raw)) = Len(raw)
  <2> DEFINE l == Len(raw)
  <2>1. l \in Nat /\ 1 \in Int /\ l \in Int /\ (IF 1 > l THEN 0 ELSE l - 1 + 1) = l
    BY <1>2
  <2> HIDE DEF l
  <2>2. IsFiniteSet(1 .. l) /\ Cardinality(1 .. l) = l
    BY <2>1, FS_Interval
  <2> QED
    BY <2>2 DEF l
<1>4. \A S \in SUBSET tabs : Cardinality(S) + 1 <= few
  <2> SUFFICES ASSUME NEW S \in SUBSET tabs PROVE Cardinality(S) + 1 <= few
    OBVIOUS
  <2>1. S \subseteq 1 .. Len(raw)
    BY <1>2
  <2>2. IsFiniteSet(S) /\ Cardinality(S) <= Len(raw)
    BY <1>3, <2>1, FS_Subset
  <2>3. Cardinality(S) \in Nat
    BY <2>2, FS_CardinalityType
  <2> QED
    BY <1>2, <2>2, <2>3
<1>5. \A i : upto(i) \in SUBSET tabs
  OBVIOUS
<1>6. \A S \in SUBSET tabs : ~(Cardinality(S) + 1 > few)
  <2>1. \A S \in SUBSET tabs : Cardinality(S) \in Nat
    <3>1. IsFiniteSet(tabs)
      BY <1>2, <1>3, FS_Subset
    <3> QED
      BY <3>1, FS_Subset, FS_CardinalityType
  <2> QED
    BY <1>2, <1>4, <2>1
<1>7. ExcessTabs(raw, few) = {}
  <2>1. \A i \in tabs : ~(Cardinality(upto(i)) + 1 > few)
    BY <1>5, <1>6
  <2> HIDE DEF few
  <2> QED
    BY <2>1 DEF ExcessTabs
<1>8. ~(FieldCount(raw) > few)
  BY <1>6 DEF FieldCount
<1> HIDE DEF few
<1>9. InspectFieldLayout(raw, few) = "ok"
  BY <1>1, <1>7, <1>8 DEF InspectFieldLayout
<1> QED
  BY <1>9 DEF few

-----------------------------------------------------------------------------
AtRest == pc \in {"idle", "begin", "lent"}

(* A call that is reading, or a reader that is not finished, stands on an open stream. *)
LEMMA OpenUntilStopped ==
  ASSUME StopInv, ~AtRest \/ ~finished, pc # "idle" \/ ~finished
  PROVE  ~Broken /\ Phase = "open"
<1>1. ~Stopped
  BY DEF StopInv, AtRest
<1>2. ~Broken
  BY <1>1 DEF Stopped, Broken
<1> QED
  BY <1>2 DEF Phase, AtRest

(* A step that the stream does not see. *)
LEMMA StreamStutters ==
  ASSUME UNCHANGED <<input, exposed>>, Phase' = Phase
  PROVE  UNCHANGED Stream!vars
BY DEF Stream!vars

(* Between two records the phase is what the history and the finished flag make it. *)
LEMMA StreamRests ==
  ASSUME UNCHANGED <<input, exposed, finished>>, AtRest, AtRest', Broken' <=> Broken
  PROVE  UNCHANGED Stream!vars
<1>1. Phase' = Phase
  BY DEF Phase, AtRest
<1> QED
  BY <1>1, StreamStutters

(* Inside a record nothing shows. *)
LEMMA StreamWaits ==
  ASSUME StopInv, UNCHANGED <<input, exposed, outcomes>>, ~AtRest \/ ~finished, ~AtRest'
  PROVE  UNCHANGED Stream!vars
<1>1. ~Broken /\ Phase = "open"
  <2>1. ~Stopped
    BY DEF StopInv, AtRest
  <2> QED
    BY <2>1 DEF Stopped, Broken, Phase, AtRest
<1>2. ~Broken'
  BY <1>1 DEF Broken
<1>3. Phase' = "open"
  BY <1>2 DEF Phase, AtRest
<1> QED
  BY <1>1, <1>3, StreamStutters

(* An error breaks the stream. *)
LEMMA StreamBreaks ==
  ASSUME TypeOK, StopInv, ~AtRest, NEW o \in RowErrors, Return(o), UNCHANGED <<input, exposed>>
  PROVE  Stream!Break
<1>1. Phase = "open"
  BY OpenUntilStopped DEF AtRest
<1>2. o \in Outcome
  BY DEF Outcome
<1>3. Broken'
  BY <1>2, BrokenAfter
<1>4. Phase' = "broken"
  BY <1>3 DEF Phase
<1> QED
  BY <1>1, <1>4 DEF Stream!Break

(* A clean end comes after the last row. *)
LEMMA StreamFinishes ==
  ASSUME TypeInv, StopInv, StreamInv, EndOfStream
  PROVE  Stream!Finish
<1>1. /\ Return("none") /\ UNCHANGED <<input, exposed, finished>>
      /\ pc \in {"line", "eof"} /\ (EmptyEof \/ (pc = "line" /\ rawRow = CopyTerminator))
  BY DEF EndOfStream, EmptyEof
<1>2. ~Broken /\ Phase = "open" /\ finished
  BY <1>1, OpenUntilStopped DEF AtRest, StopInv
<1>3. Len(exposed) = Len(Stream!Rows(input))
  BY <1>1, NoMoreRows DEF StreamInv
<1>4. "none" \in Outcome /\ "none" \notin RowErrors
  BY DEF Outcome, RowErrors
<1>5. ~Broken' /\ pc' = "idle"
  BY <1>1, <1>2, <1>4, BrokenAfter DEF TypeInv
<1>6. Phase' = "ended"
  BY <1>1, <1>2, <1>5 DEF Phase
<1> QED
  BY <1>1, <1>2, <1>3, <1>6 DEF Stream!Finish

(* A row that is lent is the next row, is well-formed, and ends the stream if open. *)
LEMMA StreamDelivers ==
  ASSUME TypeInv, StopInv, AccountInv, StreamInv, LendRow
  PROVE  Stream!Deliver
<1> DEFINE n == Len(exposed)
           r == Stream!Rows(input)[n + 1]
<1>1. n \in Nat /\ input \in Seq(Byte)
      /\ exposed \in Seq([number : 1 .. U64Max, raw : Seq(Byte), stop : 0 .. U64Max])
      /\ rawRow \in Seq(Byte) /\ limits.fields \in Nat
  BY InputIs, ReaderAssumption DEF TypeInv, TypeOK
<1>2. /\ IsRow /\ UNCHANGED <<input, outcomes>> /\ pc' = "lent" /\ finished' = (pc = "eof")
      /\ exposed' = Append(exposed, [number |-> nextRow, raw |-> rawRow, stop |-> consumed])
      /\ InspectFieldLayout(rawRow, limits.fields) = "ok"
  BY DEF LendRow, CountTheRow, LastRow
<1>3. pc \in {"line", "eof"}
  BY <1>2 DEF IsRow
<1>4. ~Broken /\ Phase = "open"
  BY <1>3, OpenUntilStopped DEF AtRest
<1>5. /\ n + 1 \in 1 .. Len(Stream!Records(input))
      /\ Stream!Records(input)[n + 1].raw = rawRow
      /\ Stream!Records(input)[n + 1].line <=> pc = "line"
      /\ ~Stream!IsTerminator(Stream!Records(input)[n + 1])
  BY <1>2, RowIsNextRecord DEF StreamInv
<1>6. RowsUpto(input, n)
  BY DEF StreamInv, PrefixInv
<1> HIDE DEF n
<1>7. RowsUpto(input, n + 1)
  <2>1. \A j \in 1 .. n + 1 : j \in 1 .. n \/ j = n + 1
    BY <1>1
  <2>2. n + 1 \in 0 .. Len(Stream!Records(input))
    BY <1>1, <1>5
  <2> QED
    BY <1>5, <1>6, <2>1, <2>2 DEF RowsUpto
<1>8. n < Len(Stream!Rows(input)) /\ r = Stream!Records(input)[n + 1]
  <2>1. n + 1 <= Len(Stream!Rows(input)) /\ Len(Stream!Rows(input)) \in Nat
        /\ \A j \in 1 .. n + 1 : Stream!Rows(input)[j] = Stream!Records(input)[j]
    BY <1>1, <1>7, RowsAreRecords
  <2> QED
    BY <1>1, <2>1
<1>9. Stream!IsWellFormed(r)
  <2>1. InspectFieldLayout(rawRow, Len(rawRow) + 1) = "ok"
    BY <1>1, <1>2, AcceptedIsWellFormed
  <2> QED
    BY <1>5, <1>8, <2>1, StreamInspects DEF Stream!IsWellFormed
<1>10. Len(exposed') = n + 1
  BY <1>1, <1>2 DEF n
<1>11. Phase' = IF r.line THEN "open" ELSE "ended"
  <2>1. ~Broken'
    BY <1>2, <1>4 DEF Broken
  <2> QED
    BY <1>2, <1>3, <1>5, <1>8, <2>1 DEF Phase
<1> QED
  BY <1>2, <1>4, <1>8, <1>9, <1>10, <1>11 DEF Stream!Deliver, n

(* One case for each action of the reader. *)
LEMMA StreamStep ==
  ASSUME TypeInv, StopInv, AccountInv, StreamInv, [Next]_vars
  PROVE  Stream!Next \/ UNCHANGED Stream!vars
<1> USE DEF Reading, AtRest
<1>type. TypeOK
  BY DEF TypeInv
<1>1. CASE UNCHANGED vars
  BY <1>1, StreamStutters DEF vars, Phase, Broken
<1>2. CASE Caller
  <2>1. UNCHANGED <<input, exposed, finished, outcomes>> /\ pc = "idle" /\ pc' = "begin"
    BY <1>2 DEF Caller, NextRow, FindFirst, Call
  <2> QED
    BY <2>1, StreamRests DEF Broken
<1>3. ASSUME NEW o \in {"none", "row", "match", "MatchAllocationFailed"}, Return(o),
             UNCHANGED <<input, exposed, finished>>, pc \in {"begin", "lent"}
      PROVE  UNCHANGED Stream!vars
  <2>1. o \in Outcome /\ o \notin RowErrors
    BY DEF Outcome, RowErrors
  <2>2. (Broken' <=> Broken) /\ pc' = "idle"
    BY <1>type, <1>3, <2>1, BrokenAfter
  <2> QED
    BY <1>3, <2>2, StreamRests
<1>4. CASE NothingMore \/ ReturnRow \/ PredicateTrue
  BY <1>3, <1>4 DEF NothingMore, ReturnRow, PredicateTrue
<1>5. CASE PredicateFalse
  <2>1. UNCHANGED <<input, exposed, finished, outcomes>> /\ pc = "lent" /\ pc' = "begin"
    BY <1>5 DEF PredicateFalse
  <2> QED
    BY <2>1, StreamRests DEF Broken
<1>6. CASE StartRow
  <2>1. UNCHANGED <<input, exposed, outcomes>> /\ ~finished /\ pc' = "byte"
    BY <1>6 DEF StartRow
  <2> QED
    BY <2>1, StreamWaits
<1>7. CASE Fill \/ KeepByte \/ TakeLineEnd \/ TakePairedLineFeed \/ LoneCarriageReturn
  <2>1. UNCHANGED <<input, exposed, outcomes>> /\ pc \in Reading /\ pc' \in Reading \cup {"line"}
    BY <1>7 DEF Fill, KeepByte, TakeByte, TakesByte, TakeLineEnd, TakePairedLineFeed, LoneCarriageReturn
  <2> QED
    BY <2>1, StreamWaits
<1>8. ASSUME NEW o \in RowErrors, Return(o), UNCHANGED <<input, exposed>>, pc \in Reading \cup {"line", "eof"}
      PROVE  Stream!Next
  BY <1>type, <1>8, StreamBreaks DEF Stream!Next
<1>9. CASE SourceFails \/ UnendedTerminator
  BY <1>8, <1>9 DEF SourceFails, UnendedTerminator, RowErrors
<1>10. CASE RefuseByte
  <2>1. NextByteFault \in RowErrors
    BY <1>10, ByteVerdict DEF RefuseByte
  <2> QED
    BY <1>8, <1>10, <2>1 DEF RefuseByte, TakesByte
<1>11. CASE RejectByte
  <2>1. PICK o \in {"CopyRowByteLimitExceeded", "CopyAllocationFailed"} : Return(o)
    BY <1>11 DEF RejectByte
  <2>2. o \in RowErrors
    BY DEF RowErrors
  <2>3. pc \in Reading /\ UNCHANGED <<input, exposed>>
    BY <1>11 DEF RejectByte, TakeByte, TakesByte
  <2> QED
    BY <1>8, <2>1, <2>2, <2>3
<1>12. CASE EndOfInput
  <2>1. CASE pc = "byte" /\ pc' = "eof" /\ UNCHANGED outcomes
    BY <1>12, <2>1, StreamWaits DEF EndOfInput
  <2>2. CASE pc = "escaped" /\ Return("MalformedCopyEscape")
    BY <1>8, <1>12, <2>2 DEF EndOfInput, RowErrors
  <2> QED
    BY <1>12, <2>1, <2>2 DEF EndOfInput
<1>13. CASE EndOfStream
  BY <1>13, StreamFinishes DEF Stream!Next
<1>14. CASE RefuseRow
  <2>1. RowCountFault \in RowErrors
    BY <1>14, RowVerdict DEF RefuseRow
  <2> QED
    BY <1>8, <1>14, <2>1 DEF RefuseRow, IsRow
<1>15. CASE RejectCountedRow
  <2>1. PICK fault \in CountedRowFaults : Return(fault)
    BY <1>15 DEF RejectCountedRow
  <2>2. fault \in RowErrors
    BY CountedVerdict
  <2> QED
    BY <1>8, <1>15, <2>1, <2>2 DEF RejectCountedRow, CountTheRow, IsRow
<1>16. CASE LendRow
  BY <1>16, StreamDelivers DEF Stream!Next
<1> QED
  BY <1>1, <1>2, <1>4, <1>5, <1>6, <1>7, <1>9, <1>10, <1>11, <1>12, <1>13, <1>14, <1>15, <1>16
  DEF Next, Progress

(* Byte by byte, with read-ahead, budgets and faults, the reader is a row stream:
   whatever CopyRowReader does is a row delivered, a clean end, a break, or unseen. *)
THEOREM ReaderIsARowStream == Spec => ImplementsRowStream
<1>1. Init => Stream!Init
  <2> SUFFICES ASSUME Init PROVE Stream!Init
    OBVIOUS
  <2>1. input \in Inputs /\ Len(exposed) = 0 /\ outcomes = << >> /\ finished = FALSE
    BY DEF Init
  <2>2. Phase = "open"
    BY <2>1 DEF Phase, Broken
  <2> QED
    BY <2>1, <2>2 DEF Stream!Init
<1>2. TypeInv /\ StopInv /\ AccountInv /\ StreamInv /\ [Next]_vars => [Stream!Next]_(Stream!vars)
  BY StreamStep
<1> QED
  BY <1>1, <1>2, TypeInvInit, TypeInvStep, StopInvInit, StopInvStep, AccountInvInit, AccountInvStep,
     StreamInvInit, StreamInvStep, PTL DEF Spec, ImplementsRowStream, Stream!Spec
======================================================================
