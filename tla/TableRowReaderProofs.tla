------------------------- MODULE TableRowReaderProofs -------------------------
(***************************************************************************)
(* The two row counters of TableRowReader agree, a row that is shown has   *)
(* its columns, and a fatal error is final, for every table, every column  *)
(* list and every width of the counter.                                    *)
(***************************************************************************)
EXTENDS TableRowReader, SequenceTheorems, FiniteSetTheorems, WellFoundedInduction, NaturalsInduction, TLAPS

FatalSeen == \E i \in DOMAIN outcomes : outcomes[i].what \in Fatal

Quiet == {"none", "row", "match", "MatchAllocationFailed", "MetadataError", "ColumnNotFound"}

Outcome == [what : Quiet \cup Fatal, row : Nat]

TypeInv ==
  /\ delivered \in Nat /\ nextRow \in 1 .. U64Max
  /\ phase \in {"open", "ended", "broken"}
  /\ failed \in BOOLEAN
  /\ pc \in {"idle", "pull", "row"}
  /\ shown \in Seq(Nat)
  /\ outcomes \in Seq(Outcome)

(* A reader that has seen a fatal error is never asked into a row again: it is
   marked as failed, or the reader below it has nothing more to give.           *)
StopInv ==
  /\ FatalSeen => pc # "row" /\ (failed \/ phase # "open")
  /\ failed => pc = "idle"

(* The number here and the count below: between rows the next number, while a row
   is handled that row's own; the last number is only lent by a stream that ends. *)
NumberInv ==
  /\ delivered <= U64Max
  /\ delivered = U64Max => phase # "open"
  /\ pc = "row" => delivered = nextRow
  /\ ~FatalSeen /\ pc # "row" =>
       nextRow = IF delivered = U64Max THEN U64Max ELSE delivered + 1

FieldsOf(k) == Len(DecodeFields(Stream!Rows(input)[k].raw))

ShownInv ==
  /\ ~FatalSeen => Len(shown) = IF pc = "row" THEN delivered - 1 ELSE delivered
  /\ \A k \in DOMAIN shown : shown[k] = k /\ (expected # Unknown => FieldsOf(k) = expected)

MismatchInv ==
  \A i \in DOMAIN outcomes :
    outcomes[i].what = "CopyRowFieldCountMismatch" =>
      outcomes[i].row = delivered /\ FieldsOf(delivered) # expected

IInv == TypeInv /\ StopInv /\ NumberInv /\ ShownInv /\ MismatchInv

-----------------------------------------------------------------------------
LEMMA InitInv == Init => IInv
<1> SUFFICES ASSUME Init PROVE IInv
  OBVIOUS
<1>1. /\ delivered = 0 /\ nextRow = 1 /\ phase = "open" /\ failed = FALSE /\ pc = "idle"
      /\ shown = << >> /\ outcomes = << >>
  BY DEF Init, Stream!Init
<1>2. ~FatalSeen
  BY <1>1 DEF FatalSeen
<1>3. U64Max \in Nat /\ U64Max > 0
  BY TableAssumption
<1>4. TypeInv
  <2>1. shown \in Seq(Nat) /\ outcomes \in Seq(Outcome)
    BY <1>1
  <2>2. nextRow \in 1 .. U64Max
    BY <1>1, <1>3
  <2> QED
    BY <1>1, <2>1, <2>2 DEF TypeInv
<1> QED
  BY <1>1, <1>2, <1>3, <1>4 DEF IInv, StopInv, NumberInv, ShownInv, MismatchInv

LEMMA QuietIsNotFatal ==
  \A what \in Quiet : what \notin Fatal /\ what # "CopyRowFieldCountMismatch"
BY DEF Quiet, Fatal

(* A call that returns adds one outcome. *)
LEMMA ReturnAddsOne ==
  ASSUME outcomes \in Seq(Outcome), nextRow \in Nat, NEW what \in Quiet \cup Fatal, Return(what)
  PROVE  /\ pc' = "idle"
         /\ outcomes' \in Seq(Outcome)
         /\ DOMAIN outcomes' = DOMAIN outcomes \cup {Len(outcomes) + 1}
         /\ \A i \in DOMAIN outcomes : outcomes'[i] = outcomes[i]
         /\ outcomes'[Len(outcomes) + 1].what = what
         /\ outcomes'[Len(outcomes) + 1].row = nextRow
         /\ FatalSeen' <=> FatalSeen \/ what \in Fatal
<1> DEFINE new == [what |-> what, row |-> nextRow]
<1>1. new \in Outcome
  BY DEF Outcome
<1>2. outcomes' = Append(outcomes, new) /\ pc' = "idle"
  BY DEF Return
<1>3. /\ outcomes' \in Seq(Outcome)
      /\ DOMAIN outcomes' = DOMAIN outcomes \cup {Len(outcomes) + 1}
      /\ \A i \in DOMAIN outcomes : outcomes'[i] = outcomes[i]
      /\ outcomes'[Len(outcomes) + 1] = new
  BY <1>1, <1>2
<1>4. FatalSeen' <=> FatalSeen \/ what \in Fatal
  <2>1. FatalSeen' = \E i \in DOMAIN outcomes' : outcomes'[i].what \in Fatal
    BY DEF FatalSeen, Fatal
  <2> HIDE DEF new
  <2>2. new.what = what
    BY DEF new
  <2> QED
    BY <1>3, <2>1, <2>2 DEF FatalSeen
<1>5. new.what = what /\ new.row = nextRow
  OBVIOUS
<1> HIDE DEF new
<1> QED
  BY <1>2, <1>3, <1>4, <1>5

(* A call that returns without a row and without a fatal error, and the start of a
   call, leave the rows as they are.                                               *)
LEMMA QuietReturnKeeps ==
  ASSUME IInv, NEW what \in Quiet, Return(what), pc # "row",
         UNCHANGED <<input, delivered, expected, nextRow, failed, shown>>,
         phase' \in {"open", "ended", "broken"}, phase # "open" => phase' = phase
  PROVE  IInv'
<1>1. /\ pc' = "idle"
      /\ outcomes' \in Seq(Outcome)
      /\ DOMAIN outcomes' = DOMAIN outcomes \cup {Len(outcomes) + 1}
      /\ \A i \in DOMAIN outcomes : outcomes'[i] = outcomes[i]
      /\ outcomes'[Len(outcomes) + 1].what = what
      /\ FatalSeen' <=> FatalSeen
  <2>1. outcomes \in Seq(Outcome) /\ nextRow \in Nat
    BY TableAssumption DEF IInv, TypeInv
  <2> QED
    BY <2>1, ReturnAddsOne, QuietIsNotFatal
<1>2. TypeInv' /\ StopInv' /\ NumberInv'
  BY <1>1 DEF IInv, TypeInv, StopInv, NumberInv
<1>3. \A k : FieldsOf(k)' = FieldsOf(k)
  BY DEF FieldsOf
<1>4. ShownInv'
  BY <1>1, <1>3 DEF IInv, ShownInv
<1>5. MismatchInv'
  BY <1>1, <1>3, QuietIsNotFatal DEF IInv, MismatchInv
<1> QED
  BY <1>2, <1>4, <1>5 DEF IInv

(* The start of a call. *)
LEMMA StartKeeps ==
  ASSUME IInv, NEW c, Start(c)
  PROVE  IInv'
<1>1. \A k : FieldsOf(k)' = FieldsOf(k)
  BY DEF FieldsOf, Start, streamVars
<1>2. FatalSeen' = FatalSeen
  BY DEF FatalSeen, Fatal, Start
<1> QED
  BY <1>1, <1>2 DEF Start, MayCall, streamVars, IInv, TypeInv, StopInv, NumberInv, ShownInv, MismatchInv

LEMMA CallerKeeps == IInv /\ Caller => IInv'
<1> SUFFICES ASSUME IInv, Caller PROVE IInv'
  OBVIOUS
<1>1. CASE \E c : Start(c)
  BY <1>1, StartKeeps
<1>2. CASE \E s \in Searches : UnresolvedColumn(s)
  <2>1. PICK what \in {"MetadataError", "ColumnNotFound"} : Return(what)
    BY <1>2 DEF UnresolvedColumn
  <2>2. what \in Quiet
    BY <2>1 DEF Quiet
  <2>3. pc # "row" /\ UNCHANGED <<input, delivered, phase, expected, nextRow, failed, shown>>
    BY <1>2 DEF UnresolvedColumn, MayCall, streamVars
  <2>4. phase \in {"open", "ended", "broken"}
    BY DEF IInv, TypeInv
  <2> QED
    BY <2>1, <2>2, <2>3, <2>4, QuietReturnKeeps
<1>3. CASE AlreadyFailed
  <2>1. /\ Return("none") /\ pc # "row"
        /\ UNCHANGED <<input, delivered, phase, expected, nextRow, failed, shown>>
    BY <1>3 DEF AlreadyFailed, MayCall, streamVars
  <2>2. "none" \in Quiet /\ phase \in {"open", "ended", "broken"}
    BY DEF Quiet, IInv, TypeInv
  <2> QED
    BY <2>1, <2>2, QuietReturnKeeps
<1> QED
  BY <1>1, <1>2, <1>3 DEF Caller, NextRow, FindFirst, FindFirstEqual

LEMMA NoRowKeeps == IInv /\ NoRow => IInv'
<1> SUFFICES ASSUME IInv, NoRow PROVE IInv'
  OBVIOUS
<1>1. /\ Return("none") /\ pc # "row"
      /\ UNCHANGED <<input, delivered, expected, nextRow, failed, shown>>
  BY DEF NoRow, Stream!Finish, streamVars
<1>2. "none" \in Quiet
  BY DEF Quiet
<1>3. phase' \in {"open", "ended", "broken"} /\ (phase # "open" => phase' = phase)
  BY DEF NoRow, Stream!Finish, streamVars, IInv, TypeInv
<1> QED
  BY <1>1, <1>2, <1>3, QuietReturnKeeps

(* The stream below breaks, and with it this reader. *)
LEMMA RowErrorKeeps == IInv /\ RowError => IInv'
<1> SUFFICES ASSUME IInv, RowError PROVE IInv'
  OBVIOUS
<1>1. /\ Return("RowError") /\ pc = "pull" /\ phase' = "broken"
      /\ UNCHANGED <<input, delivered, expected, nextRow, failed, shown>>
  BY DEF RowError, Stream!Break
<1>2. outcomes \in Seq(Outcome) /\ nextRow \in Nat
  BY TableAssumption DEF IInv, TypeInv
<1>3. /\ pc' = "idle"
      /\ outcomes' \in Seq(Outcome)
      /\ DOMAIN outcomes' = DOMAIN outcomes \cup {Len(outcomes) + 1}
      /\ \A i \in DOMAIN outcomes : outcomes'[i] = outcomes[i]
      /\ outcomes'[Len(outcomes) + 1].what = "RowError"
      /\ FatalSeen'
  <2>1. "RowError" \in Fatal
    BY DEF Fatal
  <2> QED
    BY <1>1, <1>2, <2>1, ReturnAddsOne
<1>4. \A k : FieldsOf(k)' = FieldsOf(k)
  BY <1>1 DEF FieldsOf
<1>5. TypeInv' /\ StopInv' /\ NumberInv' /\ ShownInv'
  BY <1>1, <1>3, <1>4 DEF IInv, TypeInv, StopInv, NumberInv, ShownInv
<1>6. MismatchInv'
  BY <1>1, <1>3, <1>4 DEF IInv, MismatchInv
<1> QED
  BY <1>5, <1>6 DEF IInv

LEMMA LentRowKeeps == IInv /\ LentRow => IInv'
<1> SUFFICES ASSUME IInv, LentRow PROVE IInv'
  OBVIOUS
<1>1. /\ pc = "pull" /\ pc' = "row" /\ phase = "open" /\ phase' \in {"open", "ended"}
      /\ delivered' = delivered + 1
      /\ delivered + 1 < U64Max \/ (delivered + 1 = U64Max /\ phase' = "ended")
      /\ UNCHANGED <<input, expected, nextRow, failed, shown, outcomes>>
  BY DEF LentRow, Stream!Deliver
<1>2. ~FatalSeen /\ ~FatalSeen'
  <2>1. ~FatalSeen
    BY <1>1 DEF IInv, StopInv
  <2> QED
    BY <1>1, <2>1 DEF FatalSeen, Fatal
<1>3. \A k : FieldsOf(k)' = FieldsOf(k)
  BY <1>1 DEF FieldsOf
<1>4. TypeInv' /\ StopInv' /\ NumberInv' /\ ShownInv'
  BY <1>1, <1>2, <1>3, TableAssumption DEF IInv, TypeInv, StopInv, NumberInv, ShownInv
<1>5. MismatchInv'
  BY <1>1, <1>2 DEF IInv, MismatchInv, FatalSeen, Fatal
<1> QED
  BY <1>4, <1>5 DEF IInv

-----------------------------------------------------------------------------
(* A row that has been lent, and is handled here. *)
LEMMA RowInHand ==
  ASSUME IInv, pc = "row"
  PROVE  /\ ~FatalSeen /\ ~failed
         /\ delivered = nextRow /\ Len(shown) = delivered - 1
         /\ delivered \in 1 .. U64Max /\ U64Max \in Nat
         /\ shown \in Seq(Nat) /\ outcomes \in Seq(Outcome)
<1>1. U64Max \in Nat
  BY TableAssumption
<1>2. ~FatalSeen
  BY DEF IInv, StopInv
<1> QED
  BY <1>1, <1>2 DEF IInv, TypeInv, StopInv, NumberInv, ShownInv

LEMMA NextNumber ==
  ASSUME IInv, pc = "row"
  PROVE  /\ Saturated = IF delivered = U64Max THEN U64Max ELSE delivered + 1
         /\ Saturated \in 1 .. U64Max
BY RowInHand DEF Saturated

LEMMA MismatchKeeps == IInv /\ Mismatch => IInv'
<1> SUFFICES ASSUME IInv, Mismatch PROVE IInv'
  OBVIOUS
<1>1. /\ pc = "row" /\ Mismatched /\ failed' = TRUE /\ Return("CopyRowFieldCountMismatch")
      /\ nextRow' \in {nextRow, Saturated}
      /\ UNCHANGED <<input, delivered, phase, expected, shown>>
  BY DEF Mismatch, streamVars
<1>2. /\ ~FatalSeen /\ delivered = nextRow /\ delivered \in 1 .. U64Max /\ U64Max \in Nat
      /\ outcomes \in Seq(Outcome)
  BY <1>1, RowInHand
<1>3. nextRow' \in 1 .. U64Max
  BY <1>1, <1>2, NextNumber
<1>4. /\ pc' = "idle"
      /\ outcomes' \in Seq(Outcome)
      /\ DOMAIN outcomes' = DOMAIN outcomes \cup {Len(outcomes) + 1}
      /\ \A i \in DOMAIN outcomes : outcomes'[i] = outcomes[i]
      /\ outcomes'[Len(outcomes) + 1].row = delivered
      /\ FatalSeen'
  <2>1. "CopyRowFieldCountMismatch" \in Fatal
    BY DEF Fatal
  <2>2. nextRow \in Nat
    BY <1>2
  <2> QED
    BY <1>1, <1>2, <2>1, <2>2, ReturnAddsOne
<1>5. \A k : FieldsOf(k)' = FieldsOf(k)
  BY <1>1 DEF FieldsOf
<1>6. TypeInv'
  BY <1>1, <1>3, <1>4 DEF IInv, TypeInv
<1>7. StopInv' /\ NumberInv'
  BY <1>1, <1>4 DEF IInv, StopInv, NumberInv
<1>8. ShownInv'
  BY <1>1, <1>4, <1>5 DEF IInv, ShownInv
<1>9. MismatchInv'
  <2>1. FieldsOf(delivered) # expected
    BY <1>1 DEF Mismatched, Fields, FieldsOf
  <2>2. \A i \in DOMAIN outcomes : outcomes[i].what # "CopyRowFieldCountMismatch"
    BY <1>2 DEF FatalSeen, Fatal
  <2> QED
    BY <1>1, <1>4, <1>5, <2>1, <2>2 DEF MismatchInv
<1> QED
  BY <1>6, <1>7, <1>8, <1>9 DEF IInv

(* A row that has its columns goes to the caller or to the predicate. *)
LEMMA ShowingKeeps ==
  ASSUME IInv, pc = "row", ~Mismatched, shown' = Append(shown, delivered),
         UNCHANGED <<input, delivered, phase, expected, failed>>,
         nextRow' = IF delivered = U64Max THEN U64Max ELSE delivered + 1,
         \/ pc' = "pull" /\ UNCHANGED outcomes
         \/ \E what \in Quiet : Return(what)
  PROVE  IInv'
<1>1. /\ ~FatalSeen /\ ~failed /\ delivered = nextRow /\ Len(shown) = delivered - 1
      /\ delivered \in 1 .. U64Max /\ U64Max \in Nat
      /\ shown \in Seq(Nat) /\ outcomes \in Seq(Outcome)
  BY RowInHand
<1>2. pc' \in {"idle", "pull"} /\ outcomes' \in Seq(Outcome) /\ ~FatalSeen'
  <2>1. CASE pc' = "pull" /\ UNCHANGED outcomes
    BY <1>1, <2>1 DEF FatalSeen, Fatal
  <2>2. CASE \E what \in Quiet : Return(what)
    <3>1. PICK what \in Quiet : Return(what)
      BY <2>2
    <3>2. nextRow \in Nat
      BY <1>1
    <3> QED
      BY <1>1, <3>1, <3>2, ReturnAddsOne, QuietIsNotFatal
  <2> QED
    BY <2>1, <2>2
<1>3. /\ shown' \in Seq(Nat) /\ Len(shown') = delivered
      /\ \A k \in DOMAIN shown' : shown'[k] = IF k \in DOMAIN shown THEN shown[k] ELSE delivered
      /\ \A k \in DOMAIN shown' : k \notin DOMAIN shown => k = delivered
  BY <1>1
<1>4. expected # Unknown => FieldsOf(delivered) = expected
  BY DEF Mismatched, Fields, FieldsOf
<1>5. \A k : FieldsOf(k)' = FieldsOf(k)
  BY DEF FieldsOf
<1>6. TypeInv' /\ StopInv' /\ NumberInv'
  BY <1>1, <1>2, <1>3 DEF IInv, TypeInv, StopInv, NumberInv
<1>7. ShownInv'
  BY <1>2, <1>3, <1>4, <1>5 DEF IInv, ShownInv
<1>8. MismatchInv'
  BY <1>2 DEF MismatchInv, FatalSeen, Fatal
<1> QED
  BY <1>6, <1>7, <1>8 DEF IInv

LEMMA ReturnRowKeeps == IInv /\ ReturnRow => IInv'
<1> SUFFICES ASSUME IInv, ReturnRow PROVE IInv'
  OBVIOUS
<1>1. /\ pc = "row" /\ ~Mismatched
      /\ UNCHANGED <<input, delivered, phase, expected, failed>>
  BY DEF ReturnRow, streamVars
<1>2. /\ ~FatalSeen /\ ~failed /\ delivered = nextRow /\ Len(shown) = delivered - 1
      /\ delivered \in 1 .. U64Max /\ U64Max \in Nat /\ outcomes \in Seq(Outcome)
  BY <1>1, RowInHand
<1>3. CASE nextRow # U64Max
  <2>1. shown' = Append(shown, delivered) /\ nextRow' = nextRow + 1 /\ Return("row")
    BY <1>3 DEF ReturnRow
  <2>2. "row" \in Quiet
    BY DEF Quiet
  <2>3. nextRow' = IF delivered = U64Max THEN U64Max ELSE delivered + 1
    BY <1>2, <1>3, <2>1
  <2> QED
    BY <1>1, <2>1, <2>2, <2>3, ShowingKeeps
<1>4. CASE nextRow = U64Max
  <2>1. Return("CopyRowNumberOverflow") /\ UNCHANGED <<nextRow, shown>>
    BY <1>4 DEF ReturnRow
  <2>2. "CopyRowNumberOverflow" \in Fatal /\ nextRow \in Nat
    BY <1>2 DEF Fatal
  <2>3. /\ pc' = "idle"
        /\ outcomes' \in Seq(Outcome)
        /\ DOMAIN outcomes' = DOMAIN outcomes \cup {Len(outcomes) + 1}
        /\ \A i \in DOMAIN outcomes : outcomes'[i] = outcomes[i]
        /\ outcomes'[Len(outcomes) + 1].what = "CopyRowNumberOverflow"
        /\ FatalSeen'
    BY <1>2, <2>1, <2>2, ReturnAddsOne
  <2>4. phase # "open"
    BY <1>2, <1>4 DEF IInv, NumberInv
  <2>5. \A k : FieldsOf(k)' = FieldsOf(k)
    BY <1>1 DEF FieldsOf
  <2>6. TypeInv' /\ StopInv' /\ NumberInv' /\ ShownInv'
    BY <1>1, <2>1, <2>3, <2>4, <2>5 DEF IInv, TypeInv, StopInv, NumberInv, ShownInv
  <2>7. MismatchInv'
    BY <1>1, <2>3, <2>5 DEF IInv, MismatchInv
  <2> QED
    BY <2>6, <2>7 DEF IInv
<1> QED
  BY <1>3, <1>4

LEMMA PredicateKeeps == IInv /\ (RowDoesNotMatch \/ RowMatches) => IInv'
<1> SUFFICES ASSUME IInv, RowDoesNotMatch \/ RowMatches PROVE IInv'
  OBVIOUS
<1>1. /\ pc = "row" /\ ~Mismatched /\ shown' = Append(shown, delivered) /\ nextRow' = Saturated
      /\ UNCHANGED <<input, delivered, phase, expected, failed>>
  BY DEF RowDoesNotMatch, RowMatches, streamVars
<1>2. \/ pc' = "pull" /\ UNCHANGED outcomes
      \/ \E what \in Quiet : Return(what)
  BY DEF RowDoesNotMatch, RowMatches, Quiet
<1> QED
  BY <1>1, <1>2, NextNumber, ShowingKeeps

LEMMA NextInv == IInv /\ [Next]_vars => IInv'
<1> SUFFICES ASSUME IInv, [Next]_vars PROVE IInv'
  OBVIOUS
<1>1. CASE UNCHANGED vars
  <2>1. UNCHANGED <<input, delivered, phase, expected, nextRow, failed, pc, shown, outcomes>>
    BY <1>1 DEF vars
  <2>2. FatalSeen' = FatalSeen
    BY <2>1 DEF FatalSeen, Fatal
  <2>3. \A k : FieldsOf(k)' = FieldsOf(k)
    BY <2>1 DEF FieldsOf
  <2> QED
    BY <2>1, <2>2, <2>3 DEF IInv, TypeInv, StopInv, NumberInv, ShownInv, MismatchInv
<1> QED
  BY <1>1, CallerKeeps, NoRowKeeps, RowErrorKeeps, LentRowKeeps, MismatchKeeps, ReturnRowKeeps, PredicateKeeps
  DEF Next, Answer, Handle

-----------------------------------------------------------------------------
LEMMA InvariantHolds == Spec => []IInv
<1>1. Init => IInv
  BY InitInv
<1>2. IInv /\ [Next]_vars => IInv'
  BY NextInv
<1> QED
  BY <1>1, <1>2, PTL DEF Spec

(* The caller sees the rows in order, each with the columns of its table, and a
   mismatch names the row that has it: next_row, find_first, find_first_equal.   *)
THEOREM ShownRowsAreWhole == Spec => []ShownRowsHaveTheirColumns
<1>1. IInv => ShownRowsHaveTheirColumns
  BY DEF IInv, ShownInv, MismatchInv, FieldsOf, ShownRowsHaveTheirColumns
<1> QED
  BY <1>1, InvariantHolds, PTL

(* After a fatal error no row is shown and the stream below does not move. *)
THEOREM FatalErrorsAreFinal == Spec => FatalErrorIsFinal
<1> DEFINE Rests == FatalSeen => UNCHANGED <<delivered, shown>>
<1>1. IInv /\ [Next]_vars => [Rests]_vars
  <2> SUFFICES ASSUME IInv, Next, FatalSeen PROVE UNCHANGED <<delivered, shown>>
    BY DEF vars
  <2>1. pc # "row" /\ (pc = "pull" => phase # "open")
    BY DEF IInv, StopInv
  <2>2. CASE Caller
    BY <2>2 DEF Caller, NextRow, FindFirst, FindFirstEqual, Start, UnresolvedColumn, AlreadyFailed, streamVars
  <2>3. CASE Answer
    BY <2>1, <2>3 DEF Answer, NoRow, RowError, LentRow, Stream!Finish, Stream!Break, Stream!Deliver, streamVars
  <2>4. CASE Handle
    BY <2>1, <2>4 DEF Handle, Mismatch, ReturnRow, RowDoesNotMatch, RowMatches
  <2> QED
    BY <2>2, <2>3, <2>4 DEF Next
<1>2. [][Rests]_vars => FatalErrorIsFinal
  BY DEF FatalErrorIsFinal, FatalSeen
<1> QED
  BY <1>1, <1>2, InvariantHolds, PTL DEF Spec

-----------------------------------------------------------------------------
LEMMA Least ==
  ASSUME NEW S, S \subseteq Nat, S # {}
  PROVE  \E m \in S : \A j \in S : m <= j
<1> DEFINE Less == {p \in Nat \X Nat : p[1] < p[2]}
<1>1. IsWellFoundedOn(Less, Nat)
  BY NatLessThanWellFounded DEF OpToRel
<1>2. PICK m \in S : \A j \in S : <<j, m>> \notin Less
  BY <1>1, WFMin
<1>3. \A j \in S : ~(j < m)
  BY <1>2
<1> QED
  BY <1>3

(* A finite set of positions has a k-th for every k. *)
LEMMA HasKth ==
  ASSUME NEW S, S \subseteq Nat, IsFiniteSet(S), NEW k \in 1 .. Cardinality(S)
  PROVE  \E i \in S : Cardinality({j \in S : j <= i}) = k
<1> DEFINE Upto(i) == {j \in S : j <= i}
<1> DEFINE Kth(n) == \E i \in S : Cardinality(Upto(i)) = n
<1> DEFINE missing == {n \in 1 .. Cardinality(S) : ~Kth(n)}
<1> SUFFICES ASSUME missing # {} PROVE FALSE
  OBVIOUS
<1>1. Cardinality(S) \in Nat
  BY FS_CardinalityType
<1>2. missing \subseteq Nat
  BY <1>1
<1>3. PICK n \in missing : \A m \in missing : n <= m
  <2> HIDE DEF missing
  <2> QED
    BY <1>2, Least
<1>4. n \in 1 .. Cardinality(S) /\ ~Kth(n)
  BY <1>3
<1>5. PICK below : /\ below \subseteq S /\ Cardinality(below) = n - 1
                   /\ \A i \in below : \A j \in S : j <= i => j \in below
  <2>1. CASE n = 1
    <3>1. Cardinality({}) = n - 1
      BY <2>1, FS_EmptySet
    <3> QED
      BY <3>1
  <2>2. CASE n # 1
    <3>1. n - 1 \in 1 .. Cardinality(S) /\ n - 1 \notin missing
      BY <1>1, <1>3, <1>4, <2>2
    <3>2. PICK i \in S : Cardinality(Upto(i)) = n - 1
      BY <3>1
    <3>3. \A a \in Upto(i) : \A j \in S : j <= a => j \in Upto(i)
      OBVIOUS
    <3> QED
      BY <3>2, <3>3
  <2> QED
    BY <2>1, <2>2
<1>6. S \ below # {} /\ S \ below \subseteq Nat
  <2>1. n - 1 # Cardinality(S)
    BY <1>1, <1>4
  <2>2. below # S
    BY <1>5, <2>1
  <2> QED
    BY <1>5, <2>2
<1>7. PICK i \in S \ below : \A j \in S \ below : i <= j
  BY <1>6, Least
<1>8. Upto(i) = below \cup {i}
  <2>1. ASSUME NEW j \in S, j <= i PROVE j \in below \/ j = i
    BY <1>7, <2>1
  <2>2. ASSUME NEW j \in below PROVE j <= i
    BY <1>5, <1>7
  <2> QED
    BY <1>5, <1>7, <2>1, <2>2
<1>9. IsFiniteSet(below) /\ i \notin below
  BY <1>5, <1>7, FS_Subset
<1>10. Cardinality(Upto(i)) = n
  <2>1. Cardinality(below \cup {i}) = Cardinality(below) + 1
    BY <1>9, FS_AddElement
  <2>2. n \in Nat /\ Cardinality(below) = n - 1
    BY <1>1, <1>4, <1>5
  <2> HIDE DEF Upto
  <2> QED
    BY <1>8, <2>1, <2>2
<1> QED
  BY <1>4, <1>7, <1>10

LEMMA OrderedIs ==
  ASSUME NEW S, S \subseteq Nat, IsFiniteSet(S)
  PROVE  Ordered(S) \in Seq(S) /\ Len(Ordered(S)) = Cardinality(S) /\ Cardinality(S) \in Nat
<1> DEFINE n == Cardinality(S)
<1> DEFINE kth(k) == CHOOSE i \in S : Cardinality({j \in S : j <= i}) = k
<1>1. n \in Nat
  BY FS_CardinalityType
<1>2. \A k \in 1 .. n : kth(k) \in S
  <2> SUFFICES ASSUME NEW k \in 1 .. n PROVE kth(k) \in S
    OBVIOUS
  <2>1. \E i \in S : Cardinality({j \in S : j <= i}) = k
    BY HasKth
  <2> QED
    BY <2>1
<1>3. Ordered(S) = [k \in 1 .. n |-> kth(k)]
  BY Zenon DEF Ordered
<1> HIDE DEF n, kth
<1>4. Ordered(S) \in Seq(S) /\ Len(Ordered(S)) = n
  BY <1>1, <1>2, <1>3, IsASeq
<1> QED
  BY <1>1, <1>4 DEF n

(* The stream below orders positions in the same way. *)
LEMMA StreamOrderedIs ==
  ASSUME NEW S, S \subseteq Nat, IsFiniteSet(S)
  PROVE  Stream!Ordered(S) \in Seq(S)
<1> DEFINE n == Cardinality(S)
<1> DEFINE kth(k) == CHOOSE i \in S : Stream!Cardinality({j \in S : j <= i}) = k
<1>1. n \in Nat
  BY FS_CardinalityType
<1>2. \A T : Stream!Cardinality(T) = Cardinality(T)
  BY Zenon DEF Stream!Cardinality, Cardinality
<1>3. \A k \in 1 .. n : kth(k) \in S
  <2> SUFFICES ASSUME NEW k \in 1 .. n PROVE kth(k) \in S
    OBVIOUS
  <2>1. \E i \in S : Stream!Cardinality({j \in S : j <= i}) = k
    BY <1>2, HasKth
  <2> QED
    BY <2>1
<1>4. Stream!Ordered(S) = [k \in 1 .. Stream!Cardinality(S) |-> kth(k)]
  BY Zenon DEF Stream!Ordered
<1>5. Stream!Cardinality(S) = n
  BY <1>2
<1> HIDE DEF n, kth
<1>6. Stream!Ordered(S) \in Seq(S)
  BY <1>1, <1>3, <1>4, <1>5, IsASeq
<1> QED
  BY <1>6

LEMMA CutTyped ==
  ASSUME NEW s \in Seq(Byte), NEW m \in Nat \ {0}, NEW n \in 0 .. Len(s)
  PROVE  SubSeq(s, m, n) \in Seq(Byte)
<1>1. CASE n < m
  BY <1>1, SubSeqEmpty
<1>2. CASE m <= n
  <2>1. \A k \in m .. n : s[k] \in Byte
    BY <1>2
  <2> QED
    BY <1>2, <2>1, SubSeqProperties
<1> QED
  BY <1>1, <1>2

LEMMA PositionsFinite ==
  ASSUME NEW s \in Seq(Byte), NEW S, S \subseteq DOMAIN s
  PROVE  S \subseteq Nat /\ IsFiniteSet(S)
<1>1. DOMAIN s = 1 .. Len(s) /\ Len(s) \in Nat
  OBVIOUS
<1>2. IsFiniteSet(1 .. Len(s))
  BY <1>1, FS_Interval
<1> QED
  BY <1>1, <1>2, FS_Subset

(* The fields of a row are numbered from one. *)
LEMMA FieldsAreNumbered ==
  ASSUME NEW raw \in Seq(Byte)
  PROVE  DOMAIN DecodeFields(raw) = 1 .. Len(DecodeFields(raw)) /\ Len(DecodeFields(raw)) \in Nat
<1> DEFINE S == Separators(raw)
<1> DEFINE n == Cardinality(S)
<1>1. S \subseteq DOMAIN raw
  BY DEF Separators, Unescaped
<1>2. Ordered(S) \in Seq(Nat) /\ Len(Ordered(S)) = n /\ n \in Nat
  <2> HIDE DEF S
  <2> QED
    BY <1>1, PositionsFinite, OrderedIs
<1> DEFINE cuts == <<0>> \o Ordered(S) \o <<Len(raw) + 1>>
<1>3. Len(cuts) = n + 2
  <2>1. <<0>> \in Seq(Nat) /\ <<Len(raw) + 1>> \in Seq(Nat) /\ Len(<<0>>) = 1 /\ Len(<<Len(raw) + 1>>) = 1
    OBVIOUS
  <2> HIDE DEF S, n
  <2>2. <<0>> \o Ordered(S) \in Seq(Nat) /\ Len(<<0>> \o Ordered(S)) = 1 + n
    BY <1>2, <2>1, ConcatProperties
  <2> QED
    BY <1>2, <2>1, <2>2, ConcatProperties
<1>4. DOMAIN RawFields(raw) = 1 .. Len(cuts) - 1
  BY DEF RawFields
<1> HIDE DEF cuts, n, S
<1>5. DOMAIN DecodeFields(raw) = 1 .. n + 1
  BY <1>2, <1>3, <1>4 DEF DecodeFields
<1> QED
  BY <1>2, <1>5

-----------------------------------------------------------------------------
Record == [raw : Seq(Byte), line : BOOLEAN, stop : Nat]

(* Every record but the last is closed by a line ending. *)
LEMMA RecordsAreClosed ==
  ASSUME NEW s \in Seq(Byte)
  PROVE  /\ Stream!Records(s) \in Seq(Record)
         /\ \A k \in 1 .. Len(Stream!Records(s)) - 1 : Stream!Records(s)[k].line
<1> DEFINE ends == Stream!Ordered(Stream!LineEnds(s))
<1> DEFINE from(k) == IF k = 1 THEN 1 ELSE Stream!Beyond(s, ends[k - 1]) + 1
<1> DEFINE record(k) == [raw |-> SubSeq(s, from(k), ends[k] - 1), line |-> TRUE, stop |-> Stream!Beyond(s, ends[k])]
<1> DEFINE closed == [k \in DOMAIN ends |-> record(k)]
<1> DEFINE rest == SubSeq(s, from(Len(ends) + 1), Len(s))
<1> DEFINE last == [raw |-> rest, line |-> FALSE, stop |-> Len(s)]
<1>1. Stream!LineEnds(s) \subseteq DOMAIN s
  BY DEF Stream!LineEnds, Stream!Breaks
<1>2. ends \in Seq(Stream!LineEnds(s)) /\ Len(ends) \in Nat
  BY <1>1, PositionsFinite, StreamOrderedIs
<1>3. \A k \in DOMAIN ends : ends[k] \in 1 .. Len(s) /\ Stream!Beyond(s, ends[k]) \in Nat
  BY <1>1, <1>2 DEF Stream!Beyond
<1>4. \A k \in 1 .. Len(ends) + 1 : from(k) \in Nat \ {0}
  BY <1>2, <1>3
<1>5. \A k \in DOMAIN ends : record(k) \in Record /\ record(k).line
  <2> SUFFICES ASSUME NEW k \in DOMAIN ends PROVE record(k) \in Record /\ record(k).line
    OBVIOUS
  <2>1. k \in 1 .. Len(ends) + 1 /\ ends[k] - 1 \in 0 .. Len(s) /\ Stream!Beyond(s, ends[k]) \in Nat
    BY <1>2, <1>3
  <2>2. from(k) \in Nat \ {0}
    BY <1>4, <2>1
  <2> HIDE DEF from, ends
  <2>3. SubSeq(s, from(k), ends[k] - 1) \in Seq(Byte)
    BY <2>1, <2>2, CutTyped
  <2> QED
    BY <2>1, <2>3 DEF Record
<1>6. last \in Record
  <2>1. from(Len(ends) + 1) \in Nat \ {0} /\ Len(s) \in 0 .. Len(s)
    BY <1>2, <1>4
  <2> HIDE DEF from, ends
  <2>2. rest \in Seq(Byte)
    BY <2>1, CutTyped
  <2> QED
    BY <2>2 DEF Record
<1>7. DOMAIN ends = 1 .. Len(ends)
  BY <1>2
<1>8. Stream!Records(s) = IF rest = << >> THEN closed ELSE Append(closed, last)
  BY DEF Stream!Records
<1>9. closed \in Seq(Record) /\ Len(closed) = Len(ends) /\ \A k \in 1 .. Len(ends) : closed[k].line
  <2> HIDE DEF record, ends
  <2> QED
    BY <1>2, <1>5, <1>7, IsASeq
<1> HIDE DEF closed, last, ends, rest
<1> QED
  BY <1>2, <1>6, <1>8, <1>9

(* Only the last row may lack its line ending. *)
LEMMA OnlyTheLastIsOpen ==
  ASSUME NEW s \in Seq(Byte)
  PROVE  /\ Stream!Rows(s) \in Seq(Record)
         /\ \A k \in 1 .. Len(Stream!Rows(s)) : ~Stream!Rows(s)[k].line => k = Len(Stream!Rows(s))
<1> DEFINE records == Stream!Records(s)
<1> DEFINE stops == {k \in DOMAIN records : Stream!IsTerminator(records[k])}
<1>1. records \in Seq(Record) /\ \A k \in 1 .. Len(records) - 1 : records[k].line
  BY RecordsAreClosed
<1>2. Stream!Rows(s) = IF stops = {} THEN records ELSE SubSeq(records, 1, Stream!Min(stops) - 1)
  BY DEF Stream!Rows
<1> HIDE DEF records
<1>3. CASE stops = {}
  BY <1>1, <1>2, <1>3
<1>4. CASE stops # {}
  <2>1. stops \subseteq Nat
    BY <1>1
  <2>2. \E m \in stops : \A j \in stops : m <= j
    <3> HIDE DEF stops
    <3> QED
      BY <1>4, <2>1, Least
  <2>3. Stream!Min(stops) \in stops
    BY <2>2 DEF Stream!Min
  <2> DEFINE n == Stream!Min(stops) - 1
  <2>4. n \in 0 .. Len(records) - 1
    BY <1>1, <2>3
  <2>5. Stream!Rows(s) = SubSeq(records, 1, n)
    BY <1>2, <1>4
  <2> HIDE DEF n, stops
  <2>6. \A k \in 1 .. n : records[k] \in Record
    BY <1>1, <2>4
  <2>7. SubSeq(records, 1, n) \in Seq(Record)
    BY <2>4, <2>6, SubSeqProperties
  <2>8. \A k \in 1 .. Len(SubSeq(records, 1, n)) : SubSeq(records, 1, n)[k] = records[k] /\ k \in 1 .. Len(records) - 1
    BY <2>4, <2>6, SubSeqProperties
  <2> QED
    BY <1>1, <2>5, <2>7, <2>8
<1> QED
  BY <1>3, <1>4

-----------------------------------------------------------------------------
(* Row k has the value the running or last search looks for. *)
Has(k) == DecodeFields(Stream!Rows(input)[k].raw)[call.search.column] = call.search.value

(* A running search has a column, and has passed over no row with its value. *)
SearchInv ==
  /\ input \in Seq(Byte)
  /\ delivered \in 0 .. Len(Stream!Rows(input))
  /\ phase = "ended" => delivered = Len(Stream!Rows(input))
  /\ pc # "idle" /\ call.kind = "find_equal" =>
       /\ expected # Unknown /\ call.search.column \in 1 .. expected /\ call.from \in Nat
       /\ \A k \in call.from + 1 .. (IF pc = "row" THEN delivered - 1 ELSE delivered) : ~Has(k)
  /\ EqualityIsFirstMatch

LEMMA SearchInit == Init => SearchInv
<1> SUFFICES ASSUME Init PROVE SearchInv
  OBVIOUS
<1>1. /\ delivered = 0 /\ phase = "open" /\ pc = "idle" /\ outcomes = << >> /\ input \in Seq(Byte)
  BY TableAssumption DEF Init, Stream!Init
<1>2. delivered \in 0 .. Len(Stream!Rows(input))
  BY <1>1, OnlyTheLastIsOpen
<1> QED
  BY <1>1, <1>2 DEF SearchInv, EqualityIsFirstMatch

(* A call that returns something other than a match or a clean end. *)
LEMMA OtherReturn ==
  ASSUME SearchInv, outcomes \in Seq(Outcome), nextRow \in Nat, NEW what \in Quiet \cup Fatal, Return(what),
         what # "match", what = "none" => failed',
         UNCHANGED <<input, delivered>>, phase' = "ended" => phase = "ended"
  PROVE  SearchInv'
<1>1. pc' = "idle" /\ outcomes'[Len(outcomes')].what = what
  BY ReturnAddsOne DEF Return
<1>2. EqualityIsFirstMatch'
  BY <1>1 DEF EqualityIsFirstMatch
<1> QED
  BY <1>1, <1>2 DEF SearchInv

LEMMA SearchCaller == IInv /\ SearchInv /\ Caller => SearchInv'
<1> SUFFICES ASSUME IInv, SearchInv, Caller PROVE SearchInv'
  OBVIOUS
<1>0. outcomes \in Seq(Outcome) /\ nextRow \in Nat
  BY TableAssumption DEF IInv, TypeInv
<1>1. CASE \E c : Start(c) /\ c.kind # "find_equal"
  <2>1. PICK c : Start(c) /\ c.kind # "find_equal"
    BY <1>1
  <2>2. pc' = "pull" /\ call' = c /\ UNCHANGED <<input, delivered, phase>>
    BY <2>1 DEF Start, streamVars
  <2> QED
    BY <2>1, <2>2 DEF SearchInv, EqualityIsFirstMatch
<1>2. CASE \E s \in Searches : Columns(s) /\ Start([kind |-> "find_equal", from |-> delivered, search |-> s])
  <2>1. PICK s \in Searches : Columns(s) /\ Start([kind |-> "find_equal", from |-> delivered, search |-> s])
    BY <1>2
  <2>2. /\ pc' = "pull" /\ UNCHANGED <<input, delivered, phase, expected>>
        /\ call'.from = delivered /\ call'.search = s
    BY <2>1 DEF Start, streamVars
  <2>3. \A k \in call'.from + 1 .. delivered' : FALSE
    BY <2>2 DEF SearchInv
  <2> QED
    BY <2>1, <2>2, <2>3 DEF SearchInv, EqualityIsFirstMatch, Columns
<1>3. CASE \E s \in Searches : UnresolvedColumn(s)
  BY <1>0, <1>3, OtherReturn DEF UnresolvedColumn, Quiet, streamVars
<1>4. CASE AlreadyFailed
  BY <1>0, <1>4, OtherReturn DEF AlreadyFailed, Quiet, streamVars
<1>5. CASE NextRow
  <2> DEFINE c == [kind |-> "next_row", from |-> delivered]
  <2>1. Start(c)
    BY <1>5 DEF NextRow
  <2>2. c.kind # "find_equal"
    OBVIOUS
  <2> HIDE DEF c
  <2> QED
    BY <2>1, <2>2, <1>1
<1>6. CASE FindFirst
  <2> DEFINE c == [kind |-> "find_first", from |-> delivered]
  <2>1. Start(c)
    BY <1>6 DEF FindFirst
  <2>2. c.kind # "find_equal"
    OBVIOUS
  <2> HIDE DEF c
  <2> QED
    BY <2>1, <2>2, <1>1
<1>7. ASSUME NEW s \in Searches, FindFirstEqual(s) PROVE SearchInv'
  <2>1. CASE Columns(s)
    <3>1. Start([kind |-> "find_equal", from |-> delivered, search |-> s])
      BY <1>7, <2>1 DEF FindFirstEqual
    <3> QED
      BY <1>2, <2>1, <3>1, Zenon
  <2>2. CASE ~Columns(s)
    <3>1. UnresolvedColumn(s)
      BY <1>7, <2>2 DEF FindFirstEqual
    <3> QED
      BY <1>3, <3>1, Zenon
  <2> QED
    BY <2>1, <2>2
<1> QED
  BY <1>4, <1>5, <1>6, <1>7, Zenon DEF Caller

(* Nothing is left when the stream ends: whatever it had has been passed over. *)
LEMMA SearchNoRow == IInv /\ SearchInv /\ NoRow => SearchInv'
<1> SUFFICES ASSUME IInv, SearchInv, NoRow PROVE SearchInv'
  OBVIOUS
<1>1. /\ pc = "pull" /\ Return("none") /\ UNCHANGED <<input, delivered, call>>
      /\ phase' = "ended" => delivered = Len(Stream!Rows(input))
  BY DEF NoRow, Stream!Finish, streamVars, SearchInv
<1>2. pc' = "idle" /\ outcomes'[Len(outcomes')].what = "none"
  <2>1. outcomes \in Seq(Outcome) /\ nextRow \in Nat /\ "none" \in Quiet
    BY TableAssumption DEF IInv, TypeInv, Quiet
  <2> QED
    BY <1>1, <2>1, ReturnAddsOne DEF Return
<1>3. call.kind = "find_equal" => \A k \in call.from + 1 .. delivered : ~Has(k)
  BY <1>1 DEF SearchInv
<1>4. EqualityIsFirstMatch'
  BY <1>1, <1>2, <1>3 DEF EqualityIsFirstMatch, Has
<1> QED
  BY <1>1, <1>2, <1>4 DEF SearchInv

LEMMA SearchLentRow == IInv /\ SearchInv /\ LentRow => SearchInv'
<1> SUFFICES ASSUME IInv, SearchInv, LentRow PROVE SearchInv'
  OBVIOUS
<1> DEFINE rows == Stream!Rows(input)
<1>1. /\ pc = "pull" /\ pc' = "row" /\ delivered' = delivered + 1 /\ delivered < Len(rows)
      /\ phase' = "ended" => ~rows[delivered + 1].line
      /\ UNCHANGED <<input, expected, call>>
  BY DEF LentRow, Stream!Deliver
<1>2. delivered' \in 0 .. Len(rows) /\ delivered' - 1 = delivered /\ delivered + 1 \in 1 .. Len(rows)
  BY <1>1, OnlyTheLastIsOpen DEF SearchInv
<1>3. phase' = "ended" => delivered' = Len(rows)
  BY <1>1, <1>2, OnlyTheLastIsOpen DEF SearchInv
<1>4. EqualityIsFirstMatch'
  BY <1>1 DEF EqualityIsFirstMatch
<1> QED
  BY <1>1, <1>2, <1>3, <1>4 DEF SearchInv, Has

(* The row in hand has the column a search asks for. *)
LEMMA ColumnIsThere ==
  ASSUME IInv, SearchInv, pc = "row", call.kind = "find_equal", ~Mismatched
  PROVE  ColumnEquals(Fields, call.search) <=> Has(delivered)
<1>1. delivered \in 1 .. Len(Stream!Rows(input)) /\ Stream!Rows(input) \in Seq(Record)
  BY RowInHand, OnlyTheLastIsOpen DEF SearchInv
<1>2. Stream!Rows(input)[delivered].raw \in Seq(Byte)
  <2> DEFINE rows == Stream!Rows(input)
  <2>1. rows \in Seq(Record) /\ delivered \in 1 .. Len(rows)
    BY <1>1
  <2> HIDE DEF rows
  <2>2. rows[delivered] \in Record
    BY <2>1
  <2>3. rows[delivered].raw \in Seq(Byte)
    BY <2>2 DEF Record
  <2> QED
    BY <2>3 DEF rows
<1>3. DOMAIN Fields = 1 .. Len(Fields)
  BY <1>2, FieldsAreNumbered DEF Fields
<1>4. Len(Fields) = expected /\ call.search.column \in 1 .. expected
  BY DEF Mismatched, SearchInv
<1> QED
  BY <1>3, <1>4 DEF ColumnEquals, Has, Fields

LEMMA SearchPredicate == IInv /\ SearchInv /\ (RowDoesNotMatch \/ RowMatches) => SearchInv'
<1> SUFFICES ASSUME IInv, SearchInv, RowDoesNotMatch \/ RowMatches PROVE SearchInv'
  OBVIOUS
<1>1. /\ pc = "row" /\ ~Mismatched /\ UNCHANGED <<input, delivered, phase, expected, call>>
      /\ delivered \in Nat /\ outcomes \in Seq(Outcome) /\ nextRow \in Nat
  <2>1. pc = "row" /\ ~Mismatched /\ UNCHANGED <<input, delivered, phase, expected, call>>
    BY DEF RowDoesNotMatch, RowMatches, streamVars
  <2>2. outcomes \in Seq(Outcome) /\ nextRow \in 1 .. U64Max
    BY DEF IInv, TypeInv
  <2>3. delivered \in 1 .. Len(Stream!Rows(input)) /\ Len(Stream!Rows(input)) \in Nat
    BY <2>1, RowInHand, OnlyTheLastIsOpen DEF SearchInv
  <2>4. nextRow \in Nat
    BY <2>2, TableAssumption
  <2> QED
    BY <2>1, <2>2, <2>3, <2>4
<1>2. CASE RowDoesNotMatch
  <2>1. pc' = "pull" /\ (call.kind = "find_equal" => ~Has(delivered))
    BY <1>1, <1>2, ColumnIsThere DEF RowDoesNotMatch, Holds
  <2>2. ASSUME call.kind = "find_equal" PROVE \A k \in call.from + 1 .. delivered : ~Has(k)
    <3>1. \A k \in call.from + 1 .. delivered - 1 : ~Has(k)
      BY <1>1, <2>2 DEF SearchInv
    <3>2. call.from \in Nat
      BY <1>1, <2>2 DEF SearchInv
    <3>3. \A k \in call.from + 1 .. delivered : k = delivered \/ k \in call.from + 1 .. delivered - 1
      BY <1>1, <3>2
    <3> QED
      BY <2>1, <2>2, <3>1, <3>3
  <2>3. EqualityIsFirstMatch'
    BY <2>1 DEF EqualityIsFirstMatch
  <2> QED
    BY <1>1, <2>1, <2>2, <2>3 DEF SearchInv, Has
<1>3. CASE RowMatches
  <2>1. PICK what \in {"match", "MatchAllocationFailed"} : Return(what)
    BY <1>3 DEF RowMatches
  <2>2. pc' = "idle" /\ outcomes'[Len(outcomes')].what = what
    <3>1. what \in Quiet
      BY DEF Quiet
    <3> QED
      BY <1>1, <2>1, <3>1, ReturnAddsOne DEF Return
  <2>3. call.kind = "find_equal" => Has(delivered) /\ \A k \in call.from + 1 .. delivered - 1 : ~Has(k)
    BY <1>1, <1>3, ColumnIsThere DEF RowMatches, Holds, SearchInv
  <2>4. EqualityIsFirstMatch'
    BY <1>1, <2>2, <2>3 DEF EqualityIsFirstMatch, Has
  <2> QED
    BY <1>1, <2>2, <2>4 DEF SearchInv
<1> QED
  BY <1>2, <1>3

LEMMA SearchStep == IInv /\ SearchInv /\ [Next]_vars => SearchInv'
<1> SUFFICES ASSUME IInv, SearchInv, [Next]_vars PROVE SearchInv'
  OBVIOUS
<1>0. outcomes \in Seq(Outcome) /\ nextRow \in Nat
  BY TableAssumption DEF IInv, TypeInv
<1>1. CASE UNCHANGED vars
  <2>1. UNCHANGED <<input, delivered, phase, expected, pc, call, outcomes, failed>>
    BY <1>1 DEF vars
  <2> QED
    BY <2>1 DEF SearchInv, Has, EqualityIsFirstMatch
<1>2. CASE RowError
  BY <1>0, <1>2, OtherReturn DEF RowError, Stream!Break, Fatal
<1>3. CASE Mismatch
  BY <1>0, <1>3, OtherReturn DEF Mismatch, streamVars, Fatal
<1>4. CASE ReturnRow
  <2>1. PICK what \in {"row", "CopyRowNumberOverflow"} : Return(what)
    BY <1>4 DEF ReturnRow
  <2>2. what \in Quiet \cup Fatal /\ what # "match" /\ what # "none"
    BY DEF Quiet, Fatal
  <2> QED
    BY <1>0, <1>4, <2>1, <2>2, OtherReturn DEF ReturnRow, streamVars
<1> QED
  BY <1>1, <1>2, <1>3, <1>4, SearchCaller, SearchNoRow, SearchLentRow, SearchPredicate
  DEF Next, Answer, Handle

(* find_first_equal answers for the rows of the stream from where it started: its
   match is the first of them with that value in that column, and a clean end says
   that none has it, for every table, search and mix of calls before it.            *)
THEOREM SearchesFindTheFirst == Spec => []EqualityIsFirstMatch
<1>1. SearchInv => EqualityIsFirstMatch
  BY DEF SearchInv
<1> QED
  BY <1>1, InvariantHolds, SearchInit, SearchStep, PTL DEF Spec
=============================================================================
