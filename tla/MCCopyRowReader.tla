--------------------------- MODULE MCCopyRowReader ---------------------------
(***************************************************************************)
(* Values of CopyRowReader's constants for model checking.                 *)
(***************************************************************************)
EXTENDS CopyRowReader, SequencesExt

Ample == [rowBytes |-> 100, fields |-> 100]

LimitPairs(rows, bytes) == {[rows |-> r, bytes |-> b] : r \in rows, b \in bytes}

(* What is checked together: which inputs, under which structural limits, with
   which scan limits on the reader and on its searches, over how many calls.    *)
Framing ==
  [inputs |-> BoundedSeq({LF, CR, DOT, BSL}, 5), layouts |-> {Ample},
   limits |-> {NoLimits}, calls |-> 2]

(* The last inputs are one byte longer than the counters count. *)
Budgets ==
  [inputs |-> BoundedSeq({LF, 97}, 4) \cup {[i \in 1 .. 6 |-> LF], [i \in 1 .. 6 |-> 97]},
   layouts |-> {Ample},
   limits |-> LimitPairs({1, 2, Unlimited}, {2, 3, Unlimited}), calls |-> 2]

Calls ==
  [inputs |-> BoundedSeq({TAB, LF, CR, BSL, 97}, 3),
   layouts |-> {Ample, [Ample EXCEPT !.rowBytes = 2], [Ample EXCEPT !.fields = 1]},
   limits |-> {[rows |-> 1, bytes |-> Unlimited], [rows |-> Unlimited, bytes |-> 2]}, calls |-> 3]

Cases == {Framing, Budgets, Calls}

AllInputs == UNION {c.inputs : c \in Cases}
AllLayouts == UNION {c.layouts : c \in Cases}
AllLimits == UNION {c.limits : c \in Cases}

(* The reader was built, and the running call was made, as one of the cases says. *)
IsCase ==
  \E c \in Cases :
    /\ input \in c.inputs /\ limits \in c.layouts
    /\ [rows |-> scan.rows, bytes |-> scan.bytes] \in c.limits
    /\ pc = "idle" \/ call = "next_row" \/ [rows |-> op.rows, bytes |-> op.bytes] \in c.limits
    /\ Len(outcomes) + (IF pc = "idle" THEN 0 ELSE 1) <= c.calls

CheckedInit == Init /\ IsCase

CheckedSpec == CheckedInit /\ [][Next /\ IsCase']_vars /\ WF_vars(Progress)

=============================================================================
