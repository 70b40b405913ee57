--------------------------- MODULE MCTableRowReader ---------------------------
(* Values of TableRowReader's constants for model checking. *)
EXTENDS TableRowReader, SequencesExt

CONSTANTS Alphabet,   \* bytes an input is made of
          MaxInput    \* bound: length of an input

AllInputs == BoundedSeq(Alphabet, MaxInput)

(* Searches of either column for a letter or an empty value, and of a missing column. *)
SmallSearches == {[column |-> c, value |-> v] : c \in {1, 2}, v \in {Bytes(<<97>>), Bytes(<< >>)}}
                   \cup {[column |-> 0, value |-> Null]}
=============================================================================
