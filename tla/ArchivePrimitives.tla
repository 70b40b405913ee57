--------------------------- MODULE ArchivePrimitives ---------------------------
(***************************************************************************)
(* The numbers of an archive, crates/pgdumpx/src/custom/primitives.rs, and *)
(* the decimal dump IDs of dependency strings, custom/toc.rs: functions    *)
(* from the bytes in front of the reader to a value or an error, and to    *)
(* how many of the bytes they read.  The widths are parameters.            *)
(***************************************************************************)
EXTENDS Integers, Sequences, SequencesExt

CONSTANTS
  Base,         \* values of a byte: 256
  MaxInt,       \* i32::MAX
  WordBytes,    \* bytes of a u64
  MaxWord       \* u64::MAX, as far as decimal numbers are concerned

ASSUME WidthAssumption ==
  /\ Base \in Nat \ {0, 1} /\ MaxInt \in Nat
  /\ WordBytes \in Nat /\ MaxWord \in Nat

-----------------------------------------------------------------------------
Read(value, used) == [error |-> "none", value |-> value, used |-> used]
Error(what, used) == [error |-> what, value |-> 0, used |-> used]

Number(digits) == FoldRight(LAMBDA digit, n : digit + Base * n, digits, 0)

Fits(n) == n \in -(MaxInt + 1) .. MaxInt

(* read_archive_integer: a sign, and the magnitude, its low byte first. *)
ReadInteger(size, bytes) ==
  IF Len(bytes) < 1 + size THEN Error("eof", Len(bytes))
  ELSE LET magnitude == Number(SubSeq(bytes, 2, 1 + size))
           signed    == IF bytes[1] = 0 THEN magnitude ELSE -magnitude
       IN  IF Fits(signed) THEN Read(signed, 1 + size) ELSE Error("range", 1 + size)

-----------------------------------------------------------------------------
\* Mutant: bytes past the width of an offset are dropped unseen.
ExtraIgnored(size, bytes) == {}

(* The bytes past the width of an offset that ought to be zero. *)
ExtraBytes(size, bytes) == {i \in 2 + WordBytes .. 1 + size : i <= Len(bytes) /\ bytes[i] # 0}

(* read_archive_offset: a state, which is checked first, and as many bytes as the
   header says, whatever the state; those that do not fit must be zero.           *)
ReadOffset(size, bytes) ==
  IF bytes = << >> THEN Error("eof", 0)
  ELSE IF bytes[1] \notin 1 .. 3 THEN Error("state", 1)
  ELSE LET extra == ExtraBytes(size, bytes)
           last  == IF size < WordBytes THEN size ELSE WordBytes
       IN  IF extra # {} THEN Error("range", CHOOSE i \in extra : \A j \in extra : i <= j)
           ELSE IF Len(bytes) < 1 + size THEN Error("eof", Len(bytes))
           ELSE Read(CASE bytes[1] = 1 -> "unknown"
                       [] bytes[1] = 2 -> Number(SubSeq(bytes, 2, 1 + last))
                       [] bytes[1] = 3 -> "no_data", 1 + size)

-----------------------------------------------------------------------------
\* Mutant: a number too large for its word wraps around.
NextWraps(n, d) == (10 * n + d) % (MaxWord + 1)

(* One more decimal digit, checked; -1 is a number that is not one. *)
NextDigit(n, d) ==
  IF n = -1 \/ d \notin 0 .. 9 \/ 10 * n + d > MaxWord THEN -1 ELSE 10 * n + d

(* parse_dependency of the string that the digits, and other bytes, make up. *)
ParseDependency(digits) ==
  LET n == FoldLeft(NextDigit, 0, digits)
  IN  IF digits = << >> \/ n <= 0 \/ n > MaxInt THEN Error("encoding", Len(digits)) ELSE Read(n, Len(digits))
=============================================================================
