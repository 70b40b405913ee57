------------------------------ MODULE CopyText ------------------------------
(***************************************************************************)
(* The COPY text row format as crates/pgdumpx/src/copy.rs reads it.  These *)
(* are the pure functions applied to one complete physical record: where   *)
(* its fields are, whether its layout is acceptable, and which logical     *)
(* bytes each field holds.  Bytes are the numbers the code compares with.  *)
(***************************************************************************)
EXTENDS Integers, Sequences, FiniteSets, SequencesExt, FiniteSetsExt

Byte == 0 .. 255

TAB   == 9
LF    == 10
CR    == 13
DOT   == 46
CapN  == 78
BSL   == 92
LowX  == 120

CopyTerminator == <<BSL, DOT>>

NullToken == <<BSL, CapN>>

(* A decoded field: SQL NULL, its logical bytes, or the error that decoding
   would raise.                                                            *)
Null         == [kind |-> "null", bytes |-> << >>]
Bytes(b)     == [kind |-> "bytes", bytes |-> b]
DecodeFailed == [kind |-> "MalformedCopyEscape", bytes |-> << >>]

(* The positions of a set from left to right: the k-th has k of them up to itself. *)
Ordered(S) == [k \in 1 .. Cardinality(S) |-> CHOOSE i \in S : Cardinality({j \in S : j <= i}) = k]

-----------------------------------------------------------------------------
(* Position i is escaped when an unescaped backslash stands just before it:
   both scanning loops step over the byte after a backslash.               *)
Escaped(raw) ==
  LET e[i \in DOMAIN raw] == i > 1 /\ raw[i - 1] = BSL /\ ~e[i - 1]
  IN  e

(* Positions of the unescaped occurrences of byte b. *)
Unescaped(raw, b) == LET e == Escaped(raw)
                     IN  {i \in DOMAIN raw : raw[i] = b /\ ~e[i]}

Separators(raw) == Unescaped(raw, TAB)

FieldCount(raw) == Cardinality(Unescaped(raw, TAB)) + 1

(* Escapes `\.` inside a record, and a backslash with nothing after it. *)
DotEscapes(raw) ==
  {i \in Unescaped(raw, BSL) : i < Len(raw) /\ raw[i + 1] = DOT}
Dangling(raw) == {i \in Unescaped(raw, BSL) : i = Len(raw)}

\* Mutant: the field limit is exclusive.
ExcessTabsExclusive(raw, maxFields) ==
  {i \in Unescaped(raw, TAB) :
     Cardinality({j \in Unescaped(raw, TAB) : j <= i}) + 1 >= maxFields}

(* The tabs at which the running field count passes the limit. *)
ExcessTabs(raw, maxFields) ==
  {i \in Unescaped(raw, TAB) :
     Cardinality({j \in Unescaped(raw, TAB) : j <= i}) + 1 > maxFields}

(* inspect_field_layout: the first fault from the left decides the error.  A
   limit of zero fields is only noticed once the whole record is scanned.   *)
InspectFieldLayout(raw, maxFields) ==
  LET faults == DotEscapes(raw) \cup Dangling(raw) \cup ExcessTabs(raw, maxFields)
  IN  IF faults = {}
      THEN IF FieldCount(raw) > maxFields THEN "CopyFieldCountLimitExceeded" ELSE "ok"
      ELSE CASE Min(faults) \in DotEscapes(raw) -> "MalformedCopyTerminator"
             [] Min(faults) \in Dangling(raw)   -> "MalformedCopyEscape"
             [] OTHER                           -> "CopyFieldCountLimitExceeded"

-----------------------------------------------------------------------------
(* decode_fields: the raw bytes of each field, cut at the separators. *)
RawFields(raw) ==
  LET cuts == <<0>> \o Ordered(Separators(raw)) \o <<Len(raw) + 1>>
  IN  [k \in 1 .. Len(cuts) - 1 |-> SubSeq(raw, cuts[k] + 1, cuts[k + 1] - 1)]

OctalDigits == 48 .. 55
HexDigits   == (48 .. 57) \cup (65 .. 70) \cup (97 .. 102)
HexValue(b) == CASE b \in 48 .. 57  -> b - 48
                 [] b \in 65 .. 70  -> b - 55
                 [] b \in 97 .. 102 -> b - 87

(* How many of the digits, at most `most`, follow position i. *)
DigitRun(raw, i, most, digits) ==
  Max({n \in 0 .. most : /\ i + n <= Len(raw)
                         /\ \A j \in i + 1 .. i + n : raw[j] \in digits})

(* Raw length of the escape whose backslash is at i: the backslash, the byte
   after it, and for an octal or a hexadecimal escape the digits it takes.   *)
EscapeLength(raw, i) ==
  CASE raw[i + 1] \in OctalDigits -> 1 + DigitRun(raw, i, 3, OctalDigits)
    [] raw[i + 1] = LowX           -> 2 + DigitRun(raw, i + 1, 2, HexDigits)
    [] OTHER                       -> 2

OctalByte(v) == v % 256

(* The one byte an escape of that length decodes to.  The octal value is cut
   to eight bits; `\x` with no digit is the letter itself.                   *)
EscapeValue(raw, i) ==
  LET n == EscapeLength(raw, i)
      b == raw[i + 1]
  IN  CASE b \in OctalDigits ->
             OctalByte(FoldLeft(LAMBDA v, d : 8 * v + (d - 48), 0,
                                SubSeq(raw, i + 1, i + n - 1)))
        [] b = LowX /\ n > 2 ->
             FoldLeft(LAMBDA v, d : 16 * v + HexValue(d), 0, SubSeq(raw, i + 2, i + n - 1))
        [] b = 98  -> 8       \* \b
        [] b = 102 -> 12      \* \f
        [] b = 110 -> LF      \* \n
        [] b = 114 -> CR      \* \r
        [] b = 116 -> TAB     \* \t
        [] b = 118 -> 11      \* \v
        [] OTHER   -> b

(* decode_field: NULL only for the exact token, otherwise the logical bytes. *)
DecodeField(raw) ==
  LET from[i \in Nat] ==
        IF i > Len(raw) THEN << >>
        ELSE IF raw[i] # BSL THEN <<raw[i]>> \o from[i + 1]
        ELSE <<EscapeValue(raw, i)>> \o from[i + EscapeLength(raw, i)]
  IN  CASE raw = NullToken      -> Null
        [] Dangling(raw) # {}   -> DecodeFailed
        [] OTHER                -> Bytes(from[1])

DecodeFields(raw) == [k \in DOMAIN RawFields(raw) |-> DecodeField(RawFields(raw)[k])]
=============================================================================
