---------------------------- MODULE CopyTextCheck ----------------------------
(***************************************************************************)
(* Checks of CopyText over every byte string up to MaxLen.  The string     *)
(* grows one byte at a time and is looked at twice: as the physical record *)
(* the parser has read, and as a value that PostgreSQL has written.        *)
(***************************************************************************)
EXTENDS CopyText, SequencesExt, FiniteSetsExt

CONSTANTS Alphabet, MaxLen

VARIABLE text

Init == text = << >>
Next == /\ Len(text) < MaxLen
        /\ \E b \in Alphabet : text' = Append(text, b)
Spec == Init /\ [][Next]_text

-----------------------------------------------------------------------------
(* Reference: the run of backslashes just before i has odd length. *)
BackslashRun(s, i) ==
  Max({n \in 0 .. i - 1 : \A j \in i - n .. i - 1 : s[j] = BSL})
OddRun(s, i) == BackslashRun(s, i) % 2 = 1

(* Reference: COPY TO as PostgreSQL writes one value. *)
Letter == 8 :> 98 @@ 9 :> 116 @@ 10 :> 110 @@ 11 :> 118 @@ 12 :> 102 @@ 13 :> 114 @@ 92 :> 92
WriteByte(b)  == IF b \in DOMAIN Letter THEN <<BSL, Letter[b]>> ELSE <<b>>
WriteValue(v) == IF v = Null THEN NullToken
                 ELSE FlattenSeq([k \in DOMAIN v.bytes |-> WriteByte(v.bytes[k])])

\* Mutant: an octal escape is written without its leading zeros.
ShortOctal(b) ==
  <<BSL>> \o SelectSeq(<<48 + (b \div 64), 48 + ((b \div 8) % 8), 48 + (b % 8)>>, LAMBDA d : d # 48)

(* write_escaped_bytes: find writes every byte but printable ASCII as an escape. *)
Octal(b) == <<BSL, 48 + (b \div 64), 48 + ((b \div 8) % 8), 48 + (b % 8)>>
ShowByte(b) == IF b \in 32 .. 126 /\ b # BSL THEN <<b>>
               ELSE IF b \in {TAB, LF, CR, BSL} THEN <<BSL, Letter[b]>>
               ELSE Octal(b)

(* write_row of the find command, without the line feed it ends with. *)
ShowValue(v) == IF v = Null THEN NullToken
                ELSE FlattenSeq([k \in DOMAIN v.bytes |-> ShowByte(v.bytes[k])])

Row(values) == FoldLeft(LAMBDA row, v : row \o <<TAB>> \o v, Head(values), Tail(values))
Written(vs) == Row([k \in DOMAIN vs |-> WriteValue(vs[k])])
Shown(vs)   == Row([k \in DOMAIN vs |-> ShowValue(vs[k])])

Accepted(s) == InspectFieldLayout(s, Len(s) + 1) = "ok"

-----------------------------------------------------------------------------
(* Once the layout pass has accepted a record, the decoding pass cannot fail
   and yields exactly the counted fields, whose logical bytes fit the
   raw_row.len() bytes reserved for them and are eight bits each: a row is
   never half decoded, and decoding never reallocates unreported.  The limit of
   the layout pass is inclusive: a record with n separators, as the parity
   reference sees them, passes a limit of n + 1 fields and fails every smaller one. *)
AcceptedRowsDecode ==
  Accepted(text) =>
    LET fields == DecodeFields(text)
        separators == {i \in DOMAIN text : text[i] = TAB /\ ~OddRun(text, i)}
    IN  /\ Len(fields) = FieldCount(text)
        /\ FoldLeft(LAMBDA n, f : n + Len(f.bytes), 0, fields) <= Len(text)
        /\ \A k \in DOMAIN fields : /\ fields[k].kind # "MalformedCopyEscape"
                                   /\ fields[k].bytes \in Seq(Byte)
        /\ \A limit \in 0 .. Len(text) + 1 :
             (InspectFieldLayout(text, limit) = "ok") <=> (Cardinality(separators) < limit)

(* Whatever PostgreSQL writes is read back, and so is what the find command shows:
   a row holding any value, a NULL and an empty value is accepted with its three
   fields, contains no byte that would end the record early, and decodes to the
   same three values; and what find shows is printable but for its tabs.           *)
WrittenRowsReadBack ==
  LET row == <<Bytes(text), Null, Bytes(<< >>)>>
  IN  /\ \A wire \in {Written(row), Shown(row)} :
           /\ InspectFieldLayout(wire, 3) = "ok"
           /\ Unescaped(wire, LF) = {} /\ Unescaped(wire, CR) = {}
           /\ wire # CopyTerminator
           /\ DecodeFields(wire) = row
      /\ \A i \in DOMAIN Shown(row) : Shown(row)[i] \in {TAB} \cup 32 .. 126
=============================================================================
