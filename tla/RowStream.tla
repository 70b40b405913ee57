------------------------------ MODULE RowStream ------------------------------
(***************************************************************************)
(* What a COPY row reader promises about its input, without bytes, budgets *)
(* or buffers: the rows of the input come out one by one and in order; the *)
(* stream closes cleanly only after the last of them; it may break at any  *)
(* moment, and once closed or broken it stays so.                          *)
(*                                                                         *)
(* The rows of an input are defined here from the input alone, by the      *)
(* positions of its line endings, and not by a scan.                       *)
(***************************************************************************)
EXTENDS CopyText

CONSTANT Inputs        \* the byte strings a source may hold, a subset of Seq(Byte)

VARIABLES input,       \* the bytes of the source
          delivered,   \* how many rows have been handed out
          phase        \* "open", "ended" or "broken"

-----------------------------------------------------------------------------
(* Reference framing of an input.  A line ending is an unescaped LF or CR,
   and the LF of a CR LF pair belongs to the line ending before it.        *)
OddEscape(s, i) ==
  Max({n \in 0 .. i - 1 : \A j \in i - n .. i - 1 : s[j] = BSL}) % 2 = 1
Breaks(s) == {i \in DOMAIN s : s[i] \in {LF, CR} /\ ~OddEscape(s, i)}
LineEnds(s) ==
  LET breaks == Breaks(s)
  IN  {i \in breaks : ~(s[i] = LF /\ i - 1 \in breaks /\ s[i - 1] = CR)}
Beyond(s, i) == IF s[i] = CR /\ i + 1 \in DOMAIN s /\ s[i + 1] = LF THEN i + 1 ELSE i

(* The physical records: content, whether a line ending closes the record,
   and the position of its last byte, line ending included.                *)
Records(s) ==
  LET ends  == Ordered(LineEnds(s))
      from(k) == IF k = 1 THEN 1 ELSE Beyond(s, ends[k - 1]) + 1
      closed == [k \in DOMAIN ends |->
                   [raw |-> SubSeq(s, from(k), ends[k] - 1),
                    line |-> TRUE, stop |-> Beyond(s, ends[k])]]
      rest == SubSeq(s, from(Len(ends) + 1), Len(s))
  IN  IF rest = << >> THEN closed
      ELSE Append(closed, [raw |-> rest, line |-> FALSE, stop |-> Len(s)])

IsTerminator(r) == r.raw = CopyTerminator /\ r.line

(* The rows of an input are its records up to the first terminator, and the
   stream ends after that terminator or with the last byte.                *)
Rows(s) ==
  LET records == Records(s)
      stops   == {k \in DOMAIN records : IsTerminator(records[k])}
  IN  IF stops = {} THEN records ELSE SubSeq(records, 1, Min(stops) - 1)
StreamEnd(s) ==
  LET records == Records(s)
      rows    == Rows(s)
  IN  IF rows = records THEN Len(s) ELSE records[Len(rows) + 1].stop

(* A record that can be a row at all: no dangling backslash, no `\.`. *)
IsWellFormed(r) == InspectFieldLayout(r.raw, Len(r.raw) + 1) = "ok"

-----------------------------------------------------------------------------
vars == <<input, delivered, phase>>

Init == /\ input \in Inputs
        /\ delivered = 0
        /\ phase = "open"

(* The next row goes out, if it is one; nothing can follow a row that no line ending closes. *)
Deliver ==
  /\ phase = "open"
  /\ delivered < Len(Rows(input))
  /\ IsWellFormed(Rows(input)[delivered + 1])
  /\ delivered' = delivered + 1
  /\ phase' = IF Rows(input)[delivered + 1].line THEN "open" ELSE "ended"
  /\ UNCHANGED input

(* The clean end, only when every row has gone out. *)
Finish ==
  /\ phase = "open"
  /\ delivered = Len(Rows(input))
  /\ phase' = "ended"
  /\ UNCHANGED <<input, delivered>>

(* A fault of the source, a malformed row or an exhausted limit. *)
Break ==
  /\ phase = "open"
  /\ phase' = "broken"
  /\ UNCHANGED <<input, delivered>>

Next == Deliver \/ Finish \/ Break

Spec == Init /\ [][Next]_vars
=============================================================================
