------------------------------ MODULE CommandLine ------------------------------
(***************************************************************************)
(* The pgdumpx command (crates/pgdumpx-cli/src/entrypoint.rs and main.rs): *)
(* its arguments, what it writes to the standard output through a buffer,  *)
(* and how it exits.  The library's calls give any answer they can give.   *)
(*                                                                         *)
(* An argument is a sequence of symbols: the two dashes that begin an      *)
(* option, the name after them, the dots and quotes of a selector, a       *)
(* number, bytes that are not UTF-8.  Output is counted in pieces.         *)
(***************************************************************************)
EXTENDS Integers, Sequences

CONSTANTS
  Lines,         \* the lines, each a sequence of arguments after the program's name
  MaxPieces,     \* pieces of output one command writes at most
  Capacity,      \* pieces the buffer of the standard output holds
  DefaultRows,   \* DEFAULT_FIND_MAX_ROWS
  DefaultBytes,  \* DEFAULT_FIND_MAX_DECOMPRESSED_BYTES
  ExtractBytes,  \* DEFAULT_EXTRACT_MAX_DECOMPRESSED_BYTES
  None           \* no limit

ASSUME CommandLineAssumption ==
  /\ Lines \subseteq Seq(Seq(STRING))
  /\ MaxPieces \in Nat /\ Capacity \in Nat \ {0}
  /\ {DefaultRows, DefaultBytes, ExtractBytes} \subseteq Nat \ {0}
  /\ None \notin Nat

VARIABLES
  line,       \* the arguments
  at,         \* arguments taken
  pc,
  command,
  asked,      \* [unlimited, rows, bytes]: the options taken so far
  limits,     \* [rows, bytes] of an accepted command
  left,       \* pieces the command has still to write
  answer,     \* history: pieces there are in all
  copied,     \* what extract's copy has returned while its output is yet to be flushed
  buffered, delivered,   \* pieces in the buffer, pieces the standard output took
  result,     \* what run returns: "success", "no_match" or an error
  exit

vars == <<line, at, pc, command, asked, limits, left, answer, copied, buffered, delivered, result, exit>>
lineVars == <<line, at, command, asked, limits>>
outputVars == <<left, answer, copied, buffered, delivered>>

-----------------------------------------------------------------------------
Dashes == <<"--">>
Digit == [zero |-> 0, one |-> 1, two |-> 2]

IsUtf8(a) == \A i \in DOMAIN a : a[i] # "xff"
IsNumber(a) == Len(a) = 1 /\ a[1] \in DOMAIN Digit
Number(a) == Digit[a[1]]
IsOption(a) == a # << >> /\ a[1] = "--" /\ IsUtf8(a)

(* parse_table_selector: cut at its dots, a selector has two parts, none empty. *)
IsSelector(a) ==
  /\ \A i \in DOMAIN a : a[i] # "quote"
  /\ \E i \in DOMAIN a : /\ a[i] = "." /\ i > 1 /\ i < Len(a)
                         /\ \A j \in DOMAIN a : a[j] = "." => j = i

NoOptions == [unlimited |-> FALSE, rows |-> None, bytes |-> None]
NoLimits == [rows |-> None, bytes |-> None]

OneOf(given, default) == IF given = None THEN default ELSE given

\* Mutant: giving one of the limits lifts the default of the other.
OverriddenLimits ==
  IF asked = NoOptions THEN [rows |-> DefaultRows, bytes |-> DefaultBytes]
  ELSE [rows |-> asked.rows, bytes |-> asked.bytes]

FindLimits ==
  IF asked.unlimited THEN NoLimits
  ELSE [rows |-> OneOf(asked.rows, DefaultRows), bytes |-> OneOf(asked.bytes, DefaultBytes)]

ExtractLimits == [rows |-> None, bytes |-> OneOf(asked.bytes, ExtractBytes)]

-----------------------------------------------------------------------------
Init ==
  /\ line \in Lines
  /\ at = 0 /\ pc = "command" /\ command = "none"
  /\ asked = NoOptions /\ limits = NoLimits
  /\ left = 0 /\ answer = 0 /\ copied = "success"
  /\ buffered = 0 /\ delivered = 0
  /\ result = "success" /\ exit = "running"

(* An error is told on the standard error; the buffer is dropped after that. *)
Return(value) == /\ result' = value
                 /\ pc' = "drop"

Refuse == /\ Return("usage")
          /\ UNCHANGED <<lineVars, outputVars, exit>>

HasNext == at < Len(line)
Argument == line[at + 1]
Rest == SubSeq(line, at + 1, Len(line))

(* global_option: an option of the program is one only if it stands alone. *)
GlobalOption ==
  IF Len(line) # 1 THEN "none"
  ELSE CASE line[1] \in {<<"--", "help">>, <<"-h">>} -> "help"
         [] line[1] \in {<<"--", "version">>, <<"-V">>} -> "version"
         [] OTHER -> "none"

Write(pieces) == left' = pieces /\ answer' = pieces /\ pc' = "write"

TakeCommand ==
  /\ pc = "command"
  /\ \/ /\ GlobalOption # "none"
        /\ at' = 1 /\ command' = GlobalOption
        /\ Write(1)
        /\ UNCHANGED <<line, asked, limits, copied, buffered, delivered, result, exit>>
     \/ /\ GlobalOption = "none"
        /\ ~(HasNext /\ Argument \in {<<"inspect">>, <<"list">>, <<"extract">>, <<"find">>})
        /\ Refuse
     \/ /\ GlobalOption = "none"
        /\ HasNext /\ Argument \in {<<"inspect">>, <<"list">>, <<"extract">>, <<"find">>}
        /\ at' = 1 /\ command' = Argument[1]
        /\ pc' = IF command' \in {"inspect", "list"} THEN "file" ELSE "options"
        /\ UNCHANGED <<line, asked, limits, outputVars, result, exit>>

(* parse_metadata_file *)
TakeFile ==
  /\ pc = "file"
  /\ IF Len(Rest) # 1 THEN Refuse
     ELSE /\ at' = at + 1 /\ pc' = "open"
          /\ UNCHANGED <<line, command, asked, limits, outputVars, result, exit>>

-----------------------------------------------------------------------------
(* The options of extract and find come before the file, each at most once. *)
Help == command = "find" /\ at = 1 /\ Rest \in {<<<<"--", "help">>>>, <<<<"-h">>>>}

TakeHelp ==
  /\ pc = "options" /\ Help
  /\ at' = at + 1 /\ command' = "help"
  /\ Write(1)
  /\ UNCHANGED <<line, asked, limits, copied, buffered, delivered, result, exit>>

Options == IF command = "find" THEN [rows |-> <<"--", "max-rows">>, bytes |-> <<"--", "max-decompressed-bytes">>]
           ELSE [bytes |-> <<"--", "max-decompressed-bytes">>]

TakeUnlimited ==
  /\ pc = "options" /\ HasNext /\ command = "find" /\ Argument = <<"--", "unlimited">>
  /\ IF asked.unlimited THEN Refuse
     ELSE /\ asked' = [asked EXCEPT !.unlimited = TRUE]
          /\ at' = at + 1
          /\ UNCHANGED <<line, pc, command, limits, outputVars, result, exit>>

Repeated(option) == asked[option] # None

(* parse_positive_limit *)
TakeLimit(option) ==
  /\ pc = "options" /\ HasNext /\ Argument = Options[option]
  /\ IF at + 2 > Len(line) THEN Refuse
     ELSE IF ~IsNumber(line[at + 2]) THEN Refuse
     ELSE IF Number(line[at + 2]) = 0 \/ Repeated(option) THEN Refuse
     ELSE /\ asked' = [asked EXCEPT ![option] = Number(line[at + 2])]
          /\ at' = at + 2
          /\ UNCHANGED <<line, pc, command, limits, outputVars, result, exit>>

Recognised == Argument \in {Options[o] : o \in DOMAIN Options}
              \/ (command = "find" /\ Argument = <<"--", "unlimited">>)

(* The first argument that is not an option is the file, and any argument after `--`. *)
TakeOptionsEnd ==
  /\ pc = "options" /\ ~Help
  /\ \/ ~HasNext /\ Refuse
     \/ /\ HasNext /\ ~Recognised /\ Argument # Dashes /\ IsOption(Argument)
        /\ Refuse
     \/ /\ HasNext /\ Argument = Dashes /\ at + 2 > Len(line)
        /\ Refuse
     \/ /\ HasNext /\ (Argument = Dashes => at + 2 <= Len(line))
        /\ Argument = Dashes \/ ~IsOption(Argument)
        /\ at' = IF Argument = Dashes THEN at + 2 ELSE at + 1
        /\ pc' = "operands"
        /\ UNCHANGED <<line, command, asked, limits, outputVars, result, exit>>

Operands == IF command = "find" THEN 3 ELSE 1

OperandsAreGood ==
  /\ Len(Rest) = Operands
  /\ \A i \in DOMAIN Rest : IsUtf8(Rest[i])
  /\ IsSelector(Rest[1])
  /\ command = "find" => Rest[2] # << >>
  /\ ~(asked.unlimited /\ (asked.rows # None \/ asked.bytes # None))

TakeOperands ==
  /\ pc = "operands"
  /\ IF ~OperandsAreGood THEN Refuse
     ELSE /\ at' = Len(line)
          /\ limits' = IF command = "find" THEN FindLimits ELSE ExtractLimits
          /\ pc' = "open"
          /\ UNCHANGED <<line, command, asked, outputVars, result, exit>>

-----------------------------------------------------------------------------
(* A failed extract is not told before its output is flushed. *)
EndCopy(value) == /\ copied' = value
                  /\ pc' = "flush"

(* open_archive, and for extract the lookup of the table and of its data. *)
OpenArchive ==
  /\ pc = "open"
  /\ UNCHANGED <<lineVars, buffered, delivered, exit>>
  /\ \/ /\ command = "extract"
        /\ EndCopy("archive")
        /\ UNCHANGED <<left, answer, result>>
     \/ /\ command # "extract"
        /\ Return("archive")
        /\ UNCHANGED <<left, answer, copied>>
     \/ /\ command = "find"
        /\ pc' = "search"
        /\ UNCHANGED <<left, answer, copied, result>>
     \/ /\ command # "find"
        /\ \E pieces \in (IF command = "extract" THEN 0 ELSE 1) .. MaxPieces : Write(pieces)
        /\ UNCHANGED <<copied, result>>

(* find: the row found, none, or an error, with nothing written so far. *)
Search ==
  /\ pc = "search"
  /\ UNCHANGED <<lineVars, copied, buffered, delivered, exit>>
  /\ \/ \E pieces \in 1 .. MaxPieces : Write(pieces) /\ UNCHANGED result
     \/ Return("no_match") /\ UNCHANGED <<left, answer>>
     \/ Return("archive") /\ UNCHANGED <<left, answer>>

(* The buffer is full, or is to be flushed: the standard output takes some of its
   pieces and fails, or takes them all.  A flush may also fail after that.          *)
PartlyTaken(k) == /\ k \in 0 .. buffered
                  /\ delivered' = delivered + k
                  /\ buffered' = buffered - k

(* write_all on the buffered output. *)
WritePiece ==
  /\ pc = "write" /\ left > 0
  /\ left' = left - 1 /\ UNCHANGED answer
  /\ IF buffered < Capacity THEN buffered' = buffered + 1 /\ UNCHANGED delivered
     ELSE buffered' = 1 /\ delivered' = delivered + buffered
  /\ UNCHANGED <<lineVars, pc, copied, result, exit>>

(* A copy that cannot write reports it, and flushes all the same. *)
WriteFails ==
  /\ pc = "write" /\ left > 0 /\ buffered = Capacity
  /\ \E k \in 0 .. buffered - 1 : PartlyTaken(k)
  /\ IF command = "extract" THEN EndCopy("archive") /\ UNCHANGED result
     ELSE Return("stdout") /\ UNCHANGED copied
  /\ UNCHANGED <<lineVars, left, answer, exit>>

(* The archive may fail the copy after any part of the entry. *)
CopyFails ==
  /\ pc = "write" /\ command = "extract"
  /\ EndCopy("archive")
  /\ UNCHANGED <<lineVars, left, answer, buffered, delivered, result, exit>>

WriteEnds ==
  /\ pc = "write" /\ left = 0
  /\ pc' = "flush"
  /\ UNCHANGED <<lineVars, outputVars, result, exit>>

\* Mutant: extract's result is lost once its output is flushed.
OutputDecides == Return("success")

(* Only now does extract tell what the copy has returned. *)
ReportResult == Return(copied)

Flush ==
  /\ pc = "flush"
  /\ delivered' = delivered + buffered /\ buffered' = 0
  /\ ReportResult
  /\ UNCHANGED <<lineVars, left, answer, copied, exit>>

(* A flush that fails is told in place of what the copy has returned. *)
FlushFails ==
  /\ pc = "flush"
  /\ \E k \in 0 .. buffered : PartlyTaken(k)
  /\ Return("stdout")
  /\ UNCHANGED <<lineVars, left, answer, copied, exit>>

(* main: the exit code.  What the buffer still holds is written as the program
   ends, and nobody is told if it is not.                                        *)
Exit ==
  /\ pc = "drop"
  /\ exit' = IF result \in {"success", "no_match"} THEN result ELSE "failure"
  /\ \E k \in 0 .. buffered : PartlyTaken(k)
  /\ pc' = "done"
  /\ UNCHANGED <<lineVars, left, answer, copied, result>>

Next ==
  \/ TakeCommand \/ TakeFile \/ TakeHelp
  \/ TakeUnlimited \/ (\E option \in DOMAIN Options : TakeLimit(option))
  \/ TakeOptionsEnd \/ TakeOperands
  \/ OpenArchive \/ Search
  \/ WritePiece \/ WriteFails \/ CopyFails \/ WriteEnds
  \/ Flush \/ FlushFails \/ Exit

Spec == Init /\ [][Next]_vars
-----------------------------------------------------------------------------
(* The exit code is true of what was written: success means that the standard
   output has taken the whole answer and that the archive gave all of it, "no match"
   that the search came to its end and wrote nothing.  A command that writes before
   it knows its end, which only extract does, never leaves less behind than it says. *)
ExitTellsTheTruth ==
  /\ exit = "success" => delivered = answer /\ copied = "success" /\ result = "success"
  /\ exit = "no_match" => command = "find" /\ delivered = 0 /\ answer = 0
  /\ result = "usage" => delivered + buffered = 0
  /\ result = "archive" /\ delivered + buffered > 0 => command = "extract"

(* ARCHITECTURE.md says of the scan budgets that find "exposes positive-`u64`
   row/byte overrides and otherwise leaves them unlimited".                    *)
OmittedLimitsAreUnlimited ==
  pc = "open" /\ command = "find" => (asked.rows = None => limits.rows = None)
-----------------------------------------------------------------------------
(* Reference: the options of the usage text in any order, what they ask for, and
   where they may be followed by `--`.                                           *)
Unlimited == <<"--", "unlimited">>
MaxRows == <<"--", "max-rows">>
MaxBytes == <<"--", "max-decompressed-bytes">>

Part(name, value) == [name |-> name, value |-> value]

Parts == {Part("unlimited", None)} \cup {Part(name, value) : name \in {"rows", "bytes"}, value \in 1 .. 2}

Numeral == <<"one", "two">>

Written(part) ==
  CASE part.name = "unlimited" -> <<Unlimited>>
    [] part.name = "rows" -> <<MaxRows, <<Numeral[part.value]>>>>
    [] part.name = "bytes" -> <<MaxBytes, <<Numeral[part.value]>>>>

(* `--unlimited`, or either limit, or both in either order. *)
Usages == {<< >>} \cup {<<p>> : p \in Parts}
            \cup {pq \in Parts \X Parts : pq[1].name # pq[2].name /\ "unlimited" \notin {pq[1].name, pq[2].name}}

Words(w) == CASE Len(w) = 0 -> << >>
              [] Len(w) = 1 -> Written(w[1])
              [] Len(w) = 2 -> Written(w[1]) \o Written(w[2])

Given(w, name, default) ==
  IF w # << >> /\ w[1].name = "unlimited" THEN None
  ELSE IF \E k \in DOMAIN w : w[k].name = name
       THEN w[CHOOSE k \in DOMAIN w : w[k].name = name].value
       ELSE default

(* The name of a schema, a dot and the name of a table. *)
IsGoodSelector(a) ==
  \E dot \in 2 .. Len(a) - 1 :
    a[dot] = "." /\ \A i \in DOMAIN a \ {dot} : a[i] \notin {".", "quote"}

(* A line is what leads, a file and its operands. *)
OperandsFollow(lead, dashes) ==
  LET count == IF lead[1] = <<"find">> THEN 4 ELSE 2
      rest(i) == line[Len(lead) + i]
  IN  /\ Len(line) = Len(lead) + count
      /\ \A i \in DOMAIN lead : line[i] = lead[i]
      /\ dashes = << >> => ~IsOption(rest(1))
      /\ \A i \in 2 .. count : IsUtf8(rest(i))
      /\ IsGoodSelector(rest(2))
      /\ lead[1] = <<"find">> => rest(3) # << >>

(* What the usage text makes of the line. *)
Means(c, l) ==
  \/ /\ c \in {"inspect", "list"} /\ l = NoLimits
     /\ Len(line) = 2 /\ line[1] = <<c>>
  \/ /\ c = "help" /\ l = NoLimits
     /\ line \in {<<<<"-h">>>>, <<<<"--", "help">>>>, <<<<"find">>, <<"-h">>>>, <<<<"find">>, <<"--", "help">>>>}
  \/ /\ c = "version" /\ l = NoLimits
     /\ line \in {<<<<"-V">>>>, <<<<"--", "version">>>>}
  \/ /\ c = "find"
     /\ \E w \in Usages, d \in {<< >>, <<Dashes>>} :
          /\ OperandsFollow(<<<<"find">>>> \o Words(w) \o d, d)
          /\ l = [rows |-> Given(w, "rows", DefaultRows), bytes |-> Given(w, "bytes", DefaultBytes)]
  \/ /\ c = "extract"
     /\ \E w \in Usages, d \in {<< >>, <<Dashes>>} :
          /\ \A k \in DOMAIN w : w[k].name = "bytes"
          /\ OperandsFollow(<<<<"extract">>>> \o Words(w) \o d, d)
          /\ l = [rows |-> None, bytes |-> Given(w, "bytes", ExtractBytes)]

(* Once the arguments are read, the command and its limits are what the usage text
   says of them, whatever the order of the options, and a search or an extraction
   without a limit was asked for by name; a line is refused only when the usage text
   gives it no meaning.                                                              *)
AcceptedLinesAreTheUsage ==
  /\ pc \in {"open", "write"} /\ delivered + buffered = 0 => Means(command, limits)
  /\ pc = "drop" /\ result = "usage" =>
       \A c \in {"inspect", "list", "help", "version", "find", "extract"},
          rows \in {None, 1, 2, DefaultRows}, bytes \in {None, 1, 2, DefaultBytes, ExtractBytes} :
         ~Means(c, [rows |-> rows, bytes |-> bytes])
=============================================================================
