--------------------------- MODULE CommandLineProofs ---------------------------
(* The exit code is true, for every command line, every answer of the library and
   every output buffer; and the lines that are accepted are those that the usage
   text gives a meaning, and do what it means.                                     *)
EXTENDS CommandLine, SequenceTheorems, TLAPS

Counts == /\ left \in Nat /\ answer \in Nat
          /\ buffered \in Nat /\ delivered \in Nat

Silent == /\ left = 0 /\ answer = 0
          /\ buffered = 0 /\ delivered = 0

Early == {"command", "file", "options", "operands", "open", "search"}

(* Where the pieces of the answer are, and what is known of the result, at each
   place of the program.                                                         *)
PlaceInv ==
  /\ pc \in Early \cup {"write", "flush", "drop", "done"}
  /\ pc \in Early => Silent
  /\ pc = "search" => command = "find"
  /\ pc \in Early \cup {"write"} => copied = "success"
  /\ pc \in Early \cup {"write", "flush"} => result = "success"
  /\ pc = "write" => delivered + buffered + left = answer
  /\ pc = "flush" => \/ copied = "success" /\ delivered + buffered = answer
                     \/ copied = "archive" /\ command = "extract"
  /\ pc # "done" => exit = "running"

(* What a result says once the program has returned it. *)
ResultInv ==
  pc \in {"drop", "done"} =>
    /\ result = "success" => copied = "success" /\ buffered = 0 /\ delivered = answer
    /\ result = "no_match" => command = "find" /\ Silent
    /\ result = "usage" => buffered = 0 /\ delivered = 0
    /\ result = "archive" => command = "extract" \/ (buffered = 0 /\ delivered = 0)

ExitInv == pc = "done" => exit = IF result \in {"success", "no_match"} THEN result ELSE "failure"

IInv == Counts /\ PlaceInv /\ ResultInv /\ ExitInv

-----------------------------------------------------------------------------
LEMMA InitInv == Init => IInv
BY DEF Init, IInv, Counts, Silent, Early, PlaceInv, ResultInv, ExitInv

(* Pieces move from the buffer to the standard output; none appears or is lost. *)
LEMMA TakenPiecesAreCounted ==
  ASSUME NEW k, PartlyTaken(k), buffered \in Nat, delivered \in Nat
  PROVE  /\ buffered' \in Nat /\ delivered' \in Nat
         /\ delivered' + buffered' = delivered + buffered
         /\ buffered = 0 => buffered' = 0 /\ delivered' = delivered
BY DEF PartlyTaken

(* A command line that is refused has written nothing. *)
LEMMA RefuseKeeps ==
  ASSUME IInv, pc \in Early, Refuse
  PROVE  IInv'
BY DEF IInv, Counts, Silent, Early, PlaceInv, ResultInv, ExitInv, Refuse, Return, lineVars, outputVars

(* Reading an argument writes nothing. *)
LEMMA ReadingKeeps ==
  ASSUME IInv, pc \in Early, pc' \in Early \ {"search"}, UNCHANGED <<outputVars, result, exit>>
  PROVE  IInv'
BY DEF IInv, Counts, Silent, Early, PlaceInv, ResultInv, ExitInv, outputVars

(* An answer begins with all of its pieces still to be written. *)
LEMMA WriteKeeps ==
  ASSUME IInv, pc \in Early, NEW pieces \in Nat, Write(pieces),
         UNCHANGED <<copied, buffered, delivered, result, exit>>
  PROVE  IInv'
BY DEF IInv, Counts, Silent, Early, PlaceInv, ResultInv, ExitInv, Write

LEMMA ArgumentsKeep ==
  ASSUME IInv, \/ TakeCommand \/ TakeFile \/ TakeHelp \/ TakeUnlimited
               \/ (\E option \in DOMAIN Options : TakeLimit(option))
               \/ TakeOptionsEnd \/ TakeOperands
  PROVE  IInv'
<1>1. CASE TakeCommand
  <2>1. pc \in Early
    BY <1>1 DEF TakeCommand, Early
  <2>2. CASE Write(1) /\ UNCHANGED <<copied, buffered, delivered, result, exit>>
    BY <2>1, <2>2, WriteKeeps
  <2>3. CASE pc' \in {"file", "options"} /\ UNCHANGED <<outputVars, result, exit>>
    BY <2>1, <2>3, ReadingKeeps DEF Early
  <2> QED
    BY <1>1, <2>1, <2>2, <2>3, RefuseKeeps DEF TakeCommand
<1>2. CASE TakeFile
  BY <1>2, RefuseKeeps, ReadingKeeps DEF TakeFile, Early
<1>3. CASE TakeHelp
  BY <1>3, WriteKeeps DEF TakeHelp, Early
<1>4. CASE TakeUnlimited
  BY <1>4, RefuseKeeps, ReadingKeeps DEF TakeUnlimited, Early
<1>5. CASE \E option \in DOMAIN Options : TakeLimit(option)
  BY <1>5, RefuseKeeps, ReadingKeeps DEF TakeLimit, Early
<1>6. CASE TakeOptionsEnd
  BY <1>6, RefuseKeeps, ReadingKeeps DEF TakeOptionsEnd, Early
<1>7. CASE TakeOperands
  BY <1>7, RefuseKeeps, ReadingKeeps DEF TakeOperands, Early
<1> QED
  BY <1>1, <1>2, <1>3, <1>4, <1>5, <1>6, <1>7

LEMMA OpenArchiveKeeps == IInv /\ OpenArchive => IInv'
<1> SUFFICES ASSUME IInv, OpenArchive PROVE IInv'
  OBVIOUS
<1>1. pc = "open" /\ UNCHANGED <<lineVars, buffered, delivered, exit>>
  BY DEF OpenArchive
<1>2. CASE command # "find" /\ (\E pieces \in (IF command = "extract" THEN 0 ELSE 1) .. MaxPieces : Write(pieces))
           /\ UNCHANGED <<copied, result>>
  <2>1. PICK pieces \in (IF command = "extract" THEN 0 ELSE 1) .. MaxPieces : Write(pieces)
    BY <1>2
  <2>2. pieces \in Nat
    BY CommandLineAssumption
  <2> QED
    BY <1>1, <1>2, <2>1, <2>2, WriteKeeps DEF Early
<1>3. CASE ~(command # "find" /\ (\E pieces \in (IF command = "extract" THEN 0 ELSE 1) .. MaxPieces : Write(pieces))
             /\ UNCHANGED <<copied, result>>)
  BY <1>1, <1>3 DEF OpenArchive, EndCopy, Return, lineVars, IInv, Counts, Silent, Early, PlaceInv, ResultInv, ExitInv
<1> QED
  BY <1>2, <1>3

LEMMA SearchKeeps == IInv /\ Search => IInv'
<1> SUFFICES ASSUME IInv, Search PROVE IInv'
  OBVIOUS
<1>1. CASE \E pieces \in 1 .. MaxPieces : Write(pieces) /\ UNCHANGED result
  <2>1. PICK pieces \in 1 .. MaxPieces : Write(pieces) /\ UNCHANGED result
    BY <1>1
  <2> QED
    BY <2>1, WriteKeeps, CommandLineAssumption DEF Search, Early
<1>2. CASE (Return("no_match") \/ Return("archive")) /\ UNCHANGED <<left, answer>>
  BY <1>2 DEF Search, Return, lineVars, IInv, Counts, Silent, Early, PlaceInv, ResultInv, ExitInv
<1> QED
  BY <1>1, <1>2 DEF Search

LEMMA WritePieceKeeps == IInv /\ WritePiece => IInv'
<1> SUFFICES ASSUME IInv, WritePiece PROVE IInv'
  OBVIOUS
<1>1. /\ left' \in Nat /\ buffered' \in Nat /\ delivered' \in Nat
      /\ delivered' + buffered' + left' = delivered + buffered + left
  BY DEF WritePiece, IInv, Counts
<1> QED
  BY <1>1 DEF WritePiece, lineVars, IInv, Counts, Silent, Early, PlaceInv, ResultInv, ExitInv

LEMMA WriteFailsKeeps == IInv /\ WriteFails => IInv'
<1> SUFFICES ASSUME IInv, WriteFails PROVE IInv'
  OBVIOUS
<1>1. PICK k \in 0 .. buffered - 1 : PartlyTaken(k)
  BY DEF WriteFails
<1>2. buffered' \in Nat /\ delivered' \in Nat
  BY <1>1, TakenPiecesAreCounted DEF IInv, Counts
<1> QED
  BY <1>2 DEF WriteFails, EndCopy, Return, lineVars, IInv, Counts, Silent, Early, PlaceInv, ResultInv, ExitInv

LEMMA CopyEndsKeep == IInv /\ (CopyFails \/ WriteEnds) => IInv'
<1> SUFFICES ASSUME IInv, CopyFails \/ WriteEnds PROVE IInv'
  OBVIOUS
<1>1. CASE CopyFails
  BY <1>1 DEF CopyFails, EndCopy, lineVars, IInv, Counts, Silent, Early, PlaceInv, ResultInv, ExitInv
<1>2. CASE WriteEnds
  BY <1>2 DEF WriteEnds, lineVars, outputVars, IInv, Counts, Silent, Early, PlaceInv, ResultInv, ExitInv
<1> QED
  BY <1>1, <1>2

LEMMA FlushKeeps == IInv /\ (Flush \/ FlushFails) => IInv'
<1> SUFFICES ASSUME IInv, Flush \/ FlushFails PROVE IInv'
  OBVIOUS
<1>1. CASE Flush
  BY <1>1 DEF Flush, ReportResult, Return, lineVars, IInv, Counts, Silent, Early, PlaceInv, ResultInv, ExitInv
<1>2. CASE FlushFails
  <2>1. PICK k \in 0 .. buffered : PartlyTaken(k)
    BY <1>2 DEF FlushFails
  <2>2. buffered' \in Nat /\ delivered' \in Nat
    BY <2>1, TakenPiecesAreCounted DEF IInv, Counts
  <2> QED
    BY <1>2, <2>2 DEF FlushFails, Return, lineVars, IInv, Counts, Silent, Early, PlaceInv, ResultInv, ExitInv
<1> QED
  BY <1>1, <1>2

(* What the buffer still holds when the program ends belongs to a failure. *)
LEMMA ExitKeeps == IInv /\ Exit => IInv'
<1> SUFFICES ASSUME IInv, Exit PROVE IInv'
  OBVIOUS
<1>1. PICK k \in 0 .. buffered : PartlyTaken(k)
  BY DEF Exit
<1>2. /\ buffered' \in Nat /\ delivered' \in Nat
      /\ buffered = 0 => buffered' = 0 /\ delivered' = delivered
  BY <1>1, TakenPiecesAreCounted DEF IInv, Counts
<1> QED
  BY <1>2 DEF Exit, lineVars, IInv, Counts, Silent, Early, PlaceInv, ResultInv, ExitInv

LEMMA NextInv == IInv /\ [Next]_vars => IInv'
<1> SUFFICES ASSUME IInv, [Next]_vars PROVE IInv'
  OBVIOUS
<1>1. CASE UNCHANGED vars
  BY <1>1 DEF vars, IInv, Counts, Silent, Early, PlaceInv, ResultInv, ExitInv
<1> QED
  BY <1>1, ArgumentsKeep, OpenArchiveKeeps, SearchKeeps, WritePieceKeeps, WriteFailsKeeps,
     CopyEndsKeep, FlushKeeps, ExitKeeps DEF Next

(* Success means that the standard output took the whole answer, and no match that
   nothing was written, whatever the archive and the output do and wherever they fail. *)
THEOREM ExitIsTrue == Spec => []ExitTellsTheTruth
<1>1. IInv => ExitTellsTheTruth
  BY DEF IInv, Counts, Silent, Early, PlaceInv, ResultInv, ExitInv, ExitTellsTheTruth
<1> QED
  BY InitInv, NextInv, <1>1, PTL DEF Spec

-----------------------------------------------------------------------------
(* A line begins with a sequence of arguments. *)
Begins(l, s) == Len(s) <= Len(l) /\ \A i \in DOMAIN s : l[i] = s[i]

(* The symbols of the words of a usage are named for the provers, to whom no
   string is known to be in STRING.                                            *)
Spelt == {"find", "extract", "--", "unlimited", "max-rows", "max-decompressed-bytes", "one", "two"}

Arguments == Seq(STRING \cup Spelt)

LEMMA BeginsMore ==
  ASSUME NEW l \in Seq(Arguments), NEW s \in Seq(Arguments), NEW t \in Seq(Arguments)
  PROVE  /\ s \o t \in Seq(Arguments) /\ Len(s \o t) = Len(s) + Len(t)
         /\ Begins(l, s \o t) <=> /\ Begins(l, s)
                                  /\ Len(s) + Len(t) <= Len(l)
                                  /\ \A i \in DOMAIN t : l[Len(s) + i] = t[i]
<1> DEFINE st == s \o t
<1>1. st \in Seq(Arguments) /\ Len(st) = Len(s) + Len(t)
  OBVIOUS
<1>2. /\ \A i \in 1 .. Len(s) : st[i] = s[i]
      /\ \A i \in 1 .. Len(t) : st[Len(s) + i] = t[i]
  OBVIOUS
<1>3. /\ DOMAIN st = 1 .. Len(s) + Len(t) /\ DOMAIN s = 1 .. Len(s) /\ DOMAIN t = 1 .. Len(t)
      /\ Len(s) \in Nat /\ Len(t) \in Nat /\ Len(l) \in Nat
  BY <1>1
<1> HIDE DEF st
<1>4. ASSUME Begins(l, st) PROVE /\ Begins(l, s) /\ Len(s) + Len(t) <= Len(l)
                                  /\ \A i \in DOMAIN t : l[Len(s) + i] = t[i]
  <2>1. \A i \in DOMAIN t : Len(s) + i \in DOMAIN st
    BY <1>3
  <2>2. \A i \in DOMAIN s : i \in DOMAIN st
    BY <1>3
  <2> QED
    BY <1>1, <1>2, <1>3, <1>4, <2>1, <2>2 DEF Begins
<1>5. ASSUME Begins(l, s), Len(s) + Len(t) <= Len(l), \A i \in DOMAIN t : l[Len(s) + i] = t[i]
      PROVE  Begins(l, st)
  <2>1. ASSUME NEW i \in DOMAIN st, i > Len(s) PROVE l[i] = st[i]
    <3>1. i - Len(s) \in DOMAIN t /\ i = Len(s) + (i - Len(s))
      BY <1>3, <2>1
    <3> QED
      BY <1>2, <1>3, <1>5, <3>1
  <2>2. ASSUME NEW i \in DOMAIN st, i <= Len(s) PROVE l[i] = st[i]
    BY <1>2, <1>3, <1>5, <2>2 DEF Begins
  <2> QED
    BY <1>1, <1>3, <1>5, <2>1, <2>2 DEF Begins
<1> QED
  BY <1>1, <1>4, <1>5 DEF st

-----------------------------------------------------------------------------
(* The usages, one by one. *)
Limit == {Part(name, value) : name \in {"rows", "bytes"}, value \in 1 .. 2}

LEMMA PartsAre ==
  /\ Parts = {Part("unlimited", None)} \cup Limit
  /\ \A p \in Limit : /\ p = [name |-> p.name, value |-> p.value]
                      /\ p.name \in {"rows", "bytes"} /\ p.value \in 1 .. 2
                      /\ p.name # "unlimited"
  /\ Part("unlimited", None).name = "unlimited"
  /\ \A name \in {"rows", "bytes"}, value \in 1 .. 2 : Part(name, value) \in Limit
BY DEF Parts, Limit, Part

LEMMA PartsSplit == \A p : p \in Parts <=> p = Part("unlimited", None) \/ p \in Limit
BY PartsAre

(* A part has one word or two. *)
LEMMA WrittenIs ==
  /\ Written(Part("unlimited", None)) = <<Unlimited>>
  /\ \A p \in Limit : Written(p) = <<IF p.name = "rows" THEN MaxRows ELSE MaxBytes, <<Numeral[p.value]>>>>
  /\ \A p \in Parts : Written(p) \in Seq(Arguments)
<1>1. Written(Part("unlimited", None)) = <<Unlimited>>
  BY DEF Written, Part
<1>2. ASSUME NEW p \in Limit
      PROVE  Written(p) = <<IF p.name = "rows" THEN MaxRows ELSE MaxBytes, <<Numeral[p.value]>>>>
  BY PartsAre DEF Written
<1> DEFINE Symbols == STRING \cup Spelt
<1>3. /\ \A value \in 1 .. 2 : Numeral[value] \in Symbols
      /\ {"--", "unlimited", "max-rows", "max-decompressed-bytes"} \subseteq Symbols
  BY DEF Numeral, Spelt
<1>0. Arguments = Seq(Symbols)
  BY DEF Arguments
<1> HIDE DEF Symbols
<1>4. MaxRows \in Arguments /\ MaxBytes \in Arguments /\ Unlimited \in Arguments
  BY <1>0, <1>3 DEF MaxRows, MaxBytes, Unlimited
<1>5. ASSUME NEW p \in Limit PROVE Written(p) \in Seq(Arguments)
  <2>1. <<Numeral[p.value]>> \in Arguments
    BY <1>0, <1>3, PartsAre
  <2>2. PICK first \in Arguments : first = IF p.name = "rows" THEN MaxRows ELSE MaxBytes
    BY <1>4
  <2>3. PICK second \in Arguments : second = <<Numeral[p.value]>>
    BY <2>1
  <2>4. Written(p) = <<first, second>>
    BY <1>2, <2>2, <2>3
  <2> QED
    BY <2>4
<1> QED
  BY <1>1, <1>2, <1>4, <1>5, PartsAre

LEMMA UsagesAre ==
  \A w : w \in Usages <=> \/ w = << >>
                          \/ w = <<Part("unlimited", None)>>
                          \/ \E p \in Limit : w = <<p>>
                          \/ \E p, q \in Limit : p.name # q.name /\ w = <<p, q>>
<1> SUFFICES ASSUME NEW w
             PROVE  w \in Usages <=> \/ w = << >>
                                     \/ w = <<Part("unlimited", None)>>
                                     \/ \E p \in Limit : w = <<p>>
                                     \/ \E p, q \in Limit : p.name # q.name /\ w = <<p, q>>
  OBVIOUS
<1>1. w \in Usages <=> \/ w = << >>
                       \/ \E p \in Parts : w = <<p>>
                       \/ \E p, q \in Parts : /\ p.name # q.name /\ "unlimited" \notin {p.name, q.name}
                                              /\ w = <<p, q>>
  BY DEF Usages
<1> QED
  BY <1>1, PartsAre

LEMMA AppendIsLonger ==
  ASSUME NEW S, NEW s \in Seq(S), NEW p \in S
  PROVE  Len(Append(s, p)) = Len(s) + 1
OBVIOUS

LEMMA AppendToOne ==
  ASSUME NEW S, NEW q \in S, NEW p \in S
  PROVE  Append(<<q>>, p) = <<q, p>>
<1> DEFINE a == Append(<<q>>, p)
           b == <<q, p>>
<1>1. a \in Seq(S) /\ Len(a) = 2 /\ a[1] = q /\ a[2] = p
  OBVIOUS
<1>2. b \in Seq(S) /\ Len(b) = 2 /\ b[1] = q /\ b[2] = p
  OBVIOUS
<1> HIDE DEF a, b
<1>3. a \in [1 .. 2 -> S] /\ b \in [1 .. 2 -> S]
  BY <1>1, <1>2
<1>4. \A i \in 1 .. 2 : a[i] = b[i]
  BY <1>1, <1>2
<1>5. a = b
  BY <1>3, <1>4
<1> QED
  BY <1>5 DEF a, b

LEMMA UsagesAreShort == \A w \in Usages : w \in Seq(Parts) /\ Len(w) \in 0 .. 2
<1> SUFFICES ASSUME NEW w \in Usages PROVE w \in Seq(Parts) /\ Len(w) \in 0 .. 2
  OBVIOUS
<1>1. CASE w = << >>
  BY <1>1
<1>2. ASSUME NEW p \in Parts, w = <<p>> PROVE w \in Seq(Parts) /\ Len(w) \in 0 .. 2
  BY <1>2
<1>3. ASSUME NEW p \in Parts, NEW q \in Parts, w = <<p, q>> PROVE w \in Seq(Parts) /\ Len(w) \in 0 .. 2
  BY <1>3
<1> QED
  BY <1>1, <1>2, <1>3, UsagesAre, PartsSplit

(* How long a usage is, and what its last part was appended to. *)
LEMMA UsagesGrow ==
  ASSUME NEW v \in Usages, NEW p \in Parts, Append(v, p) \in Usages
  PROVE  \/ v = << >> /\ Append(v, p) = <<p>>
         \/ p \in Limit /\ \E q \in Limit : q.name # p.name /\ v = <<q>> /\ Append(v, p) = <<q, p>>
<1>1. CASE v = << >>
  BY <1>1
<1>2. ASSUME NEW q \in Parts, v = <<q>>
      PROVE  q \in Limit /\ p \in Limit /\ q.name # p.name /\ Append(v, p) = <<q, p>>
  <2>1. Append(v, p) = <<q, p>>
    BY <1>2, AppendToOne
  <2>2. PICK q1 \in Limit, q2 \in Limit : q1.name # q2.name /\ Append(v, p) = <<q1, q2>>
    BY <2>1, UsagesAre
  <2> QED
    BY <2>1, <2>2
<1>3. ASSUME NEW q1 \in Limit, NEW q2 \in Limit, v = <<q1, q2>> PROVE FALSE
  <2>1. v \in Seq(Parts) /\ Len(v) = 2
    <3>1. v \in Seq(Parts)
      BY UsagesAreShort
    <3> QED
      BY <1>3, <3>1
  <2>2. Len(Append(v, p)) = Len(v) + 1
    BY <2>1, AppendIsLonger
  <2>3. Len(Append(v, p)) \in 0 .. 2
    BY UsagesAreShort
  <2> QED
    BY <2>1, <2>2, <2>3
<1> QED
  BY <1>1, <1>2, <1>3, UsagesAre, PartsAre

LEMMA WordsAre ==
  /\ Words(<< >>) = << >>
  /\ \A p \in Parts : Words(<<p>>) = Written(p)
  /\ \A p, q \in Parts : Words(<<p, q>>) = Written(p) \o Written(q)
BY DEF Words

LEMMA WordsAreWords == \A w \in Usages : Words(w) \in Seq(Arguments)
<1>1. \A p, q \in Parts : Written(p) \o Written(q) \in Seq(Arguments)
  BY WrittenIs
<1>2. << >> \in Seq(Arguments) /\ \A p \in Parts : Written(p) \in Seq(Arguments)
  BY WrittenIs
<1> HIDE DEF Arguments
<1> SUFFICES ASSUME NEW w \in Usages PROVE Words(w) \in Seq(Arguments)
  OBVIOUS
<1>3. ASSUME NEW p \in Limit, w = <<p>> PROVE Words(w) \in Seq(Arguments)
  <2>1. Words(<<p>>) = Written(p) /\ Written(p) \in Seq(Arguments)
    BY <1>2, WordsAre, PartsSplit
  <2> QED
    BY <1>3, <2>1
<1>4. ASSUME NEW p \in Limit, NEW q \in Limit, w = <<p, q>> PROVE Words(w) \in Seq(Arguments)
  <2>1. Words(<<p, q>>) = Written(p) \o Written(q) /\ Written(p) \o Written(q) \in Seq(Arguments)
    BY <1>1, WordsAre, PartsSplit
  <2> QED
    BY <1>4, <2>1
<1>5. CASE w = << >> \/ w = <<Part("unlimited", None)>>
  BY <1>2, <1>5, WordsAre, PartsSplit
<1> QED
  BY <1>3, <1>4, <1>5, UsagesAre

LEMMA WordsGrow ==
  ASSUME NEW v \in Usages, NEW p \in Parts, Append(v, p) \in Usages
  PROVE  Words(Append(v, p)) = Words(v) \o Written(p)
<1>1. Written(p) \in Seq(Arguments)
  BY WrittenIs
<1>2. << >> \o Written(p) = Written(p)
  BY <1>1
<1>3. CASE v = << >> /\ Append(v, p) = <<p>>
  BY <1>2, <1>3, WordsAre
<1>4. ASSUME NEW q \in Limit, v = <<q>>, Append(v, p) = <<q, p>> PROVE Words(Append(v, p)) = Words(v) \o Written(p)
  <2>1. Words(<<q, p>>) = Written(q) \o Written(p) /\ Words(<<q>>) = Written(q)
    BY WordsAre, PartsSplit
  <2> QED
    BY <1>4, <2>1
<1> QED
  BY <1>3, <1>4, UsagesGrow

-----------------------------------------------------------------------------
(* What a usage asks for: the options of the program once its words are read. *)
AsksAll(w) == \E k \in DOMAIN w : w[k].name = "unlimited"

AsksFor(w, options) ==
  /\ options.unlimited <=> AsksAll(w)
  /\ options.rows = Given(w, "rows", None)
  /\ options.bytes = Given(w, "bytes", None)

LEMMA NoneIsGiven ==
  \A name, default : Given(<< >>, name, default) = default /\ Given(<<Part("unlimited", None)>>, name, default) = None
BY DEF Given, Part

LEMMA OneIsGiven ==
  \A p \in Limit : \A name, default :
    Given(<<p>>, name, default) = IF p.name = name THEN p.value ELSE default
BY PartsAre DEF Given

LEMMA TwoAreGiven ==
  \A p, q \in Limit : \A name, default :
    p.name # q.name =>
      Given(<<p, q>>, name, default) =
        IF p.name = name THEN p.value ELSE IF q.name = name THEN q.value ELSE default
<1> SUFFICES ASSUME NEW p \in Limit, NEW q \in Limit, NEW name, NEW default, p.name # q.name
             PROVE  Given(<<p, q>>, name, default) =
                      IF p.name = name THEN p.value ELSE IF q.name = name THEN q.value ELSE default
  OBVIOUS
<1> DEFINE w == <<p, q>>
<1>1. DOMAIN w = 1 .. 2 /\ w # << >> /\ w[1] = p /\ w[2] = q
  OBVIOUS
<1> HIDE DEF w
<1>2. Given(w, name, default) =
        IF \E k \in DOMAIN w : w[k].name = name THEN w[CHOOSE k \in DOMAIN w : w[k].name = name].value ELSE default
  BY <1>1, PartsAre DEF Given
<1>3. CASE p.name = name
  <2>1. \A k \in DOMAIN w : w[k].name = name <=> k = 1
    BY <1>1, <1>3
  <2> QED
    BY <1>1, <1>2, <1>3, <2>1 DEF w
<1>4. CASE q.name = name
  <2>1. \A k \in DOMAIN w : w[k].name = name <=> k = 2
    BY <1>1, <1>4
  <2> QED
    BY <1>1, <1>2, <1>4, <2>1 DEF w
<1>5. CASE p.name # name /\ q.name # name
  <2>1. \A k \in DOMAIN w : w[k].name # name
    BY <1>1, <1>5
  <2> QED
    BY <1>2, <1>5, <2>1 DEF w
<1> QED
  BY <1>3, <1>4, <1>5

LEMMA AllIsAsked ==
  /\ ~AsksAll(<< >>) /\ AsksAll(<<Part("unlimited", None)>>)
  /\ \A p \in Limit : ~AsksAll(<<p>>)
  /\ \A p, q \in Limit : ~AsksAll(<<p, q>>)
<1>1. ~AsksAll(<< >>)
  BY DEF AsksAll
<1>2. AsksAll(<<Part("unlimited", None)>>)
  BY PartsAre DEF AsksAll
<1>3. \A p \in Limit : ~AsksAll(<<p>>)
  BY PartsAre DEF AsksAll
<1>4. \A p, q \in Limit : ~AsksAll(<<p, q>>)
  BY PartsAre DEF AsksAll
<1> QED
  BY <1>1, <1>2, <1>3, <1>4

(* A part is asked for once, and changes what it names. *)
LEMMA AskingGrows ==
  ASSUME NEW v \in Usages, NEW p \in Parts, Append(v, p) \in Usages
  PROVE  /\ ~AsksAll(v)
         /\ p.name = "unlimited" => v = << >> /\ AsksAll(Append(v, p))
                                    /\ \A name : Given(Append(v, p), name, None) = None
         /\ p.name # "unlimited" => /\ p \in Limit /\ ~AsksAll(Append(v, p)) /\ Given(v, p.name, None) = None
                                    /\ \A name : Given(Append(v, p), name, None) =
                                                   IF name = p.name THEN p.value ELSE Given(v, name, None)
<1>1. CASE v = << >> /\ p = Part("unlimited", None)
  BY <1>1, UsagesGrow, NoneIsGiven, AllIsAsked, PartsAre
<1>2. CASE v = << >> /\ p \in Limit
  <2>1. Append(v, p) = <<p>>
    BY <1>2
  <2> QED
    BY <1>2, <2>1, NoneIsGiven, OneIsGiven, AllIsAsked, PartsAre
<1>3. CASE \E q \in Limit : p \in Limit /\ q.name # p.name /\ v = <<q>> /\ Append(v, p) = <<q, p>>
  <2>1. PICK q \in Limit : p \in Limit /\ q.name # p.name /\ v = <<q>> /\ Append(v, p) = <<q, p>>
    BY <1>3
  <2>2. ~AsksAll(v) /\ ~AsksAll(Append(v, p)) /\ p.name # "unlimited"
    BY <2>1, AllIsAsked, PartsAre
  <2>3. Given(v, p.name, None) = None
    BY <2>1, OneIsGiven
  <2>4. ASSUME NEW name
        PROVE  Given(Append(v, p), name, None) = IF name = p.name THEN p.value ELSE Given(v, name, None)
    <3>1. Given(<<q, p>>, name, None) = IF q.name = name THEN q.value ELSE IF p.name = name THEN p.value ELSE None
      BY <2>1, TwoAreGiven
    <3>2. Given(<<q>>, name, None) = IF q.name = name THEN q.value ELSE None
      BY OneIsGiven
    <3> QED
      BY <2>1, <3>1, <3>2
  <2> QED
    BY <2>1, <2>2, <2>3, <2>4
<1> QED
  BY <1>1, <1>2, <1>3, UsagesGrow, PartsAre

(* A limit not asked for yet can be. *)
LEMMA LimitsAppend ==
  ASSUME NEW w \in Usages, ~AsksAll(w), NEW p \in Limit, Given(w, p.name, None) = None
  PROVE  Append(w, p) \in Usages
<1>1. \A q \in Limit : q.value # None
  BY PartsAre, CommandLineAssumption
<1>2. CASE w = << >>
  <2>1. Append(w, p) = <<p>>
    BY <1>2
  <2> QED
    BY <2>1, UsagesAre
<1>3. ASSUME NEW q \in Limit, w = <<q>> PROVE Append(w, p) \in Usages
  <2>1. Append(w, p) = <<q, p>>
    BY <1>3, AppendToOne
  <2>2. q.name # p.name
    BY <1>1, <1>3, OneIsGiven
  <2> QED
    BY <2>1, <2>2, UsagesAre
<1>4. ASSUME NEW q1 \in Limit, NEW q2 \in Limit, q1.name # q2.name, w = <<q1, q2>> PROVE FALSE
  <2>1. Given(w, p.name, None) = IF q1.name = p.name THEN q1.value ELSE IF q2.name = p.name THEN q2.value ELSE None
    BY <1>4, TwoAreGiven
  <2>2. q1.name = p.name \/ q2.name = p.name
    BY <1>4, PartsAre
  <2> QED
    BY <1>1, <2>1, <2>2
<1> QED
  BY <1>2, <1>3, <1>4, UsagesAre, AllIsAsked

(* A usage that asks for nothing is empty. *)
LEMMA NothingAsked ==
  ASSUME NEW w \in Usages, ~AsksAll(w), Given(w, "rows", None) = None, Given(w, "bytes", None) = None
  PROVE  w = << >>
<1>1. \A q \in Limit : q.value # None
  BY PartsAre, CommandLineAssumption
<1>2. ASSUME NEW q \in Limit, w = <<q>> PROVE FALSE
  BY <1>1, <1>2, OneIsGiven, PartsAre
<1>3. ASSUME NEW q1 \in Limit, NEW q2 \in Limit, q1.name # q2.name, w = <<q1, q2>> PROVE FALSE
  <2>1. \A name : Given(w, name, None) = IF q1.name = name THEN q1.value ELSE IF q2.name = name THEN q2.value ELSE None
    BY <1>3, TwoAreGiven
  <2>2. Given(w, q1.name, None) = q1.value
    BY <2>1
  <2> QED
    BY <1>1, <2>2, PartsAre
<1> QED
  BY <1>2, <1>3, UsagesAre, AllIsAsked

(* The limit given, or the default of one that is not. *)
LEMMA DefaultsApply ==
  \A w \in Usages, name \in {"rows", "bytes"} : \A default :
    Given(w, name, default) = IF AsksAll(w) THEN None ELSE OneOf(Given(w, name, None), default)
<1> SUFFICES ASSUME NEW w \in Usages, NEW name \in {"rows", "bytes"}, NEW default
             PROVE  Given(w, name, default) = IF AsksAll(w) THEN None ELSE OneOf(Given(w, name, None), default)
  OBVIOUS
<1>1. \A q \in Limit : q.value # None
  BY PartsAre, CommandLineAssumption
<1>2. CASE w = << >> \/ w = <<Part("unlimited", None)>>
  BY <1>2, NoneIsGiven, AllIsAsked DEF OneOf
<1>3. ASSUME NEW q \in Limit, w = <<q>>
      PROVE  Given(w, name, default) = IF AsksAll(w) THEN None ELSE OneOf(Given(w, name, None), default)
  BY <1>1, <1>3, OneIsGiven, AllIsAsked DEF OneOf
<1>4. ASSUME NEW q1 \in Limit, NEW q2 \in Limit, q1.name # q2.name, w = <<q1, q2>>
      PROVE  Given(w, name, default) = IF AsksAll(w) THEN None ELSE OneOf(Given(w, name, None), default)
  BY <1>1, <1>4, TwoAreGiven, AllIsAsked DEF OneOf
<1> QED
  BY <1>2, <1>3, <1>4, UsagesAre

-----------------------------------------------------------------------------
(* The parts of a usage that have been read. *)
Read(w, k) == IF k = 0 THEN << >> ELSE IF k = 1 THEN <<w[1]>> ELSE <<w[1], w[2]>>

Lead(c, w) == <<<<c>>>> \o Words(w)

Ends == {<< >>, <<Dashes>>}

(* The line has a meaning: these options, and operands after them. *)
Fits(c, w, d) ==
  /\ c = "extract" => \A k \in DOMAIN w : w[k].name = "bytes"
  /\ OperandsFollow(Lead(c, w) \o d, d)

Reading == {"command", "file", "options", "operands"}

IsOptions(o) == o \in [unlimited : BOOLEAN, rows : {None, 1, 2}, bytes : {None, 1, 2}]

AskedInv ==
  /\ line \in Seq(Arguments)
  /\ at \in 0 .. Len(line)
  /\ IsOptions(asked)
  /\ pc = "command" => at = 0 /\ asked = NoOptions
  /\ pc = "file" => /\ at = 1 /\ command \in {"inspect", "list"}
                    /\ line[1] = <<command>>
  /\ pc \in {"options", "operands"} => /\ at >= 1 /\ command \in {"find", "extract"}
                                       /\ line[1] = <<command>>
                                       /\ command = "extract" => ~asked.unlimited /\ asked.rows = None
  /\ pc \in Reading => limits = NoLimits

(* Options that exclude each other are told at the end. *)
Conflict == asked.unlimited /\ (asked.rows # None \/ asked.bytes # None)

(* What has been read so far is the beginning of a usage. *)
AcceptInv ==
  /\ pc = "options" =>
       \/ Conflict
       \/ \E w \in Usages : /\ AsksFor(w, asked)
                            /\ at = Len(Lead(command, w)) /\ Begins(line, Lead(command, w))
  /\ pc = "operands" =>
       \/ Conflict
       \/ \E w \in Usages, d \in Ends : /\ AsksFor(w, asked)
                                        /\ at = Len(Lead(command, w) \o d) + 1
                                        /\ Begins(line, Lead(command, w) \o d)
                                        /\ d = << >> => ~IsOption(line[at])
  /\ pc \in {"open", "search", "write"} => Means(command, limits)

IsHelpLine == line \in {<<<<"find">>, <<"-h">>>>, <<<<"find">>, <<"--", "help">>>>}

(* A line that has a meaning is read as it is meant. *)
ForcedInv ==
  /\ pc = "options" => /\ IsHelpLine => at = 1
                       /\ \A w \in Usages, d \in Ends : Fits(command, w, d) =>
                            \E k \in 0 .. Len(w) : at = Len(Lead(command, Read(w, k))) /\ AsksFor(Read(w, k), asked)
  /\ pc = "operands" => /\ ~IsHelpLine
                        /\ \A w \in Usages, d \in Ends : Fits(command, w, d) =>
                             at = Len(Lead(command, w) \o d) + 1 /\ AsksFor(w, asked)

NoMeaning == \A c, l : ~Means(c, l)

RefuseInv == result = "usage" => pc \in {"drop", "done"} /\ NoMeaning

-----------------------------------------------------------------------------
(* The words of the options, and the numbers. *)
LEMMA WordsDiffer ==
  /\ Unlimited # MaxRows /\ Unlimited # MaxBytes /\ MaxRows # MaxBytes
  /\ Dashes \notin {Unlimited, MaxRows, MaxBytes}
  /\ <<"-h">> \notin {Unlimited, MaxRows, MaxBytes} /\ <<"--", "help">> \notin {Unlimited, MaxRows, MaxBytes}
BY DEF Unlimited, MaxRows, MaxBytes, Dashes

LEMMA WordsAreOptions == \A a \in {Dashes, Unlimited, MaxRows, MaxBytes} : IsOption(a)
BY DEF Unlimited, MaxRows, MaxBytes, Dashes, IsOption, IsUtf8

LEMMA NumbersAre ==
  /\ \A value \in 1 .. 2 : IsNumber(<<Numeral[value]>>) /\ Number(<<Numeral[value]>>) = value
  /\ \A a \in Arguments : IsNumber(a) /\ Number(a) # 0 => Number(a) \in 1 .. 2 /\ a = <<Numeral[Number(a)]>>
<1>1. DOMAIN Digit = {"zero", "one", "two"} /\ Digit["zero"] = 0 /\ Digit["one"] = 1 /\ Digit["two"] = 2
  BY DEF Digit
<1>2. Numeral[1] = "one" /\ Numeral[2] = "two"
  BY DEF Numeral
<1>3. ASSUME NEW value \in 1 .. 2
      PROVE  IsNumber(<<Numeral[value]>>) /\ Number(<<Numeral[value]>>) = value
  BY <1>1, <1>2 DEF IsNumber, Number
<1>4. ASSUME NEW a \in Arguments, IsNumber(a), Number(a) # 0
      PROVE  Number(a) \in 1 .. 2 /\ a = <<Numeral[Number(a)]>>
  <2>1. a[1] \in {"one", "two"} /\ Number(a) = Digit[a[1]]
    BY <1>1, <1>4 DEF IsNumber, Number
  <2>2. Number(a) \in 1 .. 2 /\ Numeral[Number(a)] = a[1]
    BY <1>1, <1>2, <2>1
  <2>3. a = <<a[1]>>
    BY <1>4 DEF IsNumber, Arguments
  <2> QED
    BY <2>2, <2>3
<1> QED
  BY <1>3, <1>4

LEMMA SelectorsAgree == \A a \in Arguments : IsSelector(a) <=> IsGoodSelector(a)
<1> SUFFICES ASSUME NEW a \in Arguments PROVE IsSelector(a) <=> IsGoodSelector(a)
  OBVIOUS
<1>1. DOMAIN a = 1 .. Len(a) /\ Len(a) \in Nat
  BY DEF Arguments
<1>2. ASSUME IsSelector(a) PROVE IsGoodSelector(a)
  <2>1. PICK i \in DOMAIN a : a[i] = "." /\ i > 1 /\ i < Len(a) /\ \A j \in DOMAIN a : a[j] = "." => j = i
    BY <1>2 DEF IsSelector
  <2>2. i \in 2 .. Len(a) - 1
    BY <1>1, <2>1
  <2>3. \A j \in DOMAIN a \ {i} : a[j] \notin {".", "quote"}
    BY <1>2, <2>1 DEF IsSelector
  <2> QED
    BY <2>1, <2>2, <2>3 DEF IsGoodSelector
<1>3. ASSUME IsGoodSelector(a) PROVE IsSelector(a)
  <2>1. PICK i \in 2 .. Len(a) - 1 : a[i] = "." /\ \A j \in DOMAIN a \ {i} : a[j] \notin {".", "quote"}
    BY <1>3 DEF IsGoodSelector
  <2>2. i \in DOMAIN a /\ i > 1 /\ i < Len(a)
    BY <1>1, <2>1
  <2>3. \A j \in DOMAIN a : a[j] = "." => j = i
    BY <2>1
  <2>4. \A j \in DOMAIN a : a[j] # "quote"
    BY <2>1
  <2> QED
    BY <2>1, <2>2, <2>3, <2>4 DEF IsSelector
<1> QED
  BY <1>2, <1>3

-----------------------------------------------------------------------------
(* What leads a line: the command and its options. *)
LEMMA CommandsAreArguments == \A c \in {"find", "extract"} : <<c>> \in Arguments
<1> DEFINE Symbols == STRING \cup Spelt
<1>1. {"find", "extract"} \subseteq Symbols
  BY DEF Spelt
<1>2. Arguments = Seq(Symbols)
  BY DEF Arguments
<1> HIDE DEF Symbols
<1> QED
  BY <1>1, <1>2

LEMMA LeadIs ==
  \A c \in {"find", "extract"}, w \in Usages :
    /\ Lead(c, w) \in Seq(Arguments)
    /\ Len(Lead(c, w)) = 1 + Len(Words(w))
    /\ Lead(c, w)[1] = <<c>>
<1> SUFFICES ASSUME NEW c \in {"find", "extract"}, NEW w \in Usages
             PROVE  /\ Lead(c, w) \in Seq(Arguments)
                    /\ Len(Lead(c, w)) = 1 + Len(Words(w))
                    /\ Lead(c, w)[1] = <<c>>
  OBVIOUS
<1>1. PICK first \in Arguments : first = <<c>>
  BY CommandsAreArguments
<1>2. Words(w) \in Seq(Arguments)
  BY WordsAreWords
<1> HIDE DEF Arguments
<1>3. /\ <<first>> \o Words(w) \in Seq(Arguments)
      /\ Len(<<first>> \o Words(w)) = 1 + Len(Words(w))
      /\ (<<first>> \o Words(w))[1] = first
  BY <1>2
<1> QED
  BY <1>1, <1>3 DEF Lead

LEMMA LeadBegins == \A c \in {"find", "extract"} : Lead(c, << >>) = <<<<c>>>> /\ Len(Lead(c, << >>)) = 1
<1> SUFFICES ASSUME NEW c \in {"find", "extract"} PROVE Lead(c, << >>) = <<<<c>>>> /\ Len(Lead(c, << >>)) = 1
  OBVIOUS
<1>1. PICK first \in Arguments : first = <<c>>
  BY CommandsAreArguments
<1>2. <<first>> \o << >> = <<first>>
  <2>1. <<first>> \in Seq(Arguments)
    OBVIOUS
  <2> QED
    BY <2>1, ConcatEmptySeq
<1>3. Lead(c, << >>) = <<first>>
  BY <1>1, <1>2, WordsAre DEF Lead
<1> QED
  BY <1>1, <1>3

LEMMA LeadGrows ==
  ASSUME NEW c \in {"find", "extract"}, NEW v \in Usages, NEW p \in Parts, Append(v, p) \in Usages
  PROVE  /\ Lead(c, Append(v, p)) = Lead(c, v) \o Written(p)
         /\ Len(Lead(c, Append(v, p))) = Len(Lead(c, v)) + Len(Written(p))
<1>1. PICK first \in Arguments : first = <<c>>
  BY CommandsAreArguments
<1>2. Words(v) \in Seq(Arguments) /\ Written(p) \in Seq(Arguments) /\ <<first>> \in Seq(Arguments)
  BY WordsAreWords, WrittenIs
<1>3. (<<first>> \o Words(v)) \o Written(p) = <<first>> \o (Words(v) \o Written(p))
  BY <1>2, ConcatAssociative
<1>4. Lead(c, Append(v, p)) = Lead(c, v) \o Written(p)
  BY <1>1, <1>3, WordsGrow DEF Lead
<1>5. Lead(c, v) \in Seq(Arguments)
  BY LeadIs
<1>6. Len(Lead(c, v) \o Written(p)) = Len(Lead(c, v)) + Len(Written(p))
  BY <1>2, <1>5, BeginsMore
<1> QED
  BY <1>4, <1>6

LEMMA ReadGrows ==
  \A w \in Usages :
    /\ Read(w, 0) = << >> /\ Read(w, Len(w)) = w
    /\ \A k \in 0 .. Len(w) : Read(w, k) \in Usages
    /\ \A k \in 0 .. Len(w) - 1 : w[k + 1] \in Parts /\ Append(Read(w, k), w[k + 1]) = Read(w, k + 1)
<1> SUFFICES ASSUME NEW w \in Usages
             PROVE  /\ Read(w, 0) = << >> /\ Read(w, Len(w)) = w
                    /\ \A k \in 0 .. Len(w) : Read(w, k) \in Usages
                    /\ \A k \in 0 .. Len(w) - 1 : w[k + 1] \in Parts /\ Append(Read(w, k), w[k + 1]) = Read(w, k + 1)
  OBVIOUS
<1>0. << >> \in Usages /\ \A p \in Parts : <<p>> \in Usages
  BY UsagesAre, PartsSplit
<1>1. CASE w = << >>
  BY <1>0, <1>1 DEF Read
<1>2. ASSUME NEW p \in Parts, w = <<p>>
      PROVE  /\ Read(w, 0) = << >> /\ Read(w, Len(w)) = w
             /\ \A k \in 0 .. Len(w) : Read(w, k) \in Usages
             /\ \A k \in 0 .. Len(w) - 1 : w[k + 1] \in Parts /\ Append(Read(w, k), w[k + 1]) = Read(w, k + 1)
  <2>1. Len(w) = 1 /\ w[1] = p /\ Append(<< >>, p) = <<p>>
    BY <1>2
  <2>2. Read(w, 0) = << >> /\ Read(w, 1) = <<p>>
    BY <2>1 DEF Read
  <2>3. \A k \in 0 .. Len(w) : k = 0 \/ k = 1
    BY <2>1
  <2>4. \A k \in 0 .. Len(w) - 1 : k = 0
    BY <2>1
  <2>5. ASSUME NEW k \in 0 .. Len(w) PROVE Read(w, k) \in Usages
    BY <1>0, <2>2, <2>3
  <2>6. ASSUME NEW k \in 0 .. Len(w) - 1 PROVE w[k + 1] \in Parts /\ Append(Read(w, k), w[k + 1]) = Read(w, k + 1)
    <3>1. k = 0 /\ k + 1 = 1
      BY <2>4
    <3> QED
      BY <2>1, <2>2, <3>1
  <2> QED
    BY <1>2, <2>1, <2>2, <2>5, <2>6
<1>3. ASSUME NEW p \in Parts, NEW q \in Parts, w = <<p, q>>
      PROVE  /\ Read(w, 0) = << >> /\ Read(w, Len(w)) = w
             /\ \A k \in 0 .. Len(w) : Read(w, k) \in Usages
             /\ \A k \in 0 .. Len(w) - 1 : w[k + 1] \in Parts /\ Append(Read(w, k), w[k + 1]) = Read(w, k + 1)
  <2>1. Len(w) = 2 /\ w[1] = p /\ w[2] = q /\ Append(<< >>, p) = <<p>>
    BY <1>3
  <2>2. Append(<<p>>, q) = <<p, q>>
    BY AppendToOne
  <2>3. Read(w, 0) = << >> /\ Read(w, 1) = <<p>> /\ Read(w, 2) = <<p, q>>
    BY <2>1 DEF Read
  <2>4. \A k \in 0 .. Len(w) : k = 0 \/ k = 1 \/ k = 2
    BY <2>1
  <2>5. \A k \in 0 .. Len(w) - 1 : k = 0 \/ k = 1
    BY <2>1
  <2>6. ASSUME NEW k \in 0 .. Len(w) PROVE Read(w, k) \in Usages
    BY <1>0, <1>3, <2>3, <2>4
  <2>7. ASSUME NEW k \in 0 .. Len(w) - 1 PROVE w[k + 1] \in Parts /\ Append(Read(w, k), w[k + 1]) = Read(w, k + 1)
    <3>1. CASE k = 0
      <4>1. k + 1 = 1
        BY <3>1
      <4> QED
        BY <2>1, <2>3, <3>1, <4>1
    <3>2. CASE k = 1
      <4>1. k + 1 = 2
        BY <3>2
      <4> QED
        BY <2>1, <2>2, <2>3, <3>2, <4>1
    <3> QED
      BY <2>5, <3>1, <3>2
  <2> QED
    BY <1>3, <2>1, <2>3, <2>6, <2>7
<1> QED
  BY <1>1, <1>2, <1>3, UsagesAre, PartsSplit

(* A line that begins with the words of a usage begins with those of its first parts. *)
LEMMA ReadBegins ==
  ASSUME NEW c \in {"find", "extract"}, NEW l \in Seq(Arguments), NEW w \in Usages, Begins(l, Lead(c, w)),
         NEW k \in 0 .. Len(w)
  PROVE  Begins(l, Lead(c, Read(w, k)))
<1>1. Len(w) \in 0 .. 2 /\ Read(w, Len(w)) = w
  BY UsagesAreShort, ReadGrows
<1>2. ASSUME NEW j \in 0 .. Len(w) - 1, Begins(l, Lead(c, Read(w, j + 1))) PROVE Begins(l, Lead(c, Read(w, j)))
  <2>1. /\ w[j + 1] \in Parts /\ Append(Read(w, j), w[j + 1]) = Read(w, j + 1)
        /\ Read(w, j) \in Usages /\ Read(w, j + 1) \in Usages
    BY <1>1, ReadGrows
  <2> DEFINE v == Read(w, j)
             p == w[j + 1]
             u == Read(w, j + 1)
  <2>2. v \in Usages /\ p \in Parts /\ u \in Usages /\ Append(v, p) = u /\ Begins(l, Lead(c, u))
    BY <1>2, <2>1
  <2> HIDE DEF v, p, u
  <2>3. Lead(c, u) = Lead(c, v) \o Written(p)
    BY <2>2, LeadGrows
  <2>4. Lead(c, v) \in Seq(Arguments) /\ Written(p) \in Seq(Arguments)
    BY <2>2, LeadIs, WrittenIs
  <2>5. Begins(l, Lead(c, v))
    BY <2>2, <2>3, <2>4, BeginsMore
  <2> QED
    BY <2>5 DEF v
<1>3. CASE k = Len(w)
  BY <1>1, <1>3
<1>4. CASE k = Len(w) - 1
  <2>1. k + 1 = Len(w) /\ k \in 0 .. Len(w) - 1
    BY <1>1, <1>4
  <2>2. Begins(l, Lead(c, Read(w, k + 1)))
    BY <1>1, <2>1
  <2> QED
    BY <1>2, <2>1, <2>2
<1>5. CASE k = Len(w) - 2
  <2>1. k = 0 /\ Len(w) = 2 /\ 1 + 1 = 2 /\ 0 + 1 = 1
    BY <1>1, <1>5
  <2>2. Begins(l, Lead(c, Read(w, 1 + 1)))
    BY <1>1, <2>1
  <2>3. 1 \in 0 .. Len(w) - 1 /\ 0 \in 0 .. Len(w) - 1
    BY <2>1
  <2>4. Begins(l, Lead(c, Read(w, 0 + 1)))
    BY <1>2, <2>1, <2>2, <2>3
  <2> QED
    BY <1>2, <2>1, <2>3, <2>4
<1>6. k = Len(w) \/ k = Len(w) - 1 \/ k = Len(w) - 2
  <2> DEFINE m == Len(w)
  <2>1. m \in 0 .. 2 /\ k \in 0 .. m
    BY <1>1
  <2> HIDE DEF m
  <2>2. k = m \/ k = m - 1 \/ k = m - 2
    BY <2>1
  <2> QED
    BY <2>2 DEF m
<1> QED
  BY <1>3, <1>4, <1>5, <1>6

(* The words after those of the parts that have been read. *)
PartFollows(c, l, w, k) ==
  LET n == Len(Lead(c, Read(w, k)))
      p == w[k + 1]
  IN  /\ n \in Nat \ {0} /\ p \in Parts
      /\ Read(w, k) \in Usages /\ Read(w, k + 1) \in Usages
      /\ Append(Read(w, k), p) = Read(w, k + 1)
      /\ p = Part("unlimited", None) =>
           n + 1 <= Len(l) /\ l[n + 1] = Unlimited /\ Len(Lead(c, Read(w, k + 1))) = n + 1
      /\ p \in Limit => /\ n + 2 <= Len(l) /\ Len(Lead(c, Read(w, k + 1))) = n + 2
                        /\ l[n + 1] = IF p.name = "rows" THEN MaxRows ELSE MaxBytes
                        /\ l[n + 2] = <<Numeral[p.value]>>

LEMMA NextWords ==
  ASSUME NEW c \in {"find", "extract"}, NEW l \in Seq(Arguments), NEW w \in Usages, Begins(l, Lead(c, w)),
         NEW k \in 0 .. Len(w) - 1
  PROVE  PartFollows(c, l, w, k)
<1> DEFINE v == Read(w, k)
           n == Len(Lead(c, v))
           p == w[k + 1]
<1>0. Len(w) \in 0 .. 2
  BY UsagesAreShort
<1>1. /\ p \in Parts /\ Append(v, p) = Read(w, k + 1)
      /\ v \in Usages /\ Read(w, k + 1) \in Usages
  <2>1. k \in 0 .. Len(w) /\ k + 1 \in 0 .. Len(w)
    BY <1>0
  <2> QED
    BY <2>1, ReadGrows
<1>2. Begins(l, Lead(c, Read(w, k + 1)))
  <2>1. k + 1 \in 0 .. Len(w)
    BY <1>0
  <2> QED
    BY <2>1, ReadBegins
<1>3. Lead(c, Read(w, k + 1)) = Lead(c, v) \o Written(p) /\ Len(Lead(c, Read(w, k + 1))) = n + Len(Written(p))
  <2> HIDE DEF v, p
  <2> QED
    BY <1>1, LeadGrows DEF n
<1>4. Lead(c, v) \in Seq(Arguments) /\ Written(p) \in Seq(Arguments) /\ n \in Nat \ {0}
  <2>1. Lead(c, v) \in Seq(Arguments) /\ n = 1 + Len(Words(v)) /\ Words(v) \in Seq(Arguments)
    BY <1>1, LeadIs, WordsAreWords
  <2>2. Written(p) \in Seq(Arguments)
    BY <1>1, WrittenIs
  <2> HIDE DEF n, v, p
  <2>3. Len(Words(v)) \in Nat
    BY <2>1
  <2> QED
    BY <2>1, <2>2, <2>3
<1>5. n + Len(Written(p)) <= Len(l) /\ \A i \in DOMAIN Written(p) : l[n + i] = Written(p)[i]
  <2> DEFINE lead == Lead(c, v)
             words == Written(p)
  <2>1. lead \in Seq(Arguments) /\ words \in Seq(Arguments) /\ Begins(l, lead \o words) /\ n = Len(lead)
    BY <1>2, <1>3, <1>4
  <2> HIDE DEF v, p, n, lead, words
  <2>2. n + Len(words) <= Len(l) /\ \A i \in DOMAIN words : l[n + i] = words[i]
    BY <2>1, BeginsMore
  <2> QED
    BY <2>2 DEF words
<1>6. ASSUME p = Part("unlimited", None)
      PROVE  n + 1 <= Len(l) /\ l[n + 1] = Unlimited /\ Len(Lead(c, Read(w, k + 1))) = n + 1
  <2> HIDE DEF v, n, p
  <2>1. Written(p) = <<Unlimited>>
    BY <1>6, WrittenIs
  <2>2. Len(Written(p)) = 1 /\ 1 \in DOMAIN Written(p) /\ Written(p)[1] = Unlimited
    BY <2>1
  <2> QED
    BY <1>3, <1>5, <2>2
<1>7. ASSUME p \in Limit
      PROVE  /\ n + 2 <= Len(l) /\ Len(Lead(c, Read(w, k + 1))) = n + 2
             /\ l[n + 1] = IF p.name = "rows" THEN MaxRows ELSE MaxBytes
             /\ l[n + 2] = <<Numeral[p.value]>>
  <2> HIDE DEF v, n, p
  <2>1. Written(p) = <<IF p.name = "rows" THEN MaxRows ELSE MaxBytes, <<Numeral[p.value]>>>>
    BY <1>7, WrittenIs
  <2>2. /\ Len(Written(p)) = 2 /\ 1 \in DOMAIN Written(p) /\ 2 \in DOMAIN Written(p)
        /\ Written(p)[1] = IF p.name = "rows" THEN MaxRows ELSE MaxBytes
        /\ Written(p)[2] = <<Numeral[p.value]>>
    BY <2>1
  <2> QED
    BY <1>3, <1>5, <2>2
<1> QED
  BY <1>1, <1>4, <1>6, <1>7 DEF PartFollows

-----------------------------------------------------------------------------
(* The operands. *)
LEMMA EndsAre == \A d \in Ends : d \in Seq(Arguments) /\ ((d = << >> /\ Len(d) = 0) \/ (d = <<Dashes>> /\ Len(d) = 1))
<1> DEFINE Symbols == STRING \cup Spelt
<1>1. "--" \in Symbols
  BY DEF Spelt
<1>2. Arguments = Seq(Symbols)
  BY DEF Arguments
<1> HIDE DEF Symbols
<1>3. Dashes \in Arguments
  BY <1>1, <1>2 DEF Dashes
<1>4. PICK dashes \in Arguments : dashes = Dashes
  BY <1>3
<1> HIDE DEF Arguments
<1>5. <<dashes>> \in Seq(Arguments) /\ Len(<<dashes>>) = 1 /\ << >> \in Seq(Arguments) /\ Len(<< >>) = 0
  OBVIOUS
<1> SUFFICES ASSUME NEW d \in Ends
             PROVE  d \in Seq(Arguments) /\ ((d = << >> /\ Len(d) = 0) \/ (d = <<Dashes>> /\ Len(d) = 1))
  OBVIOUS
<1>6. CASE d = << >>
  BY <1>6
<1>7. CASE d = <<Dashes>>
  <2>1. <<Dashes>> \in Seq(Arguments) /\ Len(<<Dashes>>) = 1
    BY <1>4, <1>5
  <2> QED
    BY <1>7, <2>1
<1> QED
  BY <1>6, <1>7 DEF Ends

Count(c) == IF c = "find" THEN 4 ELSE 2

LEMMA OperandsAre ==
  ASSUME line \in Seq(Arguments), NEW c \in {"find", "extract"}, NEW w \in Usages, NEW d \in Ends
  PROVE  LET n == Len(Lead(c, w)) + Len(d)
         IN  /\ n \in Nat \ {0} /\ Len(Lead(c, w) \o d) = n
             /\ OperandsFollow(Lead(c, w) \o d, d) <=>
                  /\ Begins(line, Lead(c, w) \o d)
                  /\ Len(line) = n + Count(c)
                  /\ d = << >> => ~IsOption(line[n + 1])
                  /\ \A i \in 2 .. Count(c) : IsUtf8(line[n + i])
                  /\ IsGoodSelector(line[n + 2])
                  /\ c = "find" => line[n + 3] # << >>
<1> DEFINE lead == Lead(c, w) \o d
           n == Len(Lead(c, w)) + Len(d)
<1>1. /\ Lead(c, w) \in Seq(Arguments) /\ Lead(c, w)[1] = <<c>>
      /\ Len(Lead(c, w)) \in Nat \ {0}
  <2>1. Words(w) \in Seq(Arguments) /\ Len(Lead(c, w)) = 1 + Len(Words(w))
    BY LeadIs, WordsAreWords
  <2>2. Len(Words(w)) \in Nat
    BY <2>1
  <2> QED
    BY <2>1, <2>2, LeadIs
<1>2. d \in Seq(Arguments) /\ Len(d) \in Nat
  BY EndsAre
<1>3. lead \in Seq(Arguments) /\ Len(lead) = n /\ n \in Nat \ {0}
  BY <1>1, <1>2
<1>4. lead[1] = <<c>>
  BY <1>1, <1>2
<1>5. lead[1] = <<"find">> <=> c = "find"
  BY <1>4
<1> HIDE DEF n, lead
<1>6. Begins(line, lead) <=> n <= Len(line) /\ \A i \in DOMAIN lead : line[i] = lead[i]
  BY <1>3 DEF Begins
<1>7. Count(c) = (IF lead[1] = <<"find">> THEN 4 ELSE 2) /\ Count(c) \in Nat
  BY <1>5 DEF Count
<1>8. OperandsFollow(lead, d) <=>
        /\ Begins(line, lead)
        /\ Len(line) = n + Count(c)
        /\ d = << >> => ~IsOption(line[n + 1])
        /\ \A i \in 2 .. Count(c) : IsUtf8(line[n + i])
        /\ IsGoodSelector(line[n + 2])
        /\ c = "find" => line[n + 3] # << >>
  BY <1>3, <1>5, <1>6, <1>7 DEF OperandsFollow
<1> QED
  BY <1>3, <1>8 DEF lead, n

LEMMA GoodOperands ==
  ASSUME line \in Seq(Arguments), at \in 1 .. Len(line), command \in {"find", "extract"}
  PROVE  /\ Len(Rest) = Len(line) - at
         /\ OperandsAreGood <=>
              /\ Len(line) + 1 = at + Count(command)
              /\ \A i \in 1 .. Count(command) - 1 : IsUtf8(line[at + i])
              /\ IsGoodSelector(line[at + 1])
              /\ command = "find" => line[at + 2] # << >>
              /\ ~Conflict
<1>1. /\ Rest \in Seq(Arguments) /\ Len(Rest) = Len(line) - at
      /\ \A i \in 1 .. Len(line) - at : Rest[i] = line[at + i]
      /\ DOMAIN Rest = 1 .. Len(line) - at
  BY DEF Rest
<1>2. Operands = Count(command) - 1 /\ Operands \in {1, 3}
  BY DEF Operands, Count
<1>3. Len(Rest) = Operands <=> Len(line) + 1 = at + Count(command)
  BY <1>1, <1>2 DEF Count
<1>4. ASSUME Len(Rest) = Operands
      PROVE  /\ (\A i \in DOMAIN Rest : IsUtf8(Rest[i])) <=> \A i \in 1 .. Count(command) - 1 : IsUtf8(line[at + i])
             /\ IsSelector(Rest[1]) <=> IsGoodSelector(line[at + 1])
             /\ command = "find" => (Rest[2] # << >> <=> line[at + 2] # << >>)
  <2>0. Len(line) - at = Operands /\ DOMAIN Rest = 1 .. Operands
    BY <1>1, <1>4
  <2>1. Rest[1] = line[at + 1] /\ Rest[1] \in Arguments
    <3>1. 1 \in 1 .. Operands
      BY <1>2
    <3> QED
      BY <1>1, <2>0, <3>1
  <2>2. command = "find" => Rest[2] = line[at + 2]
    <3>1. command = "find" => 2 \in 1 .. Operands
      BY DEF Operands
    <3> QED
      BY <1>1, <2>0, <3>1
  <2> QED
    BY <1>1, <1>2, <1>4, <2>1, <2>2, SelectorsAgree
<1> QED
  BY <1>1, <1>3, <1>4 DEF OperandsAreGood, Conflict

-----------------------------------------------------------------------------
(* What a line means does not depend on how far it is read. *)
LEMMA MeaningStays ==
  ASSUME line' = line, NEW c, NEW l
  PROVE  Means(c, l)' <=> Means(c, l)
BY DEF Means, OperandsFollow

LEMMA FitStays ==
  ASSUME line' = line, command' = command, NEW w, NEW d
  PROVE  Fits(command, w, d)' <=> Fits(command, w, d)
BY DEF Fits, OperandsFollow

(* A line that begins with a usage's words, for the command it names. *)
LEMMA FitsBegin ==
  ASSUME line \in Seq(Arguments), NEW c \in {"find", "extract"}, NEW w \in Usages, NEW d \in Ends,
         OperandsFollow(Lead(c, w) \o d, d)
  PROVE  /\ Begins(line, Lead(c, w)) /\ line[1] = <<c>>
         /\ Len(Lead(c, w)) \in Nat \ {0} /\ Len(line) = Len(Lead(c, w)) + Len(d) + Count(c)
         /\ d = <<Dashes>> => line[Len(Lead(c, w)) + 1] = Dashes
         /\ d = << >> => ~IsOption(line[Len(Lead(c, w)) + 1])
<1> DEFINE lead == Lead(c, w)
<1>1. lead \in Seq(Arguments) /\ d \in Seq(Arguments) /\ lead[1] = <<c>>
  BY LeadIs, EndsAre
<1>2. Len(lead) \in Nat \ {0}
  <2>1. Words(w) \in Seq(Arguments) /\ Len(lead) = 1 + Len(Words(w))
    BY LeadIs, WordsAreWords
  <2> HIDE DEF lead
  <2>2. Len(Words(w)) \in Nat
    BY <2>1
  <2> QED
    BY <2>1, <2>2
<1>3. /\ Begins(line, lead \o d) /\ Len(line) = Len(lead) + Len(d) + Count(c)
      /\ d = << >> => ~IsOption(line[Len(lead) + Len(d) + 1])
  BY OperandsAre
<1> HIDE DEF lead
<1>4. Begins(line, lead) /\ \A i \in DOMAIN d : line[Len(lead) + i] = d[i]
  BY <1>1, <1>3, BeginsMore
<1>5. line[1] = lead[1]
  BY <1>1, <1>2, <1>4 DEF Begins
<1>6. d = <<Dashes>> => line[Len(lead) + 1] = Dashes
  BY <1>4
<1>7. d = << >> => ~IsOption(line[Len(lead) + 1])
  BY <1>2, <1>3
<1> QED
  BY <1>1, <1>2, <1>3, <1>4, <1>5, <1>6, <1>7 DEF lead

LEMMA OneIsAll ==
  ASSUME NEW S, NEW s \in Seq(S), Len(s) = 1
  PROVE  s = <<s[1]>>
OBVIOUS

LEMMA TwoAreAll ==
  ASSUME NEW S, NEW s \in Seq(S), Len(s) = 2
  PROVE  s = <<s[1], s[2]>>
OBVIOUS

(* No meaning is left for a line that names a command and fits none of its usages. *)
LEMMA UnfitIsRefused ==
  ASSUME line \in Seq(Arguments), command \in {"find", "extract"}, line[1] = <<command>>,
         ~IsHelpLine, \A w \in Usages, d \in Ends : ~Fits(command, w, d)
  PROVE  NoMeaning
<1> SUFFICES ASSUME NEW c, NEW l, Means(c, l) PROVE FALSE
  BY DEF NoMeaning
<1>1. CASE c \in {"inspect", "list"} /\ line[1] = <<c>>
  BY <1>1
<1>2. CASE line \in {<<<<"-h">>>>, <<<<"--", "help">>>>, <<<<"-V">>>>, <<<<"--", "version">>>>}
  <2>1. line[1] \in {<<"-h">>, <<"--", "help">>, <<"-V">>, <<"--", "version">>}
    BY <1>2
  <2>2. <<command>> = <<"find">> \/ <<command>> = <<"extract">>
    OBVIOUS
  <2> QED
    BY <2>1, <2>2
<1>3. CASE line \in {<<<<"find">>, <<"-h">>>>, <<<<"find">>, <<"--", "help">>>>}
  BY <1>3 DEF IsHelpLine
<1>4. CASE \E w \in Usages, d \in {<< >>, <<Dashes>>} : OperandsFollow(<<<<"find">>>> \o Words(w) \o d, d)
  <2>1. PICK w \in Usages, d \in Ends : OperandsFollow(Lead("find", w) \o d, d)
    BY <1>4 DEF Lead, Ends
  <2>2. line[1] = <<"find">>
    BY <2>1, FitsBegin
  <2>3. command = "find"
    BY <2>2
  <2> QED
    BY <2>1, <2>3 DEF Fits
<1>5. CASE \E w \in Usages, d \in {<< >>, <<Dashes>>} :
             /\ \A k \in DOMAIN w : w[k].name = "bytes"
             /\ OperandsFollow(<<<<"extract">>>> \o Words(w) \o d, d)
  <2>1. PICK w \in Usages, d \in Ends : /\ \A k \in DOMAIN w : w[k].name = "bytes"
                                        /\ OperandsFollow(Lead("extract", w) \o d, d)
    BY <1>5 DEF Lead, Ends
  <2>2. line[1] = <<"extract">>
    BY <2>1, FitsBegin
  <2>3. command = "extract"
    BY <2>2
  <2> QED
    BY <2>1, <2>3 DEF Fits
<1> QED
  BY <1>1, <1>2, <1>3, <1>4, <1>5 DEF Means

UsageInv == AskedInv /\ AcceptInv /\ ForcedInv /\ RefuseInv

LEMMA OptionsAre ==
  ASSUME command \in {"find", "extract"}
  PROVE  /\ DOMAIN Options = IF command = "find" THEN {"rows", "bytes"} ELSE {"bytes"}
         /\ \A o \in DOMAIN Options : Options[o] = IF o = "rows" THEN MaxRows ELSE MaxBytes
BY DEF Options, MaxRows, MaxBytes

(* The next argument of a line that fits a usage: the next part of the usage, the
   dashes that end its options, or the file.                                      *)
NextIsPart(w, k) ==
  LET p == w[k + 1]
  IN  /\ k \in 0 .. Len(w) - 1
      /\ at = Len(Lead(command, Read(w, k))) /\ AsksFor(Read(w, k), asked)
      /\ \/ /\ p = Part("unlimited", None) /\ at + 1 <= Len(line) /\ Argument = Unlimited
            /\ ~asked.unlimited /\ command = "find"
            /\ at + 1 = Len(Lead(command, Read(w, k + 1)))
         \/ /\ p \in Limit /\ at + 2 <= Len(line)
            /\ p.name \in DOMAIN Options /\ Argument = Options[p.name]
            /\ line[at + 2] = <<Numeral[p.value]>> /\ asked[p.name] = None
            /\ at + 2 = Len(Lead(command, Read(w, k + 1)))

NextIsEnd(w, d) ==
  /\ at = Len(Lead(command, w)) /\ AsksFor(w, asked)
  /\ \/ d = <<Dashes>> /\ at + 2 <= Len(line) /\ Argument = Dashes
     \/ d = << >> /\ at + 1 <= Len(line) /\ ~IsOption(Argument)

LEMMA OptionsForced ==
  ASSUME UsageInv, pc = "options", NEW w \in Usages, NEW d \in Ends, Fits(command, w, d)
  PROVE  /\ command = "find" => Len(line) > 2
         /\ NextIsEnd(w, d) \/ \E k \in 0 .. Len(w) - 1 : NextIsPart(w, k)
<1>1. /\ line \in Seq(Arguments) /\ command \in {"find", "extract"} /\ line[1] = <<command>>
      /\ at \in 0 .. Len(line)
  BY DEF UsageInv, AskedInv
<1>2. PICK k \in 0 .. Len(w) : at = Len(Lead(command, Read(w, k))) /\ AsksFor(Read(w, k), asked)
  BY DEF UsageInv, ForcedInv
<1>3. /\ Begins(line, Lead(command, w)) /\ Len(Lead(command, w)) \in Nat \ {0}
      /\ Len(line) = Len(Lead(command, w)) + Len(d) + Count(command)
      /\ d = <<Dashes>> => line[Len(Lead(command, w)) + 1] = Dashes
      /\ d = << >> => ~IsOption(line[Len(Lead(command, w)) + 1])
  BY <1>1, FitsBegin DEF Fits
<1>4. /\ Len(d) \in Nat /\ Count(command) \in {2, 4}
      /\ (d = << >> /\ Len(d) = 0) \/ (d = <<Dashes>> /\ Len(d) = 1)
  BY EndsAre DEF Count
<1>5. Begins(line, Lead(command, Read(w, k)))
  BY <1>1, <1>3, ReadBegins
<1>8. command = "find" => Len(line) > 2
  <2>1. command = "find" => Count(command) = 4
    BY DEF Count
  <2> QED
    BY <1>3, <1>4, <2>1
<1>6. CASE k = Len(w)
  <2>1. at = Len(Lead(command, w)) /\ AsksFor(w, asked)
    BY <1>2, <1>6, ReadGrows
  <2> QED
    BY <1>1, <1>3, <1>4, <1>8, <2>1 DEF NextIsEnd, Argument
<1>7. CASE k \in 0 .. Len(w) - 1
  <2>00. PartFollows(command, line, w, k)
    <3>1. /\ command \in {"find", "extract"} /\ line \in Seq(Arguments)
          /\ Begins(line, Lead(command, w))
      BY <1>1, <1>3
    <3> QED
      BY <1>7, <3>1, NextWords
  <2> DEFINE v == Read(w, k)
             p == w[k + 1]
             n == Len(Lead(command, Read(w, k + 1)))
             m == Len(Lead(command, v))
  <2>0. /\ m \in Nat \ {0} /\ p \in Parts /\ v \in Usages /\ Read(w, k + 1) \in Usages
        /\ Append(v, p) = Read(w, k + 1)
        /\ p = Part("unlimited", None) => m + 1 <= Len(line) /\ line[m + 1] = Unlimited /\ n = m + 1
        /\ p \in Limit => /\ m + 2 <= Len(line) /\ n = m + 2
                          /\ line[m + 1] = IF p.name = "rows" THEN MaxRows ELSE MaxBytes
                          /\ line[m + 2] = <<Numeral[p.value]>>
    BY <2>00 DEF PartFollows
  <2>01. at = m
    BY <1>2
  <2>1. /\ at \in Nat \ {0} /\ p \in Parts /\ v \in Usages /\ Read(w, k + 1) \in Usages
        /\ Append(v, p) = Read(w, k + 1)
        /\ p = Part("unlimited", None) => at + 1 <= Len(line) /\ line[at + 1] = Unlimited /\ n = at + 1
        /\ p \in Limit => /\ at + 2 <= Len(line) /\ n = at + 2
                          /\ line[at + 1] = IF p.name = "rows" THEN MaxRows ELSE MaxBytes
                          /\ line[at + 2] = <<Numeral[p.value]>>
    BY <2>0, <2>01
  <2>2. AsksFor(v, asked)
    BY <1>2
  <2>3. p \in Limit \/ p = Part("unlimited", None)
    BY <2>1, PartsSplit
  <2>4. command = "extract" => p.name = "bytes"
    <3>1. k + 1 \in DOMAIN w
      <4>1. w \in Seq(Parts)
        BY UsagesAreShort
      <4> QED
        BY <1>7, <4>1
    <3> QED
      BY <3>1 DEF Fits
  <2> HIDE DEF v, p, n, m
  <2>5. Append(v, p) \in Usages
    BY <2>1
  <2>6. /\ ~AsksAll(v)
        /\ p.name # "unlimited" => p \in Limit /\ Given(v, p.name, None) = None
    BY <2>1, <2>5, AskingGrows
  <2>7. ~asked.unlimited /\ (p \in Limit => asked[p.name] = None)
    <3>1. p \in Limit => p.name \in {"rows", "bytes"} /\ p.name # "unlimited"
      BY PartsAre
    <3> QED
      BY <2>2, <2>6, <3>1 DEF AsksFor
  <2>8. p \in Limit => p.name \in DOMAIN Options /\ Options[p.name] = IF p.name = "rows" THEN MaxRows ELSE MaxBytes
    <3>1. p \in Limit => p.name \in {"rows", "bytes"}
      BY PartsAre
    <3> QED
      BY <1>1, <2>4, <3>1, OptionsAre
  <2>9. p = Part("unlimited", None) => command = "find"
    BY <1>1, <2>4, PartsAre
  <2>10. NextIsPart(w, k)
    BY <1>2, <1>7, <2>1, <2>3, <2>7, <2>8, <2>9 DEF NextIsPart, Argument, v, p, n
  <2> QED
    BY <1>7, <1>8, <2>10
<1> QED
  BY <1>6, <1>7

LEMMA HelpForced ==
  ASSUME UsageInv, pc = "options", IsHelpLine
  PROVE  Help /\ HasNext /\ Argument \in {<<"-h">>, <<"--", "help">>}
<1>1. /\ line \in Seq(Arguments) /\ command \in {"find", "extract"} /\ line[1] = <<command>> /\ at = 1
  BY DEF UsageInv, AskedInv, ForcedInv
<1>2. line[1] = <<"find">> /\ Len(line) = 2 /\ line[2] \in {<<"-h">>, <<"--", "help">>}
  BY DEF IsHelpLine
<1>3. command = "find"
  BY <1>1, <1>2
<1>4. Argument \in {<<"-h">>, <<"--", "help">>} /\ HasNext
  BY <1>1, <1>2 DEF Argument, HasNext
<1>5. Rest = <<Argument>>
  <2>1. Rest \in Seq(Arguments) /\ Len(Rest) = 1 /\ Rest[1] = line[2]
    BY <1>1, <1>2 DEF Rest
  <2> QED
    BY <1>1, <2>1, OneIsAll DEF Argument
<1> QED
  BY <1>1, <1>3, <1>4, <1>5 DEF Help

-----------------------------------------------------------------------------
(* What each step makes of the line. *)
LEMMA UsageInit == Init => UsageInv
<1> SUFFICES ASSUME Init PROVE UsageInv
  OBVIOUS
<1>1. line \in Seq(Arguments)
  <2> DEFINE Symbols == STRING \cup Spelt
  <2>1. line \in Seq(Seq(STRING))
    BY CommandLineAssumption DEF Init
  <2>2. \A a \in Seq(STRING) : a \in Seq(Symbols)
    <3> SUFFICES ASSUME NEW a \in Seq(STRING) PROVE a \in Seq(Symbols)
      OBVIOUS
    <3>1. a \in [1 .. Len(a) -> STRING] /\ Len(a) \in Nat
      OBVIOUS
    <3>2. STRING \subseteq Symbols
      OBVIOUS
    <3> HIDE DEF Symbols
    <3>3. a \in [1 .. Len(a) -> Symbols]
      BY <3>1, <3>2
    <3> QED
      BY <3>1, <3>3
  <2>3. Arguments = Seq(Symbols)
    BY DEF Arguments
  <2> HIDE DEF Symbols
  <2>4. Seq(STRING) \subseteq Arguments
    BY <2>2, <2>3
  <2>5. line \in [1 .. Len(line) -> Seq(STRING)] /\ Len(line) \in Nat
    BY <2>1
  <2>6. line \in [1 .. Len(line) -> Arguments]
    BY <2>4, <2>5
  <2> QED
    BY <2>5, <2>6
<1>2. pc = "command" /\ at = 0 /\ asked = NoOptions /\ limits = NoLimits /\ result = "success"
  BY DEF Init
<1>3. Len(line) \in Nat
  BY <1>1
<1> HIDE DEF Arguments
<1> QED
  BY <1>1, <1>2, <1>3 DEF UsageInv, AskedInv, IsOptions, AcceptInv, ForcedInv, RefuseInv, NoOptions

LEMMA RefusedLine ==
  ASSUME UsageInv, Refuse, NoMeaning
  PROVE  UsageInv'
<1>1. pc' = "drop" /\ result' = "usage" /\ UNCHANGED <<line, at, command, asked, limits>>
  BY DEF Refuse, Return, lineVars
<1>2. NoMeaning'
  BY <1>1, MeaningStays DEF NoMeaning
<1>3. AskedInv'
  BY <1>1 DEF UsageInv, AskedInv, Reading
<1> QED
  BY <1>1, <1>2, <1>3 DEF UsageInv, AcceptInv, ForcedInv, RefuseInv

(* A step that has no more to do with the line. *)
LEMMA LineIsRead ==
  ASSUME UsageInv, UNCHANGED <<line, at, command, asked, limits>>,
         pc' \notin Reading,
         pc' \in {"open", "search", "write"} => pc \in {"open", "search", "write"},
         result' = "usage" => result = "usage" /\ pc' \in {"drop", "done"}
  PROVE  UsageInv'
<1>1. AskedInv'
  BY DEF UsageInv, AskedInv, Reading
<1>2. AcceptInv'
  BY MeaningStays DEF UsageInv, AcceptInv, Reading
<1>3. ForcedInv'
  BY DEF ForcedInv, Reading
<1>4. RefuseInv'
  <2>1. NoMeaning => NoMeaning'
    BY MeaningStays DEF NoMeaning
  <2> QED
    BY <2>1 DEF UsageInv, RefuseInv
<1> QED
  BY <1>1, <1>2, <1>3, <1>4 DEF UsageInv

LEMMA LaterKeepUsage ==
  ASSUME IInv, UsageInv,
         \/ OpenArchive \/ Search \/ WritePiece \/ WriteFails \/ CopyFails \/ WriteEnds
         \/ Flush \/ FlushFails \/ Exit
  PROVE  UsageInv'
<1>1. CASE OpenArchive
  BY <1>1, LineIsRead DEF OpenArchive, Write, EndCopy, Return, lineVars, Reading, IInv, PlaceInv, Early
<1>2. CASE Search
  BY <1>2, LineIsRead DEF Search, Write, Return, lineVars, Reading, IInv, PlaceInv, Early
<1>3. CASE WritePiece
  BY <1>3, LineIsRead DEF WritePiece, lineVars, Reading, IInv, PlaceInv, Early
<1>4. CASE WriteFails
  BY <1>4, LineIsRead DEF WriteFails, EndCopy, Return, lineVars, Reading, IInv, PlaceInv, Early
<1>5. CASE CopyFails
  BY <1>5, LineIsRead DEF CopyFails, EndCopy, lineVars, Reading, IInv, PlaceInv, Early
<1>6. CASE WriteEnds
  BY <1>6, LineIsRead DEF WriteEnds, lineVars, Reading, IInv, PlaceInv, Early
<1>7. CASE Flush
  BY <1>7, LineIsRead DEF Flush, ReportResult, Return, lineVars, Reading, IInv, PlaceInv, Early
<1>8. CASE FlushFails
  BY <1>8, LineIsRead DEF FlushFails, Return, lineVars, Reading, IInv, PlaceInv, Early
<1>9. CASE Exit
  BY <1>9, LineIsRead DEF Exit, lineVars, Reading, IInv, PlaceInv, Early
<1> QED
  BY <1>1, <1>2, <1>3, <1>4, <1>5, <1>6, <1>7, <1>8, <1>9

LEMMA CommandsAre ==
  ASSUME line \in Seq(Arguments), HasNext, at = 0
  PROVE  /\ Argument = line[1] /\ Len(line) >= 1
         /\ \A c \in {"inspect", "list", "extract", "find"} : Argument = <<c>> => Argument[1] = c
BY DEF Argument, HasNext

LEMMA TakeCommandUsage == UsageInv /\ TakeCommand => UsageInv'
<1> SUFFICES ASSUME UsageInv, TakeCommand PROVE UsageInv'
  OBVIOUS
<1>1. /\ pc = "command" /\ line \in Seq(Arguments) /\ at = 0 /\ asked = NoOptions /\ limits = NoLimits
      /\ result # "usage"
  BY DEF TakeCommand, UsageInv, AskedInv, RefuseInv, Reading
<1>2. CASE /\ GlobalOption # "none" /\ at' = 1 /\ command' = GlobalOption /\ pc' = "write"
           /\ UNCHANGED <<line, asked, limits, result>>
  <2>1. Len(line) = 1 /\ line = <<line[1]>> /\ GlobalOption \in {"help", "version"}
    BY <1>1, <1>2, OneIsAll DEF GlobalOption
  <2>2. \/ GlobalOption = "help" /\ line[1] \in {<<"--", "help">>, <<"-h">>}
        \/ GlobalOption = "version" /\ line[1] \in {<<"--", "version">>, <<"-V">>}
    BY <1>2, <2>1 DEF GlobalOption
  <2>3. Means(GlobalOption, NoLimits)
    BY <2>1, <2>2 DEF Means
  <2>4. Means(command, limits)'
    BY <1>1, <1>2, <2>3, MeaningStays
  <2>5. AskedInv'
    BY <1>1, <1>2, <2>1 DEF UsageInv, AskedInv, Reading
  <2> QED
    BY <1>1, <1>2, <2>4, <2>5 DEF UsageInv, AcceptInv, ForcedInv, RefuseInv
<1>3. CASE /\ GlobalOption = "none" /\ Refuse
           /\ ~(HasNext /\ Argument \in {<<"inspect">>, <<"list">>, <<"extract">>, <<"find">>})
  <2>1. Len(line) >= 1 => line[1] \notin {<<"inspect">>, <<"list">>, <<"extract">>, <<"find">>}
    BY <1>1, <1>3 DEF HasNext, Argument
  <2>2. Len(line) = 1 => line[1] \notin {<<"--", "help">>, <<"-h">>, <<"--", "version">>, <<"-V">>}
    BY <1>3 DEF GlobalOption
  <2>3. ASSUME NEW c, NEW l, Means(c, l) PROVE FALSE
    <3>1. CASE c \in {"inspect", "list"} /\ Len(line) = 2 /\ line[1] = <<c>>
      BY <2>1, <3>1
    <3>2. CASE line \in {<<<<"-h">>>>, <<<<"--", "help">>>>, <<<<"-V">>>>, <<<<"--", "version">>>>}
      <4>1. Len(line) = 1 /\ line[1] \in {<<"--", "help">>, <<"-h">>, <<"--", "version">>, <<"-V">>}
        BY <3>2
      <4> QED
        BY <2>2, <4>1
    <3>3. CASE line \in {<<<<"find">>, <<"-h">>>>, <<<<"find">>, <<"--", "help">>>>}
      <4>1. Len(line) = 2 /\ line[1] = <<"find">>
        BY <3>3
      <4> QED
        BY <2>1, <4>1
    <3>4. ASSUME NEW x \in {"find", "extract"}, NEW w \in Usages, NEW d \in Ends, OperandsFollow(Lead(x, w) \o d, d)
          PROVE  FALSE
      <4>1. /\ line[1] = <<x>> /\ Len(Lead(x, w)) \in Nat \ {0}
            /\ Len(line) = Len(Lead(x, w)) + Len(d) + Count(x)
        BY <1>1, <3>4, FitsBegin
      <4>2. Len(d) \in Nat /\ Count(x) \in Nat
        BY EndsAre DEF Count
      <4> QED
        BY <2>1, <4>1, <4>2
    <3> QED
      BY <2>3, <3>1, <3>2, <3>3, <3>4 DEF Means, Lead, Ends
  <2> QED
    BY <1>3, <2>3, RefusedLine DEF NoMeaning
<1>4. CASE /\ HasNext /\ Argument \in {<<"inspect">>, <<"list">>, <<"extract">>, <<"find">>}
           /\ at' = 1 /\ command' = Argument[1]
           /\ pc' = IF command' \in {"inspect", "list"} THEN "file" ELSE "options"
           /\ UNCHANGED <<line, asked, limits, result>>
  <2>1. /\ command' \in {"inspect", "list", "extract", "find"} /\ line[1] = <<command'>> /\ Len(line) >= 1
    BY <1>1, <1>4, CommandsAre
  <2>2. AskedInv'
    BY <1>1, <1>4, <2>1 DEF UsageInv, AskedInv, IsOptions, Reading, NoOptions
  <2>3. AsksFor(<< >>, asked')
    BY <1>1, <1>4, NoneIsGiven, AllIsAsked DEF AsksFor, NoOptions
  <2>4. command' \in {"find", "extract"} =>
          at' = Len(Lead(command', << >>)) /\ Begins(line', Lead(command', << >>))
    <3>1. SUFFICES ASSUME command' \in {"find", "extract"}
                   PROVE  at' = Len(Lead(command', << >>)) /\ Begins(line', Lead(command', << >>))
      OBVIOUS
    <3>2. Lead(command', << >>) = <<<<command'>>>> /\ Len(Lead(command', << >>)) = 1
      BY <3>1, LeadBegins
    <3>3. Len(<<line[1]>>) = 1 /\ DOMAIN <<line[1]>> = {1} /\ <<line[1]>>[1] = line[1]
      OBVIOUS
    <3> QED
      BY <1>4, <2>1, <3>2, <3>3 DEF Begins
  <2>5. << >> \in Usages
    BY UsagesAre
  <2>6. pc' = "options" => command' \in {"find", "extract"}
    BY <1>4, <2>1
  <2>7. AcceptInv'
    BY <1>4, <2>3, <2>4, <2>5, <2>6 DEF AcceptInv
  <2>8. \A w \in Usages : 0 \in 0 .. Len(w) /\ Read(w, 0) = << >>
    BY UsagesAreShort, ReadGrows
  <2>9. ForcedInv'
    BY <1>4, <2>3, <2>4, <2>6, <2>8 DEF ForcedInv
  <2> QED
    BY <1>1, <1>4, <2>2, <2>7, <2>9 DEF UsageInv, RefuseInv
<1> QED
  BY <1>2, <1>3, <1>4 DEF TakeCommand, Write, outputVars

LEMMA TakeFileUsage == UsageInv /\ TakeFile => UsageInv'
<1> SUFFICES ASSUME UsageInv, TakeFile PROVE UsageInv'
  OBVIOUS
<1>1. /\ pc = "file" /\ line \in Seq(Arguments) /\ at = 1 /\ at \in 0 .. Len(line) /\ limits = NoLimits
      /\ command \in {"inspect", "list"} /\ line[1] = <<command>> /\ result # "usage"
  BY DEF TakeFile, UsageInv, AskedInv, RefuseInv, Reading
<1>2. Len(line) = Len(Rest) + 1 /\ Len(Rest) \in Nat
  BY <1>1 DEF Rest
<1>3. CASE Refuse /\ Len(Rest) # 1
  <2>1. Len(line) # 2
    BY <1>2, <1>3
  <2>2. ASSUME NEW c, NEW l, Means(c, l) PROVE FALSE
    <3>1. CASE Len(line) = 2
      BY <2>1, <3>1
    <3>2. CASE line \in {<<<<"-h">>>>, <<<<"--", "help">>>>, <<<<"-V">>>>, <<<<"--", "version">>>>}
      <4>1. line[1] \in {<<"-h">>, <<"--", "help">>, <<"-V">>, <<"--", "version">>}
        BY <3>2
      <4>2. <<command>> = <<"inspect">> \/ <<command>> = <<"list">>
        BY <1>1
      <4> QED
        BY <1>1, <4>1, <4>2
    <3>3. CASE line \in {<<<<"find">>, <<"-h">>>>, <<<<"find">>, <<"--", "help">>>>}
      BY <2>1, <3>3
    <3>4. ASSUME NEW x \in {"find", "extract"}, NEW w \in Usages, NEW d \in Ends, OperandsFollow(Lead(x, w) \o d, d)
          PROVE  FALSE
      <4>1. line[1] = <<x>>
        BY <1>1, <3>4, FitsBegin
      <4> QED
        BY <1>1, <4>1
    <3> QED
      BY <2>2, <3>1, <3>2, <3>3, <3>4 DEF Means, Lead, Ends
  <2> QED
    BY <1>3, <2>2, RefusedLine DEF NoMeaning
<1>4. CASE Len(Rest) = 1 /\ at' = at + 1 /\ pc' = "open" /\ UNCHANGED <<line, command, asked, limits, result>>
  <2>0. Len(line) = 2
    BY <1>2, <1>4
  <2>1. Means(command, limits)
    BY <1>1, <2>0 DEF Means
  <2>2. Means(command, limits)'
    BY <1>4, <2>1, MeaningStays
  <2>3. AskedInv'
    BY <1>1, <1>4, <2>0 DEF UsageInv, AskedInv, Reading
  <2> QED
    BY <1>1, <1>4, <2>2, <2>3 DEF UsageInv, AcceptInv, ForcedInv, RefuseInv
<1> QED
  BY <1>3, <1>4 DEF TakeFile

LEMMA TakeHelpUsage == UsageInv /\ TakeHelp => UsageInv'
<1> SUFFICES ASSUME UsageInv, TakeHelp PROVE UsageInv'
  OBVIOUS
<1>1. /\ pc = "options" /\ line \in Seq(Arguments) /\ at \in 0 .. Len(line) /\ limits = NoLimits
      /\ line[1] = <<command>> /\ result # "usage"
  BY DEF TakeHelp, UsageInv, AskedInv, RefuseInv, Reading
<1>2. /\ command = "find" /\ at = 1 /\ Rest \in {<<<<"--", "help">>>>, <<<<"-h">>>>}
      /\ at' = at + 1 /\ command' = "help" /\ pc' = "write" /\ UNCHANGED <<line, asked, limits, result>>
  BY DEF TakeHelp, Help, Write
<1>3. Len(line) = 2 /\ Rest[1] = line[2]
  <2>1. Len(Rest) = 1
    BY <1>2
  <2>2. Len(line) = Len(Rest) + 1
    BY <1>1, <1>2 DEF Rest
  <2>3. Len(line) = 2
    BY <2>1, <2>2
  <2> QED
    BY <1>1, <1>2, <2>3 DEF Rest
<1>4. line = <<line[1], line[2]>> /\ line[2] \in {<<"--", "help">>, <<"-h">>}
  BY <1>1, <1>2, <1>3, TwoAreAll
<1>5. Means("help", NoLimits)
  BY <1>1, <1>2, <1>4 DEF Means
<1>6. Means(command, limits)'
  BY <1>1, <1>2, <1>5, MeaningStays
<1>7. AskedInv'
  BY <1>1, <1>2, <1>3 DEF UsageInv, AskedInv, Reading
<1> QED
  BY <1>1, <1>2, <1>6, <1>7 DEF UsageInv, AcceptInv, ForcedInv, RefuseInv

-----------------------------------------------------------------------------
(* One part more of a usage is asked for. *)
Asking(p, before, after) ==
  \/ p = Part("unlimited", None) /\ after = [before EXCEPT !.unlimited = TRUE]
  \/ p \in Limit /\ after = [before EXCEPT ![p.name] = p.value]

LEMMA AskingIs ==
  ASSUME NEW p, NEW before, NEW after, IsOptions(before), Asking(p, before, after)
  PROVE  /\ IsOptions(after)
         /\ p = Part("unlimited", None) => after.unlimited /\ after.rows = before.rows /\ after.bytes = before.bytes
         /\ p \in Limit => /\ after.unlimited = before.unlimited
                           /\ after.rows = IF p.name = "rows" THEN p.value ELSE before.rows
                           /\ after.bytes = IF p.name = "bytes" THEN p.value ELSE before.bytes
<1>1. CASE p = Part("unlimited", None)
  <2>1. p \notin Limit
    BY <1>1, PartsAre
  <2>2. after = [before EXCEPT !.unlimited = TRUE]
    BY <2>1 DEF Asking
  <2> QED
    BY <1>1, <2>1, <2>2 DEF IsOptions
<1>2. CASE p \in Limit
  <2>1. p # Part("unlimited", None) /\ p.name \in {"rows", "bytes"} /\ p.value \in 1 .. 2
    BY <1>2, PartsAre
  <2>2. after = [before EXCEPT ![p.name] = p.value]
    BY <2>1 DEF Asking
  <2>3. CASE p.name = "rows"
    BY <2>1, <2>2, <2>3 DEF IsOptions
  <2>4. CASE p.name = "bytes"
    BY <2>1, <2>2, <2>4 DEF IsOptions
  <2> QED
    BY <2>1, <2>3, <2>4
<1> QED
  BY <1>1, <1>2 DEF Asking

LEMMA AskingFollows ==
  ASSUME NEW v \in Usages, NEW p \in Parts, Append(v, p) \in Usages,
         NEW before, NEW after, IsOptions(before), AsksFor(v, before), Asking(p, before, after)
  PROVE  AsksFor(Append(v, p), after)
<1> DEFINE w == Append(v, p)
<1>1. /\ ~AsksAll(v)
      /\ p.name = "unlimited" => v = << >> /\ AsksAll(w) /\ \A name : Given(w, name, None) = None
      /\ p.name # "unlimited" => /\ p \in Limit /\ ~AsksAll(w) /\ Given(v, p.name, None) = None
                                 /\ \A name : Given(w, name, None) = IF name = p.name THEN p.value ELSE Given(v, name, None)
  BY AskingGrows
<1>2. /\ p = Part("unlimited", None) => after.unlimited /\ after.rows = before.rows /\ after.bytes = before.bytes
      /\ p \in Limit => /\ after.unlimited = before.unlimited
                        /\ after.rows = IF p.name = "rows" THEN p.value ELSE before.rows
                        /\ after.bytes = IF p.name = "bytes" THEN p.value ELSE before.bytes
  BY AskingIs
<1> HIDE DEF w
<1>3. CASE p = Part("unlimited", None)
  <2>1. p.name = "unlimited"
    BY <1>3, PartsAre
  <2>2. Given(v, "rows", None) = None /\ Given(v, "bytes", None) = None
    BY <1>1, <2>1, NoneIsGiven
  <2>3. AsksFor(w, after)
    BY <1>1, <1>2, <1>3, <2>1, <2>2 DEF AsksFor
  <2> QED
    BY <2>3 DEF w
<1>4. CASE p \in Limit
  <2>1. p.name # "unlimited" /\ p.name \in {"rows", "bytes"}
    BY <1>4, PartsAre
  <2>2. after.unlimited = before.unlimited /\ ~AsksAll(w) /\ ~AsksAll(v)
    BY <1>1, <1>2, <1>4, <2>1
  <2>3. after.rows = Given(w, "rows", None)
    BY <1>1, <1>2, <1>4, <2>1 DEF AsksFor
  <2>4. after.bytes = Given(w, "bytes", None)
    BY <1>1, <1>2, <1>4, <2>1 DEF AsksFor
  <2>5. AsksFor(w, after)
    BY <2>2, <2>3, <2>4 DEF AsksFor
  <2> QED
    BY <2>5 DEF w
<1> QED
  BY <1>3, <1>4, PartsSplit

(* The words of a part are next in the line. *)
WordsNext(p) ==
  \/ p = Part("unlimited", None) /\ at + 1 <= Len(line) /\ Argument = Unlimited /\ at' = at + 1
  \/ /\ p \in Limit /\ at + 2 <= Len(line) /\ p.name \in DOMAIN Options /\ Argument = Options[p.name]
     /\ line[at + 2] = <<Numeral[p.value]>> /\ at' = at + 2

LEMMA WordsRead ==
  ASSUME UsageInv, pc = "options", NEW w \in Usages, NEW p \in Parts, Append(w, p) \in Usages,
         at = Len(Lead(command, w)), Begins(line, Lead(command, w)), WordsNext(p)
  PROVE  at' = Len(Lead(command, Append(w, p))) /\ Begins(line, Lead(command, Append(w, p)))
<1>1. line \in Seq(Arguments) /\ command \in {"find", "extract"} /\ at \in Nat
  BY DEF UsageInv, AskedInv
<1>2. /\ Lead(command, Append(w, p)) = Lead(command, w) \o Written(p)
      /\ Len(Lead(command, Append(w, p))) = Len(Lead(command, w)) + Len(Written(p))
  BY <1>1, LeadGrows
<1>3. Lead(command, w) \in Seq(Arguments) /\ Written(p) \in Seq(Arguments)
  BY <1>1, LeadIs, WrittenIs
<1>4. /\ at' = at + Len(Written(p)) /\ at' <= Len(line)
      /\ \A i \in DOMAIN Written(p) : line[at + i] = Written(p)[i]
  <2>1. CASE p = Part("unlimited", None)
    <3>1. Written(p) = <<Unlimited>>
      BY <2>1, WrittenIs
    <3>2. at + 1 <= Len(line) /\ line[at + 1] = Unlimited /\ at' = at + 1
      BY <2>1, PartsAre DEF WordsNext, Argument
    <3> QED
      BY <3>1, <3>2
  <2>2. CASE p \in Limit
    <3>1. Written(p) = <<IF p.name = "rows" THEN MaxRows ELSE MaxBytes, <<Numeral[p.value]>>>>
      BY <2>2, WrittenIs
    <3>2. /\ at + 2 <= Len(line) /\ at' = at + 2 /\ p.name \in DOMAIN Options
          /\ line[at + 1] = Options[p.name] /\ line[at + 2] = <<Numeral[p.value]>>
      BY <2>2, PartsAre DEF WordsNext, Argument
    <3>3. line[at + 1] = IF p.name = "rows" THEN MaxRows ELSE MaxBytes
      BY <1>1, <3>2, OptionsAre
    <3>4. /\ Len(Written(p)) = 2 /\ DOMAIN Written(p) = 1 .. 2
          /\ Written(p)[1] = line[at + 1] /\ Written(p)[2] = line[at + 2]
      BY <3>1, <3>2, <3>3
    <3>5. \A i \in 1 .. 2 : i = 1 \/ i = 2
      OBVIOUS
    <3> QED
      BY <3>2, <3>4, <3>5
  <2> QED
    BY <2>1, <2>2, PartsSplit
<1> DEFINE lead == Lead(command, w)
           words == Written(p)
<1>5. /\ lead \in Seq(Arguments) /\ words \in Seq(Arguments) /\ at = Len(lead) /\ Begins(line, lead)
      /\ at + Len(words) <= Len(line) /\ \A i \in DOMAIN words : line[at + i] = words[i]
  BY <1>3, <1>4
<1>6. Begins(line, lead \o words)
  <2> HIDE DEF lead, words
  <2> QED
    BY ONLY <1>1, <1>5, BeginsMore
<1> QED
  BY <1>2, <1>4, <1>6

(* The words next in the line are those of one part only. *)
LEMMA NextIsThatPart ==
  ASSUME command \in {"find", "extract"}, NEW p \in Parts, WordsNext(p), NEW w \in Usages, NEW k, NextIsPart(w, k)
  PROVE  w[k + 1] = p /\ at' = Len(Lead(command, Read(w, k + 1)))
<1> DEFINE q == w[k + 1]
<1>0. \A o \in DOMAIN Options : Options[o] = IF o = "rows" THEN MaxRows ELSE MaxBytes
  BY OptionsAre
<1>1. CASE p = Part("unlimited", None)
  <2>1. Argument = Unlimited /\ at' = at + 1
    BY <1>1, PartsAre DEF WordsNext
  <2>2. q = Part("unlimited", None)
    BY <1>0, <2>1, WordsDiffer DEF NextIsPart
  <2> QED
    BY <1>1, <2>1, <2>2, PartsAre DEF NextIsPart
<1>2. CASE p \in Limit
  <2>1. /\ p.name \in DOMAIN Options /\ Argument = Options[p.name] /\ line[at + 2] = <<Numeral[p.value]>>
        /\ at' = at + 2 /\ Argument \in {MaxRows, MaxBytes}
    BY <1>0, <1>2, PartsAre DEF WordsNext
  <2>2. /\ q \in Limit /\ q.name \in DOMAIN Options /\ Argument = Options[q.name]
        /\ line[at + 2] = <<Numeral[q.value]>> /\ at + 2 = Len(Lead(command, Read(w, k + 1)))
    BY <2>1, WordsDiffer DEF NextIsPart
  <2>3. p.name = q.name
    <3>1. p.name \in {"rows", "bytes"} /\ q.name \in {"rows", "bytes"}
      BY <1>2, <2>2, PartsAre
    <3> QED
      BY <1>0, <2>1, <2>2, <3>1, WordsDiffer
  <2>4. p.value = q.value
    <3>1. p.value \in 1 .. 2 /\ q.value \in 1 .. 2
      BY <1>2, <2>2, PartsAre
    <3>2. <<Numeral[p.value]>> = <<Numeral[q.value]>>
      BY <2>1, <2>2
    <3>3. Numeral[1] = "one" /\ Numeral[2] = "two"
      BY DEF Numeral
    <3> QED
      BY <3>1, <3>2, <3>3, NumbersAre
  <2>5. p = [name |-> p.name, value |-> p.value] /\ q = [name |-> q.name, value |-> q.value]
    BY <1>2, <2>2, PartsAre
  <2> QED
    BY <2>1, <2>2, <2>3, <2>4, <2>5
<1> QED
  BY <1>1, <1>2, PartsSplit

(* An option of a usage is no end of its options. *)
LEMMA PartIsNotEnd ==
  ASSUME command \in {"find", "extract"}, NEW p \in Parts, WordsNext(p), NEW w, NEW d
  PROVE  Argument \in {Unlimited, MaxRows, MaxBytes} /\ ~NextIsEnd(w, d)
<1>1. Argument \in {Unlimited, MaxRows, MaxBytes}
  BY OptionsAre, PartsSplit, PartsAre DEF WordsNext
<1> QED
  BY <1>1, WordsDiffer, WordsAreOptions DEF NextIsEnd

LEMMA PartTaken ==
  ASSUME UsageInv, pc = "options", pc' = "options", UNCHANGED <<line, command, limits, result>>,
         NEW p \in Parts, WordsNext(p), Asking(p, asked, asked'),
         p = Part("unlimited", None) => command = "find" /\ ~asked.unlimited,
         p \in Limit => asked[p.name] = None
  PROVE  UsageInv'
<1>1. /\ line \in Seq(Arguments) /\ command \in {"find", "extract"} /\ line[1] = <<command>>
      /\ at \in 0 .. Len(line) /\ at >= 1 /\ IsOptions(asked) /\ limits = NoLimits /\ result # "usage"
      /\ command = "extract" => ~asked.unlimited /\ asked.rows = None
  BY DEF UsageInv, AskedInv, RefuseInv, Reading
<1>2. at' \in 0 .. Len(line) /\ at' > at
  BY <1>1 DEF WordsNext
<1>3. /\ IsOptions(asked')
      /\ p = Part("unlimited", None) => asked'.unlimited /\ asked'.rows = asked.rows /\ asked'.bytes = asked.bytes
      /\ p \in Limit => /\ asked'.unlimited = asked.unlimited
                        /\ asked'.rows = IF p.name = "rows" THEN p.value ELSE asked.rows
                        /\ asked'.bytes = IF p.name = "bytes" THEN p.value ELSE asked.bytes
  BY <1>1, AskingIs
<1>4. command = "extract" => p \in Limit /\ p.name = "bytes"
  <2>1. command = "extract" => p # Part("unlimited", None)
    BY <1>1
  <2>2. command = "extract" => p \in Limit /\ p.name \in DOMAIN Options /\ DOMAIN Options = {"bytes"}
    BY <1>1, <2>1, PartsSplit, OptionsAre DEF WordsNext
  <2> QED
    BY <2>2
<1>5. AskedInv'
  <2>1. IsOptions(asked)'
    BY <1>3 DEF IsOptions
  <2>2. command = "extract" => ~asked'.unlimited /\ asked'.rows = None
    BY <1>1, <1>3, <1>4
  <2> QED
    BY <1>1, <1>2, <2>1, <2>2 DEF AskedInv
<1>6. ASSUME ~Conflict'
      PROVE  \E w \in Usages : /\ AsksFor(w, asked')
                               /\ at' = Len(Lead(command, w)) /\ Begins(line, Lead(command, w))
  <2>1. ~Conflict /\ (p \in Limit => ~asked.unlimited)
        /\ (p = Part("unlimited", None) => asked.rows = None /\ asked.bytes = None)
    <3>1. p \in Limit => p.name \in {"rows", "bytes"} /\ p.value # None
      BY PartsAre, CommandLineAssumption
    <3> QED
      BY <1>3, <1>6, <3>1, PartsSplit DEF Conflict
  <2>2. PICK w \in Usages : AsksFor(w, asked) /\ at = Len(Lead(command, w)) /\ Begins(line, Lead(command, w))
    BY <2>1 DEF UsageInv, AcceptInv
  <2>3. Append(w, p) \in Usages
    <3>1. CASE p = Part("unlimited", None)
      <4>1. w = << >>
        BY <2>1, <2>2, <3>1, NothingAsked DEF AsksFor
      <4>2. Append(<< >>, p) = <<p>>
        OBVIOUS
      <4> QED
        BY <3>1, <4>1, <4>2, UsagesAre
    <3>2. CASE p \in Limit
      <4>1. p.name \in {"rows", "bytes"} /\ ~AsksAll(w) /\ Given(w, p.name, None) = None
        BY <2>1, <2>2, <3>2, PartsAre DEF AsksFor
      <4> QED
        BY <3>2, <4>1, LimitsAppend
    <3> QED
      BY <3>1, <3>2, PartsSplit
  <2>4. AsksFor(Append(w, p), asked')
    BY <1>1, <2>2, <2>3, AskingFollows
  <2>5. at' = Len(Lead(command, Append(w, p))) /\ Begins(line, Lead(command, Append(w, p)))
    BY <2>2, <2>3, WordsRead
  <2> QED
    BY <2>3, <2>4, <2>5
<1>7. AcceptInv'
  BY <1>6 DEF AcceptInv
<1>8. ~IsHelpLine
  BY <1>1, HelpForced, PartIsNotEnd, WordsDiffer
<1>9. ASSUME NEW w \in Usages, NEW d \in Ends, Fits(command, w, d)
      PROVE  \E k \in 0 .. Len(w) : at' = Len(Lead(command, Read(w, k))) /\ AsksFor(Read(w, k), asked')
  <2>1. PICK k \in 0 .. Len(w) - 1 : NextIsPart(w, k)
    BY <1>1, <1>9, OptionsForced, PartIsNotEnd
  <2>2. w[k + 1] = p /\ at' = Len(Lead(command, Read(w, k + 1)))
    BY <1>1, <2>1, NextIsThatPart
  <2>3. /\ k \in 0 .. Len(w) /\ k + 1 \in 0 .. Len(w)
    BY <2>1, UsagesAreShort
  <2>4. /\ Read(w, k) \in Usages /\ Read(w, k + 1) \in Usages /\ Append(Read(w, k), p) = Read(w, k + 1)
    BY <2>1, <2>2, <2>3, ReadGrows
  <2>5. AsksFor(Read(w, k), asked)
    BY <2>1 DEF NextIsPart
  <2>6. AsksFor(Read(w, k + 1), asked')
    <3>1. AsksFor(Append(Read(w, k), p), asked')
      BY <1>1, <2>4, <2>5, AskingFollows
    <3> QED
      BY <2>4, <3>1
  <2> QED
    BY <2>2, <2>3, <2>6
<1>10. ForcedInv'
  BY <1>8, <1>9, FitStays DEF ForcedInv, IsHelpLine
<1> QED
  BY <1>1, <1>5, <1>7, <1>10 DEF UsageInv, RefuseInv

-----------------------------------------------------------------------------
(* The argument is an option, and no part of a usage can be read there. *)
LEMMA OptionIsRefused ==
  ASSUME UsageInv, pc = "options", Refuse, Argument \in {Unlimited, MaxRows, MaxBytes},
         \A w \in Usages : \A k : ~NextIsPart(w, k)
  PROVE  UsageInv'
<1>1. line \in Seq(Arguments) /\ command \in {"find", "extract"} /\ line[1] = <<command>>
  BY DEF UsageInv, AskedInv
<1>2. ~IsHelpLine
  BY HelpForced, WordsDiffer
<1>3. ASSUME NEW w \in Usages, NEW d \in Ends, Fits(command, w, d) PROVE FALSE
  BY <1>3, OptionsForced, WordsDiffer, WordsAreOptions DEF NextIsEnd
<1> QED
  BY <1>1, <1>2, <1>3, UnfitIsRefused, RefusedLine

LEMMA TakeUnlimitedUsage == UsageInv /\ TakeUnlimited => UsageInv'
<1> SUFFICES ASSUME UsageInv, TakeUnlimited PROVE UsageInv'
  OBVIOUS
<1> DEFINE p == Part("unlimited", None)
<1>1. /\ pc = "options" /\ command = "find" /\ Argument = Unlimited /\ at + 1 <= Len(line)
      /\ line \in Seq(Arguments) /\ at \in 0 .. Len(line)
  BY DEF TakeUnlimited, HasNext, Unlimited, UsageInv, AskedInv
<1>2. CASE asked.unlimited /\ Refuse
  <2>1. ASSUME NEW w \in Usages, NEW k, NextIsPart(w, k) PROVE FALSE
    BY <1>1, <1>2, <2>1, OptionsAre, WordsDiffer DEF NextIsPart
  <2> QED
    BY <1>1, <1>2, <2>1, OptionIsRefused
<1>3. CASE /\ ~asked.unlimited /\ asked' = [asked EXCEPT !.unlimited = TRUE] /\ at' = at + 1
           /\ UNCHANGED <<line, pc, command, limits, result>>
  <2>1. p \in Parts /\ p \notin Limit
    BY PartsSplit, PartsAre
  <2>2. WordsNext(p) /\ Asking(p, asked, asked')
    BY <1>1, <1>3 DEF WordsNext, Asking
  <2> HIDE DEF p
  <2> QED
    BY <1>1, <1>3, <2>1, <2>2, PartTaken
<1> QED
  BY <1>2, <1>3 DEF TakeUnlimited

LEMMA TakeLimitUsage ==
  ASSUME UsageInv, NEW option \in DOMAIN Options, TakeLimit(option)
  PROVE  UsageInv'
<1>1. /\ pc = "options" /\ Argument = Options[option] /\ line \in Seq(Arguments) /\ at \in 0 .. Len(line)
      /\ command \in {"find", "extract"}
  BY DEF TakeLimit, UsageInv, AskedInv
<1>2. /\ \A o \in DOMAIN Options : o \in {"rows", "bytes"} /\ Options[o] = IF o = "rows" THEN MaxRows ELSE MaxBytes
  BY <1>1, OptionsAre
<1>3. CASE /\ Refuse
           /\ at + 2 <= Len(line) /\ IsNumber(line[at + 2]) =>
                Number(line[at + 2]) = 0 \/ asked[option] # None
  <2>1. ASSUME NEW w \in Usages, NEW k, NextIsPart(w, k) PROVE FALSE
    <3> DEFINE q == w[k + 1]
    <3>1. /\ q \in Limit /\ at + 2 <= Len(line) /\ q.name \in DOMAIN Options /\ Argument = Options[q.name]
          /\ line[at + 2] = <<Numeral[q.value]>> /\ asked[q.name] = None
      BY <1>1, <1>2, <2>1, WordsDiffer DEF NextIsPart
    <3>2. q.name = option
      BY <1>1, <1>2, <3>1, WordsDiffer
    <3>3. q.value \in 1 .. 2
      BY <3>1, PartsAre
    <3>4. IsNumber(line[at + 2]) /\ Number(line[at + 2]) = q.value
      BY <3>1, <3>3, NumbersAre
    <3> QED
      BY <1>3, <3>1, <3>2, <3>3, <3>4
  <2>2. Argument \in {Unlimited, MaxRows, MaxBytes}
    BY <1>1, <1>2
  <2> QED
    BY <1>1, <1>3, <2>1, <2>2, OptionIsRefused
<1>4. CASE /\ at + 2 <= Len(line) /\ IsNumber(line[at + 2]) /\ Number(line[at + 2]) # 0 /\ asked[option] = None
           /\ asked' = [asked EXCEPT ![option] = Number(line[at + 2])]
           /\ at' = at + 2
           /\ UNCHANGED <<line, pc, command, limits, result>>
  <2> DEFINE value == Number(line[at + 2])
             p == Part(option, value)
  <2>1. line[at + 2] \in Arguments
    BY <1>1, <1>4
  <2>2. value \in 1 .. 2 /\ line[at + 2] = <<Numeral[value]>>
    BY <1>4, <2>1, NumbersAre
  <2>3. p \in Limit /\ p.name = option /\ p.value = value
    <3>1. option \in {"rows", "bytes"}
      BY <1>2
    <3> HIDE DEF value
    <3>2. p \in Limit
      BY <2>2, <3>1, PartsAre
    <3> QED
      BY <3>2 DEF Part
  <2>4. p \in Parts /\ p # Part("unlimited", None)
    BY <2>3, PartsSplit, PartsAre
  <2> HIDE DEF p
  <2>5. WordsNext(p)
    BY <1>1, <1>4, <2>2, <2>3 DEF WordsNext
  <2>6. Asking(p, asked, asked')
    BY <1>4, <2>3 DEF Asking
  <2>7. asked[p.name] = None /\ pc' = "options"
    BY <1>1, <1>4, <2>3
  <2> QED
    BY <1>1, <1>4, <2>4, <2>5, <2>6, <2>7, PartTaken
<1> QED
  BY <1>1, <1>3, <1>4 DEF TakeLimit, Repeated

LEMMA TakeOptionsEndUsage == UsageInv /\ TakeOptionsEnd => UsageInv'
<1> SUFFICES ASSUME UsageInv, TakeOptionsEnd PROVE UsageInv'
  OBVIOUS
<1>1. /\ pc = "options" /\ line \in Seq(Arguments) /\ command \in {"find", "extract"} /\ line[1] = <<command>>
      /\ at \in 0 .. Len(line) /\ at >= 1 /\ IsOptions(asked) /\ limits = NoLimits /\ result # "usage"
      /\ command = "extract" => ~asked.unlimited /\ asked.rows = None
  BY DEF TakeOptionsEnd, UsageInv, AskedInv, RefuseInv, Reading
<1>2. ~IsHelpLine
  BY <1>1, HelpForced DEF TakeOptionsEnd
<1>3. HasNext <=> at + 1 <= Len(line)
  BY <1>1 DEF HasNext
<1>4. ASSUME NEW w \in Usages, NEW k, NextIsPart(w, k)
      PROVE  HasNext /\ Recognised /\ Argument # Dashes /\ IsOption(Argument)
  <2>1. /\ HasNext /\ Recognised /\ Argument \in {Unlimited, MaxRows, MaxBytes}
    <3>1. CASE /\ at + 1 <= Len(line) /\ Argument = Unlimited /\ command = "find"
      BY <1>3, <3>1 DEF Recognised, Unlimited
    <3>2. CASE /\ at + 2 <= Len(line) /\ w[k + 1].name \in DOMAIN Options /\ Argument = Options[w[k + 1].name]
      BY <1>1, <1>3, <3>2, OptionsAre DEF Recognised
    <3> QED
      BY <1>4, <3>1, <3>2 DEF NextIsPart
  <2> QED
    BY <2>1, WordsDiffer, WordsAreOptions
<1>5. ASSUME NEW w \in Usages, NEW d \in Ends, NextIsEnd(w, d)
      PROVE  /\ HasNext
             /\ \/ d = <<Dashes>> /\ Argument = Dashes /\ at + 2 <= Len(line)
                \/ d = << >> /\ Argument # Dashes /\ ~IsOption(Argument)
  BY <1>1, <1>3, <1>5, WordsAreOptions DEF NextIsEnd
<1>6. ASSUME NEW w \in Usages, NEW d \in Ends, Fits(command, w, d)
      PROVE  NextIsEnd(w, d) \/ \E k \in 0 .. Len(w) - 1 : NextIsPart(w, k)
  BY <1>1, <1>6, OptionsForced
<1>7. CASE /\ Refuse
           /\ \/ ~HasNext
              \/ HasNext /\ ~Recognised /\ Argument # Dashes /\ IsOption(Argument)
              \/ HasNext /\ Argument = Dashes /\ at + 2 > Len(line)
  <2>1. ASSUME NEW w \in Usages, NEW d \in Ends, Fits(command, w, d) PROVE FALSE
    <3>1. CASE NextIsEnd(w, d)
      BY <1>1, <1>5, <1>7, <3>1
    <3>2. CASE \E k \in 0 .. Len(w) - 1 : NextIsPart(w, k)
      BY <1>4, <1>7, <3>2
    <3> QED
      BY <1>6, <2>1, <3>1, <3>2
  <2> QED
    BY <1>1, <1>2, <1>7, <2>1, UnfitIsRefused, RefusedLine
<1>8. CASE /\ HasNext
           /\ Argument = Dashes => at + 2 <= Len(line)
           /\ Argument = Dashes \/ ~IsOption(Argument)
           /\ at' = IF Argument = Dashes THEN at + 2 ELSE at + 1
           /\ pc' = "operands"
           /\ UNCHANGED <<line, command, asked, limits, result>>
  <2> DEFINE end == IF Argument = Dashes THEN <<Dashes>> ELSE << >>
  <2>1. end \in Ends /\ Len(end) \in Nat /\ at' = at + Len(end) + 1 /\ at' \in 0 .. Len(line)
    <3>1. CASE Argument = Dashes
      BY <1>1, <1>3, <1>8, <3>1 DEF Ends
    <3>2. CASE Argument # Dashes
      BY <1>1, <1>3, <1>8, <3>2 DEF Ends
    <3> QED
      BY <3>1, <3>2
  <2>2. AskedInv'
    BY <1>1, <1>8, <2>1 DEF AskedInv, IsOptions
  <2>3. ASSUME ~Conflict
        PROVE  \E w \in Usages, d \in Ends : /\ AsksFor(w, asked)
                                             /\ at' = Len(Lead(command, w) \o d) + 1
                                             /\ Begins(line, Lead(command, w) \o d)
                                             /\ d = << >> => ~IsOption(line[at'])
    <3>1. PICK w \in Usages : AsksFor(w, asked) /\ at = Len(Lead(command, w)) /\ Begins(line, Lead(command, w))
      BY <1>1, <2>3 DEF UsageInv, AcceptInv
    <3> DEFINE lead == Lead(command, w)
    <3>2. lead \in Seq(Arguments) /\ end \in Seq(Arguments) /\ at = Len(lead) /\ Begins(line, lead)
      BY <1>1, <2>1, <3>1, LeadIs, EndsAre
    <3>3. /\ at + Len(end) <= Len(line)
          /\ \A i \in DOMAIN end : line[at + i] = end[i]
      BY <1>1, <1>3, <1>8 DEF Argument
    <3>4. end = << >> => ~IsOption(line[at'])
      BY <1>8 DEF Argument
    <3>5. Begins(line, lead \o end) /\ Len(lead \o end) = at + Len(end)
      <4> HIDE DEF lead, end
      <4> QED
        BY ONLY <1>1, <3>2, <3>3, BeginsMore
    <3> HIDE DEF end
    <3> QED
      BY <2>1, <3>1, <3>4, <3>5
  <2>4. AcceptInv'
    BY <1>8, <2>3 DEF AcceptInv, Conflict
  <2>5. ASSUME NEW w \in Usages, NEW d \in Ends, Fits(command, w, d)
        PROVE  at' = Len(Lead(command, w) \o d) + 1 /\ AsksFor(w, asked)
    <3>1. NextIsEnd(w, d)
      BY <1>4, <1>6, <1>8, <2>5
    <3>2. /\ at = Len(Lead(command, w)) /\ AsksFor(w, asked) /\ d = end
      BY <1>5, <3>1 DEF NextIsEnd
    <3>3. Len(Lead(command, w) \o d) = Len(Lead(command, w)) + Len(d)
      BY <1>1, OperandsAre
    <3> HIDE DEF end
    <3> QED
      BY <2>1, <3>2, <3>3
  <2>6. ForcedInv'
    BY <1>2, <1>8, <2>5, FitStays DEF ForcedInv, IsHelpLine
  <2> QED
    BY <1>1, <1>8, <2>2, <2>4, <2>6 DEF UsageInv, RefuseInv
<1> QED
  BY <1>7, <1>8 DEF TakeOptionsEnd

(* The limits that a usage gives are those that the command applies. *)
LEMMA LimitsAreGiven ==
  ASSUME NEW w \in Usages, AsksFor(w, asked), command \in {"find", "extract"}
  PROVE  /\ command = "find" => FindLimits = [rows |-> Given(w, "rows", DefaultRows),
                                              bytes |-> Given(w, "bytes", DefaultBytes)]
         /\ command = "extract" /\ ~asked.unlimited =>
              ExtractLimits = [rows |-> None, bytes |-> Given(w, "bytes", ExtractBytes)]
<1>1. \A name \in {"rows", "bytes"} : \A default :
        Given(w, name, default) = IF AsksAll(w) THEN None ELSE OneOf(Given(w, name, None), default)
  BY DefaultsApply
<1>2. /\ asked.unlimited <=> AsksAll(w)
      /\ asked.rows = Given(w, "rows", None) /\ asked.bytes = Given(w, "bytes", None)
  BY DEF AsksFor
<1>3. /\ Given(w, "rows", DefaultRows) = IF asked.unlimited THEN None ELSE OneOf(asked.rows, DefaultRows)
      /\ Given(w, "bytes", DefaultBytes) = IF asked.unlimited THEN None ELSE OneOf(asked.bytes, DefaultBytes)
      /\ Given(w, "bytes", ExtractBytes) = IF asked.unlimited THEN None ELSE OneOf(asked.bytes, ExtractBytes)
  BY <1>1, <1>2
<1> QED
  BY <1>3 DEF FindLimits, NoLimits, ExtractLimits

(* An extraction is given no limit but that of its bytes. *)
LEMMA OnlyBytesAreGiven ==
  ASSUME NEW w \in Usages, ~AsksAll(w), Given(w, "rows", None) = None
  PROVE  \A k \in DOMAIN w : w[k].name = "bytes"
<1>1. \A p \in Limit : p.name \in {"rows", "bytes"} /\ p.value # None
  BY PartsAre, CommandLineAssumption
<1>2. ASSUME NEW p \in Limit, w = <<p>> PROVE \A k \in DOMAIN w : w[k].name = "bytes"
  <2>1. p.name = "bytes"
    BY <1>1, <1>2, OneIsGiven
  <2> QED
    BY <1>2, <2>1
<1>3. ASSUME NEW p \in Limit, NEW q \in Limit, p.name # q.name, w = <<p, q>> PROVE FALSE
  <2>1. Given(w, "rows", None) = IF p.name = "rows" THEN p.value ELSE IF q.name = "rows" THEN q.value ELSE None
    BY <1>3, TwoAreGiven
  <2> QED
    BY <1>1, <1>3, <2>1
<1> QED
  BY <1>2, <1>3, UsagesAre, AllIsAsked

LEMMA TakeOperandsUsage == UsageInv /\ TakeOperands => UsageInv'
<1> SUFFICES ASSUME UsageInv, TakeOperands PROVE UsageInv'
  OBVIOUS
<1>1. /\ pc = "operands" /\ line \in Seq(Arguments) /\ command \in {"find", "extract"} /\ line[1] = <<command>>
      /\ at \in 1 .. Len(line) /\ IsOptions(asked) /\ result # "usage"
      /\ command = "extract" => ~asked.unlimited /\ asked.rows = None
      /\ ~IsHelpLine
  BY DEF TakeOperands, UsageInv, AskedInv, ForcedInv, RefuseInv
<1>2. OperandsAreGood <=>
        /\ Len(line) + 1 = at + Count(command)
        /\ \A i \in 1 .. Count(command) - 1 : IsUtf8(line[at + i])
        /\ IsGoodSelector(line[at + 1])
        /\ command = "find" => line[at + 2] # << >>
        /\ ~Conflict
  BY <1>1, GoodOperands
<1>3. ASSUME NEW w \in Usages, NEW d \in Ends, at = Len(Lead(command, w) \o d) + 1
      PROVE  OperandsFollow(Lead(command, w) \o d, d) <=>
               /\ Begins(line, Lead(command, w) \o d)
               /\ Len(line) + 1 = at + Count(command)
               /\ d = << >> => ~IsOption(line[at])
               /\ \A i \in 1 .. Count(command) - 1 : IsUtf8(line[at + i])
               /\ IsGoodSelector(line[at + 1])
               /\ command = "find" => line[at + 2] # << >>
  <2> DEFINE n == Len(Lead(command, w)) + Len(d)
  <2>1. /\ n \in Nat \ {0} /\ Len(Lead(command, w) \o d) = n
        /\ OperandsFollow(Lead(command, w) \o d, d) <=>
             /\ Begins(line, Lead(command, w) \o d)
             /\ Len(line) = n + Count(command)
             /\ d = << >> => ~IsOption(line[n + 1])
             /\ \A i \in 2 .. Count(command) : IsUtf8(line[n + i])
             /\ IsGoodSelector(line[n + 2])
             /\ command = "find" => line[n + 3] # << >>
    BY <1>1, OperandsAre
  <2>2. at = n + 1 /\ at + 1 = n + 2 /\ at + 2 = n + 3 /\ n \in Nat /\ Count(command) \in {2, 4}
    BY <1>3, <2>1 DEF Count
  <2> HIDE DEF n
  <2>3. Len(line) = n + Count(command) <=> Len(line) + 1 = at + Count(command)
    BY <1>1, <2>2
  <2>4. (\A i \in 2 .. Count(command) : IsUtf8(line[n + i])) <=> \A i \in 1 .. Count(command) - 1 : IsUtf8(line[at + i])
    <3>1. ASSUME \A i \in 2 .. Count(command) : IsUtf8(line[n + i]), NEW i \in 1 .. Count(command) - 1
          PROVE  IsUtf8(line[at + i])
      <4>1. i + 1 \in 2 .. Count(command) /\ n + (i + 1) = at + i
        BY <2>2
      <4> QED
        BY <3>1, <4>1
    <3>2. ASSUME \A i \in 1 .. Count(command) - 1 : IsUtf8(line[at + i]), NEW i \in 2 .. Count(command)
          PROVE  IsUtf8(line[n + i])
      <4>1. i - 1 \in 1 .. Count(command) - 1 /\ at + (i - 1) = n + i
        BY <2>2
      <4> QED
        BY <3>2, <4>1
    <3> QED
      BY <3>1, <3>2
  <2> QED
    BY <2>1, <2>2, <2>3, <2>4
<1>4. CASE ~OperandsAreGood /\ Refuse
  <2>1. ASSUME NEW w \in Usages, NEW d \in Ends, Fits(command, w, d) PROVE FALSE
    <3>1. at = Len(Lead(command, w) \o d) + 1 /\ AsksFor(w, asked)
      BY <1>1, <2>1 DEF UsageInv, ForcedInv
    <3>2. OperandsFollow(Lead(command, w) \o d, d)
      BY <2>1 DEF Fits
    <3>3. Conflict
      BY <1>2, <1>3, <1>4, <3>1, <3>2
    <3>4. AsksAll(w) /\ (Given(w, "rows", None) # None \/ Given(w, "bytes", None) # None)
      BY <3>1, <3>3 DEF Conflict, AsksFor
    <3>5. w = <<Part("unlimited", None)>>
      BY <3>4, UsagesAre, AllIsAsked
    <3> QED
      BY <3>4, <3>5, NoneIsGiven
  <2> QED
    BY <1>1, <1>4, <2>1, UnfitIsRefused, RefusedLine
<1>5. CASE /\ OperandsAreGood /\ at' = Len(line) /\ pc' = "open"
           /\ limits' = IF command = "find" THEN FindLimits ELSE ExtractLimits
           /\ UNCHANGED <<line, command, asked, result>>
  <2>1. PICK w \in Usages, d \in Ends : /\ AsksFor(w, asked)
                                        /\ at = Len(Lead(command, w) \o d) + 1
                                        /\ Begins(line, Lead(command, w) \o d)
                                        /\ d = << >> => ~IsOption(line[at])
    BY <1>1, <1>2, <1>5 DEF UsageInv, AcceptInv
  <2>2. OperandsFollow(Lead(command, w) \o d, d)
    BY <1>2, <1>3, <1>5, <2>1
  <2>3. Means(command, limits')
    <3>1. CASE command = "find"
      <4>1. limits' = [rows |-> Given(w, "rows", DefaultRows), bytes |-> Given(w, "bytes", DefaultBytes)]
        BY <1>1, <1>5, <2>1, <3>1, LimitsAreGiven
      <4>2. OperandsFollow(<<<<"find">>>> \o Words(w) \o d, d)
        BY <2>2, <3>1 DEF Lead
      <4> QED
        BY <3>1, <4>1, <4>2 DEF Means, Ends
    <3>2. CASE command = "extract"
      <4>1. limits' = [rows |-> None, bytes |-> Given(w, "bytes", ExtractBytes)]
        BY <1>1, <1>5, <2>1, <3>2, LimitsAreGiven
      <4>2. OperandsFollow(<<<<"extract">>>> \o Words(w) \o d, d)
        BY <2>2, <3>2 DEF Lead
      <4>3. \A k \in DOMAIN w : w[k].name = "bytes"
        BY <1>1, <2>1, <3>2, OnlyBytesAreGiven DEF AsksFor
      <4> QED
        BY <3>2, <4>1, <4>2, <4>3 DEF Means, Ends
    <3> QED
      BY <1>1, <3>1, <3>2
  <2>4. Means(command, limits)'
    BY <1>5, <2>3, MeaningStays
  <2>5. AskedInv'
    BY <1>1, <1>5 DEF AskedInv, IsOptions, Reading
  <2> QED
    BY <1>1, <1>5, <2>4, <2>5 DEF UsageInv, AcceptInv, ForcedInv, RefuseInv
<1> QED
  BY <1>4, <1>5 DEF TakeOperands

LEMMA UsageStep == IInv /\ UsageInv /\ [Next]_vars => UsageInv'
<1> SUFFICES ASSUME IInv, UsageInv, [Next]_vars PROVE UsageInv'
  OBVIOUS
<1>1. CASE UNCHANGED vars
  <2>1. UNCHANGED <<line, at, pc, command, asked, limits, result>>
    BY <1>1 DEF vars
  <2>2. AskedInv'
    BY <2>1 DEF UsageInv, AskedInv, IsOptions
  <2>3. AcceptInv'
    BY <2>1, MeaningStays DEF UsageInv, AcceptInv, Conflict
  <2>4. ForcedInv'
    BY <2>1, FitStays DEF UsageInv, ForcedInv, IsHelpLine
  <2>5. NoMeaning => NoMeaning'
    BY <2>1, MeaningStays DEF NoMeaning
  <2> QED
    BY <2>1, <2>2, <2>3, <2>4, <2>5 DEF UsageInv, RefuseInv
<1> QED
  BY <1>1, TakeCommandUsage, TakeFileUsage, TakeHelpUsage, TakeUnlimitedUsage, TakeLimitUsage, TakeOptionsEndUsage,
     TakeOperandsUsage, LaterKeepUsage DEF Next

(* A line is accepted exactly if the usage text gives it a meaning, and what is done
   is what it means: the command, and the limits given or their defaults; for every
   line, those that name options twice, out of order or after the file among them.   *)
THEOREM AcceptedIsMeant == Spec => []AcceptedLinesAreTheUsage
<1>1. UsageInv => AcceptedLinesAreTheUsage
  BY DEF UsageInv, AcceptInv, RefuseInv, NoMeaning, AcceptedLinesAreTheUsage
<1> QED
  BY InitInv, NextInv, UsageInit, UsageStep, <1>1, PTL DEF Spec
=============================================================================
