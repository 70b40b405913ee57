----------------------------- MODULE CopyStatement -----------------------------
(***************************************************************************)
(* parse_table_data_metadata of crates/pgdumpx/src/copy_metadata.rs: what  *)
(* the COPY statement recorded for a TABLE DATA entry says, as a function. *)
(* A statement is a sequence of symbols: the keywords, the bytes that are  *)
(* punctuation or white space to the parser, and other bytes.              *)
(***************************************************************************)
EXTENDS Integers, Sequences, SequencesExt

Quote == "quote"
Space == {"space"}

(* A parse that has come as far as `at`, with what it has read, or the reason
   it stopped.                                                                *)
Parsed(at, value) == [error |-> "none", at |-> at, value |-> value]
Stopped(error) == [error |-> error, at |-> 0, value |-> << >>]

-----------------------------------------------------------------------------
Least(S) == CHOOSE n \in S : \A m \in S : n <= m

(* The first place from i on whose symbol is in S, or the statement's end. *)
Find(s, i, S) == Least({j \in i .. Len(s) : s[j] \in S} \cup {Len(s) + 1})

SkipSpace(s, i) == Least({j \in i .. Len(s) : s[j] \notin Space} \cup {Len(s) + 1})

Is(s, i, symbol) == i <= Len(s) /\ s[i] = symbol

\* Mutant: a quote within a quoted name ends it.
QuotedToFirst(s, i) ==
  LET end == Find(s, i, {Quote})
  IN  IF end > Len(s) \/ end = i THEN Stopped("malformed") ELSE Parsed(end + 1, SubSeq(s, i, end - 1))

RECURSIVE QuotedRest(_, _, _)
QuotedRest(s, i, name) ==
  IF i > Len(s) THEN Stopped("malformed")
  ELSE IF s[i] # Quote THEN QuotedRest(s, i + 1, Append(name, s[i]))
  ELSE IF Is(s, i + 1, Quote) THEN QuotedRest(s, i + 2, Append(name, Quote))
  ELSE IF name = << >> THEN Stopped("malformed")
  ELSE Parsed(i + 1, name)

(* The rest of a quoted name, in which two quotes are one. *)
Quoted(s, i) == QuotedRest(s, i, << >>)

(* A name that ends before any symbol in `ends` and may not hold one in `barred`. *)
Identifier(s, i, ends, barred) ==
  IF Is(s, i, Quote) THEN Quoted(s, i + 1)
  ELSE LET end == Find(s, i, ends \cup barred \cup Space)
       IN  IF end = i \/ (end <= Len(s) /\ s[end] \in barred) THEN Stopped("malformed")
           ELSE Parsed(end, SubSeq(s, i, end - 1))

RelationName(s, i) == Identifier(s, i, {".", "("}, {",", ")", ";", Quote})

ColumnName(s, i) == Identifier(s, i, {",", ")"}, {"(", ";", Quote})

(* A parse that goes on with next where p came to, if p came to anything. *)
Then(p, next(_)) == IF p.error = "none" THEN next(p) ELSE p

(* skip_relation: a name, or two with a dot between them. *)
Relation(s, i) ==
  LET Single(name) == IF Is(s, name.at, ".") THEN Stopped("malformed") ELSE name
      Qualified(name) == IF Is(s, name.at, ".") THEN Then(RelationName(s, name.at + 1), Single) ELSE name
  IN  Then(RelationName(s, i), Qualified)

RECURSIVE MoreColumns(_, _, _, _)
MoreColumns(s, i, columns, max) ==
  LET Listed(next, all) ==
        IF Is(s, next, ",") THEN MoreColumns(s, SkipSpace(s, next + 1), all, max)
        ELSE IF Is(s, next, ")") THEN Parsed(next + 1, all)
        ELSE Stopped("malformed")
  IN  IF Len(columns) + 1 > max THEN Stopped("too_many_columns")
      ELSE Then(ColumnName(s, i), LAMBDA name : Listed(SkipSpace(s, name.at), Append(columns, name.value)))

(* parse_columns, behind the opening parenthesis. *)
Columns(s, i, max) ==
  IF Is(s, i, ")") THEN Parsed(i + 1, << >>) ELSE MoreColumns(s, i, << >>, max)

(* What stands between the relation, which ends at `end`, and FROM. *)
ColumnList(s, end, i, max) ==
  IF Is(s, i, "(") THEN Columns(s, SkipSpace(s, i + 1), max)
  ELSE IF i = end THEN Stopped("malformed")
  ELSE Parsed(i, << >>)

(* The columns read by p stay with the parse over a keyword, and over the white
   space behind it where the parser asks for some.                              *)
Keyword(s, i, word, p) == IF Is(s, i, word) THEN [p EXCEPT !.at = i + 1] ELSE Stopped("malformed")

Spaced(s, p) == IF SkipSpace(s, p.at) = p.at THEN Stopped("malformed") ELSE [p EXCEPT !.at = SkipSpace(s, p.at)]

(* What follows stdin: the terminator, or options that make it another format. *)
Terminated(s, i, columns) ==
  LET at == SkipSpace(s, i)
  IN  IF Is(s, at, ";")
      THEN IF SkipSpace(s, at + 1) = Len(s) + 1 THEN [kind |-> "copy", columns |-> columns]
                                                ELSE [kind |-> "malformed", columns |-> << >>]
      ELSE [kind |-> IF at > Len(s) THEN "malformed"
                     ELSE IF Find(s, at, {"binary"}) <= Len(s) THEN "binary" ELSE "other",
            columns |-> << >>]

(* CopyStatementParser::parse. *)
Parse(s, max) ==
  LET Apart(p)     == Spaced(s, p)
      Named(p)     == Relation(s, p.at)
      Listed(p)    == ColumnList(s, p.at, SkipSpace(s, p.at), max)
      From(p)      == Keyword(s, SkipSpace(s, p.at), "FROM", p)
      Stdin(p)     == Keyword(s, p.at, "stdin", p)
      Statement(p) == IF p.error # "none" THEN [kind |-> p.error, columns |-> << >>]
                      ELSE Terminated(s, p.at, p.value)
      copy == Keyword(s, 1, "COPY", Parsed(1, << >>))
  IN  Statement(Then(Then(Then(Then(Then(Then(copy, Apart), Named), Listed), From), Apart), Stdin))

-----------------------------------------------------------------------------
\* Mutant: a name that comes twice keeps its last place.
RepeatsAccepted(columns) == TRUE

(* CopyColumnLayout::new: every name has one place. *)
Distinct(columns) == IsInjective(columns)

(* A parsed statement whose column names repeat is no layout. *)
Layout(parsed) ==
  IF parsed.kind = "copy" /\ ~Distinct(parsed.columns) THEN [kind |-> "malformed", columns |-> << >>] ELSE parsed

(* The statement of an entry: << >> when it has none, or the statement in a tuple. *)
Metadata(statement, max) ==
  IF statement = << >> THEN [kind |-> "insert", columns |-> << >>]
  ELSE IF statement[1] = << >> THEN [kind |-> "unavailable", columns |-> << >>]
  ELSE Layout(Parse(statement[1], max))
=============================================================================
