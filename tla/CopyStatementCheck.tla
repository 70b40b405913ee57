--------------------------- MODULE CopyStatementCheck ---------------------------
(***************************************************************************)
(* Checks of CopyStatement over every sequence of symbols up to MaxLen, as *)
(* the middle of a statement and as a column name that pg_dump writes.     *)
(***************************************************************************)
EXTENDS CopyStatement

CONSTANTS Symbols, MaxLen, MaxColumns

VARIABLE text

Init == text = << >>
Next == /\ Len(text) < MaxLen
        /\ \E b \in Symbols : text' = Append(text, b)
Spec == Init /\ [][Next]_text

-----------------------------------------------------------------------------
(* Reference: names, lists and relations as sets of texts, without a parser. *)
Cut(s, i, j) == SubSeq(s, i, j)

Blank(s) == ToSet(s) \subseteq Space

Trimmed(s) ==
  IF Blank(s) THEN << >>
  ELSE LET inked == {i \in DOMAIN s : s[i] \notin Space}
       IN  Cut(s, Least(inked), CHOOSE i \in inked : \A j \in inked : j <= i)

QuotesBefore(s, i) == Len(SelectSeq(Cut(s, 1, i - 1), LAMBDA b : b = Quote))

Outside(s, i) == QuotesBefore(s, i) % 2 = 0

(* The body of a quoted name has its quotes in pairs; its name has one of each pair. *)
PairsOf(s) == {i \in DOMAIN s : s[i] = Quote}

Paired(s) == \A i \in PairsOf(s) : IF Outside(s, i) THEN i + 1 \in PairsOf(s) ELSE i - 1 \in PairsOf(s)

Logical(s) == [k \in 1 .. Len(s) - QuotesBefore(s, Len(s) + 1) \div 2 |->
  s[CHOOSE i \in DOMAIN s : k = i - Cardinality({j \in PairsOf(s) : j < i /\ ~Outside(s, j)})
                            /\ (s[i] = Quote => Outside(s, i))]]

IsQuoted(s) == Len(s) > 2 /\ s[1] = Quote /\ s[Len(s)] = Quote /\ Paired(Cut(s, 2, Len(s) - 1))

IsName(s, barred) == IsQuoted(s) \/ (s # << >> /\ ToSet(s) \cap (barred \cup Space \cup {Quote}) = {})

NameOf(s) == IF IsQuoted(s) THEN Logical(Cut(s, 2, Len(s) - 1)) ELSE s

RelationBarred == {".", "(", ",", ")", ";"}
ColumnBarred == {",", ")", "(", ";"}

IsRelation(s) ==
  \/ IsName(s, RelationBarred)
  \/ \E i \in DOMAIN s : s[i] = "." /\ IsName(Cut(s, 1, i - 1), RelationBarred)
                                    /\ IsName(Cut(s, i + 1, Len(s)), RelationBarred)

(* Places of the commas between columns, and of the ends of the list. *)
Borders(s) == {1, Len(s)} \cup {i \in DOMAIN s : s[i] = "," /\ Outside(s, i)}

Parts(s) == LET places == SetToSortSeq(Borders(s), <)
            IN  [k \in 1 .. Len(places) - 1 |-> Trimmed(Cut(s, places[k] + 1, places[k + 1] - 1))]

IsList(s) == /\ Len(s) > 1 /\ s[1] = "(" /\ s[Len(s)] = ")" /\ Outside(s, Len(s))
             /\ \/ Blank(Cut(s, 2, Len(s) - 1))
                \/ \A k \in DOMAIN Parts(s) : IsName(Parts(s)[k], ColumnBarred)

ListOf(s) == IF Blank(Cut(s, 2, Len(s) - 1)) THEN << >> ELSE [k \in DOMAIN Parts(s) |-> NameOf(Parts(s)[k])]

(* The columns that s, between COPY and FROM, can name: at most one list. *)
ColumnsNamed(s) ==
  {<< >> : i \in {j \in DOMAIN s : IsRelation(Cut(s, 1, j - 1)) /\ Blank(Cut(s, j, Len(s)))}}
    \cup {ListOf(Trimmed(Cut(s, i, Len(s)))) :
            i \in {j \in DOMAIN s : s[j] = "(" /\ IsRelation(Trimmed(Cut(s, 1, j - 1)))
                                    /\ IsList(Trimmed(Cut(s, j, Len(s))))}}

Middles == {text, <<"a">> \o text, <<"a", "(">> \o text}

Statement(middle, end) == <<"COPY", "space">> \o middle \o <<"FROM", "space", "stdin">> \o end

Leading(s) == Cut(s, SkipSpace(s, 1), Len(s))

(* A statement is COPY text exactly if it is one, with exactly the columns it lists
   in their order, quotes undone; a name that comes twice, or one name more than any
   limit, is never a layout.  Options behind stdin are never taken for COPY text.    *)
ParsedColumnsAreTheStatements ==
  \A middle \in Middles :
    LET named == ColumnsNamed(Leading(middle))
        read(end, max) == Metadata(<<Statement(middle, end)>>, max)
    IN  /\ \A end \in {<<";">>, <<"space", ";", "space">>}, max \in 0 .. MaxColumns :
             IF named = {} THEN read(end, max).kind \in {"malformed", "too_many_columns"}
             ELSE LET columns == CHOOSE c \in named : TRUE
                  IN  /\ named = {columns}
                      /\ read(end, max) =
                           [kind    |-> IF Len(columns) > max THEN "too_many_columns"
                                        ELSE IF IsInjective(columns) THEN "copy" ELSE "malformed",
                            columns |-> IF Len(columns) <= max /\ IsInjective(columns)
                                        THEN columns ELSE << >>]
        /\ \A end \in {<< >>, <<"space">>, <<";", "a">>, <<"a", ";">>, <<"space", "binary", ";">>} :
             /\ read(end, MaxColumns).kind # "copy"
             /\ read(end, MaxColumns).kind = "binary" => "binary" \in ToSet(end)

Doubled(s) == FlattenSeq([i \in DOMAIN s |-> IF s[i] = Quote THEN <<Quote, Quote>> ELSE <<s[i]>>])

(* Reference: an identifier as PostgreSQL writes it. *)
WriteName(s) == IF ToSet(s) \subseteq {"a", "b"} THEN s ELSE <<Quote>> \o Doubled(s) \o <<Quote>>

(* Whatever a table's columns are called, the statement pg_dump writes for them is
   read back with the same names in the same order.                               *)
WrittenStatementsParse ==
  text # << >> =>
    LET columns == <<text, <<"a", Quote, ",">>>>
        written == WriteName(text) \o <<".">> \o WriteName(text) \o <<"space", "(">> \o WriteName(text)
                     \o <<",", "space">> \o WriteName(<<"a", Quote, ",">>) \o <<")", "space">>
    IN  text # columns[2] =>
          Metadata(<<Statement(written, <<";", "space">>)>>, 2) = [kind |-> "copy", columns |-> columns]
=============================================================================
