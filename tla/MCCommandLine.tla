----------------------------- MODULE MCCommandLine -----------------------------
(* Command lines for CommandLine: every short one, and those that are close to
   what the usage text allows.                                                  *)
EXTENDS CommandLine

Globals == {<<"find">>, <<"inspect">>, <<"--", "help">>, <<"-h">>, <<"--", "version">>, Dashes, <<"f">>}

Lists == {s \o t \o u : s, t, u \in {<< >>} \cup {<<w>> : w \in Globals}}

OptionParts == {<< >>, <<Unlimited>>, <<MaxRows, <<"two">>>>, <<MaxBytes, <<"one">>>>}

BadParts == {<<MaxRows, <<"zero">>>>, <<MaxBytes, <<"x">>>>, <<<<"--", "all">>>>, <<MaxRows>>}

Selectors == {<<"s", ".", "t">>, <<".", "t">>, <<"s", ".", "t", ".", "u">>, <<"quote", "s", ".", "t">>, <<"s", "xff">>}

GoodSelector == <<"s", ".", "t">>

Files == {<<"f">>, <<"--", "f">>, <<"xff">>}

Operands1 == {<<f, GoodSelector>> : f \in Files} \cup {<<<<"f">>, s>> : s \in Selectors}
              \cup {<<<<"f">>>>, <<<<"f">>, GoodSelector, <<"c">>>>}

Operands2 == {<<f, GoodSelector, <<"c">>, <<"v">>>> : f \in Files}
               \cup {<<<<"f">>, s, <<"c">>, << >>>> : s \in Selectors}
               \cup {<<<<"f">>, GoodSelector, c, v>> : c, v \in {<< >>, <<"xff">>, Dashes, Unlimited}}
               \cup {<<<<"f">>, GoodSelector, <<"c">>>>, <<<<"f">>, GoodSelector, <<"c">>, <<"v">>, <<"w">>>>}

OptionLists == {s \o t \o u : s, t, u \in OptionParts} \cup {s \o t : s \in OptionParts, t \in BadParts}

SmallLines ==
  Lists
    \cup {<<<<"list">>, <<"f">>>>, <<<<"xff">>>>}
    \cup {<<<<"find">>>> \o o \o d \o x : o \in OptionLists, d \in {<< >>, <<Dashes>>}, x \in Operands2}
    \cup {<<<<"extract">>>> \o o \o d \o x : o \in OptionLists, d \in {<< >>, <<Dashes>>}, x \in Operands1}

=============================================================================
