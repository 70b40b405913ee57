------------------------- MODULE ArchiveMetadataProofs -------------------------
(* For every archive and all limits: what is kept stays within the cumulative limits,
   what is parsed is what was written, and a limit refuses an archive exactly if the
   archive exceeds it.                                                               *)
EXTENDS WrittenArchive, FiniteSetTheorems, TLAPS

(* What the reading keeps besides RetainedWithinLimits: the counters are numbers,
   the string being read has been found to have a length, and the outcome is still
   open as long as anything is read.                                               *)
MetadataInv ==
  /\ input \in Inputs /\ limits \in LimitSets
  /\ at \in Nat /\ listed \in Nat
  /\ string_bytes \in Nat /\ dependencies \in Nat /\ held \in Nat /\ kept \in Nat
  /\ pc \in {"field", "bytes", "stopped"}
  /\ pc # "stopped" => outcome = "reading"
  /\ pc = "stopped" => outcome # "reading"
  /\ pc = "bytes" => Item.n \in Nat

IInv == MetadataInv /\ RetainedWithinLimits

-----------------------------------------------------------------------------
(* An item of an archive has an integer. *)
LEMMA ItemsAreIntegers ==
  ASSUME input \in Inputs, at \in Nat, at < Len(input)
  PROVE  Item.n \in Int
<1>1. /\ input \in Seq({input[i] : i \in DOMAIN input})
      /\ \A i \in DOMAIN input : input[i].n \in Int
  BY MetadataAssumption
<1>2. at + 1 \in DOMAIN input
  BY <1>1
<1> QED
  BY <1>1, <1>2 DEF Item

(* Every limit is a number. *)
LEMMA LimitsAreNumbers ==
  ASSUME limits \in LimitSets
  PROVE  /\ limits.string \in Nat /\ limits.entries \in Nat /\ limits.per_entry \in Nat
         /\ limits.strings \in Nat /\ limits.dependencies \in Nat
         /\ U64Max \in Nat
  BY MetadataAssumption

(* An error leaves what has been charged and kept as it was. *)
LEMMA FailKeeps ==
  ASSUME NEW error, error \notin {"reading", "parsed"}, Fail(error), IInv
  PROVE  IInv'
<1>1. Pending \in Nat
  BY DEF IInv, MetadataInv, Pending
<1>2. MetadataInv'
  BY DEF IInv, MetadataInv, Fail, placeVars, budgetVars, keptVars
<1>3. RetainedWithinLimits'
  BY DEF IInv, RetainedWithinLimits, Fail, placeVars, budgetVars, keptVars
<1> QED
  BY <1>2, <1>3 DEF IInv

(* After a field the reading goes on with another, or is over. *)
LEMMA ContinueGoesOn ==
  ASSUME Continue, IInv, pc # "stopped"
  PROVE  /\ pc' \in {"field", "stopped"}
         /\ pc' = "field" => outcome' = "reading"
         /\ pc' = "stopped" => outcome' = "parsed"
  BY DEF Continue, IInv, MetadataInv

(* A field that is kept neither as a string nor as a dependency. *)
LEMMA PlainFieldKeeps ==
  ASSUME pc = "field", IInv, input' = input, limits' = limits, at' = at + 1,
         pc' \in {"field", "stopped"},
         pc' = "field" => outcome' = "reading",
         pc' = "stopped" => outcome' = "parsed",
         listed' \in {0, listed},
         UNCHANGED <<budgetVars, keptVars>>
  PROVE  IInv'
<1>1. MetadataInv'
  BY DEF IInv, MetadataInv, budgetVars, keptVars
<1>2. RetainedWithinLimits'
  BY LimitsAreNumbers DEF IInv, MetadataInv, RetainedWithinLimits, Pending, budgetVars, keptVars
<1> QED
  BY <1>1, <1>2 DEF IInv

-----------------------------------------------------------------------------
LEMMA InitInv == Init => IInv
<1> SUFFICES ASSUME Init PROVE IInv
  OBVIOUS
<1> QED
  BY LimitsAreNumbers DEF Init, IInv, MetadataInv, RetainedWithinLimits, Pending

LEMMA ReadValueKeeps == IInv /\ ReadValue => IInv'
<1> SUFFICES ASSUME IInv, ReadValue PROVE IInv'
  OBVIOUS
<1>1. CASE Fail("range") \/ Fail("value")
  BY <1>1, FailKeeps
<1>2. CASE /\ Accept(Value) /\ Continue
           /\ listed' = IF Field = "id" THEN 0 ELSE listed
           /\ UNCHANGED <<budgetVars, keptVars>>
  BY <1>2, ContinueGoesOn, PlainFieldKeeps DEF ReadValue, Accept
<1> QED
  BY <1>1, <1>2 DEF ReadValue

LEMMA ReadCountKeeps == IInv /\ ReadCount => IInv'
<1> SUFFICES ASSUME IInv, ReadCount PROVE IInv'
  OBVIOUS
<1>1. CASE \E error \in {"range", "value", "entries", "allocation"} : Fail(error)
  BY <1>1, FailKeeps
<1>2. CASE /\ Accept(Item.n)
           /\ UNCHANGED <<version, listed, budgetVars, keptVars>>
           /\ \/ pc' = "stopped" /\ outcome' = "parsed"
              \/ UNCHANGED <<pc, outcome>>
  <2>1. pc' \in {"field", "stopped"} /\ (pc' = "field" => outcome' = "reading")
                                    /\ (pc' = "stopped" => outcome' = "parsed")
    BY <1>2 DEF ReadCount, IInv, MetadataInv
  <2> QED
    BY <1>2, <2>1, PlainFieldKeeps DEF ReadCount, Accept
<1> QED
  BY <1>1, <1>2 DEF ReadCount

LEMMA ReadLocationKeeps == IInv /\ ReadLocation => IInv'
<1> SUFFICES ASSUME IInv, ReadLocation PROVE IInv'
  OBVIOUS
<1>1. CASE Fail("value")
  BY <1>1, FailKeeps
<1>2. CASE ~Fail("value")
  BY <1>2, ContinueGoesOn, PlainFieldKeeps DEF ReadLocation, Accept
<1> QED
  BY <1>1, <1>2

(* A string is charged before room is made for it, within both limits. *)
LEMMA ReadStringLengthKeeps == IInv /\ ReadStringLength => IInv'
<1> SUFFICES ASSUME IInv, ReadStringLength PROVE IInv'
  OBVIOUS
<1>1. CASE \E error \in {"range", "missing", "string", "overflow", "strings"} : Fail(error)
  BY <1>1, FailKeeps
<1>2. CASE /\ Accept("null") /\ Continue
           /\ UNCHANGED <<version, listed, budgetVars, keptVars>>
  BY <1>2, ContinueGoesOn, PlainFieldKeeps DEF ReadStringLength, Accept
<1>3. CASE /\ Item.n >= 0 /\ Charge /\ pc' = "bytes"
           /\ UNCHANGED <<input, limits, at, todo, outcome, parsed, placeVars, dependencies, keptVars>>
  <2>1. Item.n \in Nat
    BY <1>3, ItemsAreIntegers DEF ReadStringLength, IInv, MetadataInv
  <2>2. Item' = Item /\ Field' = Field
    BY <1>3 DEF Item, Field
  <2>3. pc = "field" /\ outcome = "reading" /\ string_bytes = held
    BY DEF ReadStringLength, IInv, MetadataInv, RetainedWithinLimits, Pending
  <2>4. string_bytes' = held' + Pending'
    BY <1>3, <2>1, <2>2, <2>3 DEF Charge, Pending, keptVars, IInv, MetadataInv
  <2>5. string_bytes' \in Nat /\ string_bytes' <= limits.strings /\ string_bytes' <= U64Max
    BY <1>3, <2>1, LimitsAreNumbers DEF Charge, StringCharge, ChargeError, IInv, MetadataInv, RetainedWithinLimits
  <2>6. MetadataInv'
    BY <1>3, <2>1, <2>2, <2>3, <2>5 DEF IInv, MetadataInv, placeVars, keptVars
  <2>7. RetainedWithinLimits'
    <3>1. held' <= string_bytes'
      BY <1>3, <2>1, <2>3 DEF Charge, keptVars, IInv, MetadataInv
    <3> QED
      BY <1>3, <2>3, <2>4, <2>5, <3>1 DEF IInv, RetainedWithinLimits, placeVars, keptVars
  <2> QED
    BY <2>6, <2>7 DEF IInv
<1> QED
  BY <1>1, <1>2, <1>3 DEF ReadStringLength, ReadNull, StringCharge, ChargeError

(* A string kept has the bytes that were charged for it. *)
LEMMA ReadStringKeeps == IInv /\ ReadString => IInv'
<1> SUFFICES ASSUME IInv, ReadString PROVE IInv'
  OBVIOUS
<1>1. CASE Fail("allocation")
  BY <1>1, FailKeeps
<1>2. CASE ~Fail("allocation")
  <2>1. /\ Accept(Item.content) /\ Continue /\ held' = held + Item.n
        /\ UNCHANGED <<version, listed, budgetVars, kept>>
    BY <1>2 DEF ReadString
  <2>2. Item.n \in Nat /\ string_bytes = held + Item.n
    BY DEF ReadString, IInv, MetadataInv, RetainedWithinLimits, Pending
  <2>3. /\ pc' \in {"field", "stopped"}
        /\ pc' = "field" => outcome' = "reading"
        /\ pc' = "stopped" => outcome' = "parsed"
    BY <2>1, ContinueGoesOn DEF ReadString
  <2>4. MetadataInv'
    BY <2>1, <2>2, <2>3 DEF IInv, MetadataInv, Accept, budgetVars
  <2>5. RetainedWithinLimits'
    BY <2>1, <2>2, <2>3 DEF IInv, MetadataInv, RetainedWithinLimits, Pending, Accept, budgetVars
  <2> QED
    BY <2>4, <2>5 DEF IInv
<1> QED
  BY <1>1, <1>2

(* A dependency kept has been charged, and the entry had room for it. *)
LEMMA ReadDependencyKeeps == IInv /\ ReadDependency => IInv'
<1> SUFFICES ASSUME IInv, ReadDependency PROVE IInv'
  OBVIOUS
<1>1. CASE \E error \in {"per_entry", "value", "overflow", "dependencies", "allocation"} : Fail(error)
  BY <1>1, FailKeeps
<1>2. CASE /\ ~ListIsFull /\ DependencyCharge = "none"
           /\ Accept(Item.content) /\ pc' = "field"
           /\ dependencies' = dependencies + 1 /\ kept' = kept + 1 /\ listed' = listed + 1
           /\ UNCHANGED <<version, todo, left, outcome, string_bytes, held>>
  <2>1. outcome = "reading" /\ string_bytes = held
    BY DEF ReadDependency, Retained, RequiredStrings, OptionalStrings, IInv, MetadataInv,
           RetainedWithinLimits, Pending
  <2>2. MetadataInv'
    BY <1>2, <2>1 DEF IInv, MetadataInv, Accept
  <2>3. dependencies' <= limits.dependencies /\ listed' <= limits.per_entry
    BY <1>2, LimitsAreNumbers DEF DependencyCharge, ChargeError, ListIsFull, IInv, MetadataInv
  <2>4. RetainedWithinLimits'
    BY <1>2, <2>1, <2>3 DEF IInv, MetadataInv, RetainedWithinLimits, Pending, Accept
  <2> QED
    BY <2>2, <2>4 DEF IInv
<1> QED
  BY <1>1, <1>2 DEF ReadDependency, DependencyCharge, ChargeError

LEMMA NextInv == IInv /\ [Next]_vars => IInv'
<1> SUFFICES ASSUME IInv, [Next]_vars PROVE IInv'
  OBVIOUS
<1>1. CASE InputEnds \/ InputFails
  BY <1>1, FailKeeps DEF InputEnds, InputFails
<1>2. CASE UNCHANGED vars
  <2>1. MetadataInv'
    BY <1>2 DEF IInv, MetadataInv, vars, Item
  <2>2. RetainedWithinLimits'
    BY <1>2 DEF IInv, RetainedWithinLimits, vars, Pending, Item, Field
  <2> QED
    BY <2>1, <2>2 DEF IInv
<1> QED
  BY <1>1, <1>2, ReadValueKeeps, ReadCountKeeps, ReadLocationKeeps, ReadStringLengthKeeps,
     ReadStringKeeps, ReadDependencyKeeps DEF Next

(* Whatever the archive says and whatever the limits are, the strings and the
   dependencies kept are those charged, and never more than the cumulative limits
   and the limit of one entry allow.                                              *)
THEOREM RetentionIsBounded == Spec => []RetainedWithinLimits
<1>1. IInv => RetainedWithinLimits
  BY DEF IInv
<1> QED
  BY InitInv, NextInv, <1>1, PTL DEF Spec

-----------------------------------------------------------------------------
FieldNames == {
  "magic", "version", "integer_size", "offset_size", "format", "compression", "created_at",
  "database_name", "server_version", "dump_version", "count", "id", "has_data", "catalog_table_oid",
  "catalog_oid", "name", "description", "section", "definition", "drop_statement", "copy_statement",
  "namespace", "tablespace", "table_access_method", "relation_kind", "owner", "with_oids",
  "dependency", "location"}

(* The header is read as it is written. *)
LEMMA HeaderIs ==
  /\ HeaderFields = Header /\ Header \in Seq(FieldNames) /\ Len(Header) = 17
  /\ Header[17] = "count"
  /\ \A i \in 1 .. 17 : (Header[i] = "version" <=> i = 2) /\ (Header[i] = "count" <=> i = 17)
                        /\ Header[i] \notin {"id", "dependency", "location"}
BY DEF HeaderFields, Header, FieldNames

(* The leading fields of an entry: none of them could be taken for the end of a list. *)
LEMMA LeadingIs ==
  ASSUME NEW v \in 14 .. 16
  PROVE  /\ Leading(v) \in Seq(FieldNames) /\ Len(Leading(v)) \in 15 .. 16
         /\ \A i \in DOMAIN Leading(v) : Leading(v)[i] \notin {"dependency", "location", "count", "version"}
                                         /\ (Leading(v)[i] = "id" <=> i = 1)
<1>1. CASE v = 16
  BY <1>1 DEF Leading, FieldNames
<1>2. CASE v # 16
  BY <1>2 DEF Leading, FieldNames
<1> QED
  BY <1>1, <1>2

(* Three parts of a sequence put together. *)
LEMMA Joined ==
  ASSUME NEW S, NEW a \in Seq(S), NEW b \in Seq(S), NEW c \in Seq(S)
  PROVE  /\ a \o b \o c \in Seq(S) /\ Len(a \o b \o c) = Len(a) + Len(b) + Len(c)
         /\ \A i \in 1 .. Len(a) : (a \o b \o c)[i] = a[i]
         /\ \A i \in 1 .. Len(b) : (a \o b \o c)[Len(a) + i] = b[i]
         /\ \A i \in 1 .. Len(c) : (a \o b \o c)[Len(a) + Len(b) + i] = c[i]
OBVIOUS

(* An entry is read as it is written, in each version. *)
LEMMA EntryIs ==
  ASSUME NEW v \in 14 .. 16
  PROVE  /\ EntryFields(v) \in Seq(FieldNames) /\ Len(EntryFields(v)) = Len(Leading(v)) + 2
         /\ \A i \in DOMAIN Leading(v) : EntryFields(v)[i] = Leading(v)[i]
         /\ EntryFields(v)[Len(Leading(v)) + 1] = "dependency"
         /\ EntryFields(v)[Len(Leading(v)) + 2] = "location"
<1> DEFINE a == <<"id", "has_data", "catalog_table_oid", "catalog_oid", "name", "description", "section",
                  "definition", "drop_statement", "copy_statement", "namespace", "tablespace", "table_access_method">>
           b == RelationKind(v)
           c == <<"owner", "with_oids", "dependency", "location">>
           e == EntryFields(v)
<1>1. e = a \o b \o c
  BY DEF EntryFields
<1>2. /\ a \in Seq(FieldNames) /\ Len(a) = 13
      /\ c \in Seq(FieldNames) /\ Len(c) = 4
  BY DEF FieldNames
<1>3. b \in Seq(FieldNames) /\ (v = 16 => Len(b) = 1 /\ b[1] = "relation_kind") /\ (v # 16 => Len(b) = 0)
  <2>1. CASE v = 16
    <3>1. b = <<"relation_kind">>
      BY <2>1 DEF RelationKind
    <3>2. "relation_kind" \in FieldNames
      BY DEF FieldNames
    <3> HIDE DEF b
    <3> QED
      BY <2>1, <3>1, <3>2
  <2>2. CASE v # 16
    <3>1. b = << >>
      BY <2>2 DEF RelationKind
    <3> QED
      BY <2>2, <3>1
  <2> QED
    BY <2>1, <2>2
<1>4. c[1] = "owner" /\ c[2] = "with_oids" /\ c[3] = "dependency" /\ c[4] = "location"
  OBVIOUS
<1>5. /\ \A i \in 1 .. 13 : Leading(v)[i] = a[i]
      /\ v = 16 => Len(Leading(v)) = 16 /\ Leading(v)[14] = "relation_kind"
                   /\ Leading(v)[15] = "owner" /\ Leading(v)[16] = "with_oids"
      /\ v # 16 => Len(Leading(v)) = 15 /\ Leading(v)[14] = "owner" /\ Leading(v)[15] = "with_oids"
  <2>1. CASE v = 16
    <3>1. Leading(v) = <<"id", "has_data", "catalog_table_oid", "catalog_oid", "name", "description", "section",
                         "definition", "drop_statement", "copy_statement", "namespace", "tablespace",
                         "table_access_method", "relation_kind", "owner", "with_oids">>
      BY <2>1 DEF Leading
    <3> QED
      BY <2>1, <3>1
  <2>2. CASE v # 16
    <3>1. Leading(v) = <<"id", "has_data", "catalog_table_oid", "catalog_oid", "name", "description", "section",
                         "definition", "drop_statement", "copy_statement", "namespace", "tablespace",
                         "table_access_method", "owner", "with_oids">>
      BY <2>2 DEF Leading
    <3> QED
      BY <2>2, <3>1
  <2> QED
    BY <2>1, <2>2
<1>6. DOMAIN Leading(v) = 1 .. Len(Leading(v))
  BY LeadingIs
<1> HIDE DEF a, b, c, e
<1>7. /\ e \in Seq(FieldNames) /\ Len(e) = Len(a) + Len(b) + Len(c)
      /\ \A i \in 1 .. Len(a) : e[i] = a[i]
      /\ \A i \in 1 .. Len(b) : e[Len(a) + i] = b[i]
      /\ \A i \in 1 .. Len(c) : e[Len(a) + Len(b) + i] = c[i]
  <2>1. /\ a \o b \o c \in Seq(FieldNames) /\ Len(a \o b \o c) = Len(a) + Len(b) + Len(c)
        /\ \A i \in 1 .. Len(a) : (a \o b \o c)[i] = a[i]
        /\ \A i \in 1 .. Len(b) : (a \o b \o c)[Len(a) + i] = b[i]
        /\ \A i \in 1 .. Len(c) : (a \o b \o c)[Len(a) + Len(b) + i] = c[i]
    <3>1. a \in Seq(FieldNames) /\ b \in Seq(FieldNames) /\ c \in Seq(FieldNames)
      BY <1>2, <1>3
    <3> QED
      BY ONLY <3>1, Joined
  <2> QED
    BY <1>1, <2>1
<1> DEFINE p == Len(Leading(v))
<1>10. /\ v = 16 => p = 16 /\ Len(e) = 18
       /\ v # 16 => p = 15 /\ Len(e) = 17
       /\ p \in Nat /\ Len(e) \in Nat
  <2>1. Len(a) = 13 /\ Len(c) = 4 /\ (v = 16 => Len(b) = 1) /\ (v # 16 => Len(b) = 0)
    BY <1>2, <1>3
  <2>2. Len(e) = Len(a) + Len(b) + Len(c)
    BY <1>7
  <2>3. CASE v = 16
    <3>1. Len(Leading(v)) = 16 /\ Len(a) = 13 /\ Len(b) = 1 /\ Len(c) = 4
      BY <1>5, <2>1, <2>3
    <3> QED
      BY <2>2, <2>3, <3>1
  <2>4. CASE v # 16
    <3>1. Len(Leading(v)) = 15 /\ Len(a) = 13 /\ Len(b) = 0 /\ Len(c) = 4
      BY <1>5, <2>1, <2>4
    <3> QED
      BY <2>2, <2>4, <3>1
  <2> QED
    BY <2>3, <2>4
<1> HIDE DEF p
<1> SUFFICES /\ \A i \in 1 .. p : e[i] = Leading(v)[i]
             /\ e[p + 1] = "dependency" /\ e[p + 2] = "location"
  <2>1. e \in Seq(FieldNames) /\ Len(e) = p + 2
    <3>1. e \in Seq(FieldNames)
      BY <1>7
    <3>2. CASE v = 16
      BY <1>10, <3>1, <3>2
    <3>3. CASE v # 16
      BY <1>10, <3>1, <3>3
    <3> QED
      BY <3>2, <3>3
  <2> QED
    BY <1>6, <2>1 DEF e, p
<1>11. \A i \in 1 .. 13 : e[i] = Leading(v)[i]
  BY <1>2, <1>5, <1>7
<1>8. CASE v = 16
  <2>1. e[14] = "relation_kind" /\ e[15] = "owner" /\ e[16] = "with_oids" /\ e[17] = "dependency" /\ e[18] = "location"
    <3>1. e[Len(a) + Len(b) + 1] = c[1] /\ e[Len(a) + Len(b) + 2] = c[2]
          /\ e[Len(a) + Len(b) + 3] = c[3] /\ e[Len(a) + Len(b) + 4] = c[4]
      BY <1>2, <1>7
    <3>2. Len(a) = 13 /\ Len(b) = 1
      BY <1>2, <1>3, <1>8
    <3> QED
      BY <1>3, <1>7, <1>8, <1>4, <3>1, <3>2
  <2>2. \A i \in 1 .. 16 : i \in 1 .. 13 \/ i = 14 \/ i = 15 \/ i = 16
    OBVIOUS
  <2> QED
    <3>1. p = 16
      BY <1>8, <1>10
    <3>2. \A i \in 1 .. 16 : e[i] = Leading(v)[i]
      BY <1>5, <1>8, <1>11, <2>1, <2>2
    <3> QED
      BY <2>1, <3>1, <3>2
<1>9. CASE v # 16
  <2>1. e[14] = "owner" /\ e[15] = "with_oids" /\ e[16] = "dependency" /\ e[17] = "location"
    <3>1. e[Len(a) + Len(b) + 1] = c[1] /\ e[Len(a) + Len(b) + 2] = c[2]
          /\ e[Len(a) + Len(b) + 3] = c[3] /\ e[Len(a) + Len(b) + 4] = c[4]
      BY <1>2, <1>7
    <3>2. Len(a) = 13 /\ Len(b) = 0
      BY <1>2, <1>3, <1>9
    <3> QED
      BY <1>4, <3>1, <3>2
  <2>2. \A i \in 1 .. 15 : i \in 1 .. 13 \/ i = 14 \/ i = 15
    OBVIOUS
  <2> QED
    <3>1. p = 15
      BY <1>9, <1>10
    <3>2. \A i \in 1 .. 15 : e[i] = Leading(v)[i]
      BY <1>5, <1>9, <1>11, <2>1, <2>2
    <3> QED
      BY <2>1, <3>1, <3>2
<1> QED
  BY <1>8, <1>9

(* A written archive, item by item. *)
LEMMA ArchiveIs ==
  ASSUME NEW w \in Archives
  PROVE  /\ w \in Seq({w[i] : i \in DOMAIN w}) /\ Len(w) \in Nat /\ Len(w) >= 17 /\ DOMAIN w = 1 .. Len(w)
         /\ w[2].n \in 14 .. 16
         /\ \A i \in 1 .. Len(w) : w[i].n \in Int /\ IsNoted(w[2].n, w[i])
         /\ \A i \in 1 .. 17 : NameOf(w[i]) = Header[i]
         /\ \A i \in Ends(w) : i \in 17 .. Len(w) /\ (i # 17 => NameOf(w[i]) = "location")
         /\ 17 \in Ends(w)
         /\ \A i \in 1 .. Len(w) : NameOf(w[i]) = "location" => i \in Ends(w)
         /\ \A i \in Ends(w) : i = Len(w) \/ \E j \in Ends(w) : IsEntry(w[2].n, w, i, j)
         /\ Cardinality(Ends(w)) = w[17].n + 1
         /\ IsFiniteSet(Ends(w))
<1>1. IsArchive(w) /\ Len(Header) = 17
  BY ArchivesAreWritten, HeaderIs
<1>2. w \in Seq({w[i] : i \in DOMAIN w})
  BY <1>1 DEF IsArchive
<1>3. Len(w) \in Nat /\ DOMAIN w = 1 .. Len(w)
  BY <1>2
<1>4. Len(w) >= 17 /\ w[2].n \in 14 .. 16 /\ Cardinality(Ends(w)) = w[17].n + 1
      /\ \A i \in Ends(w) : i = Len(w) \/ \E j \in Ends(w) : IsEntry(w[2].n, w, i, j)
  BY <1>1 DEF IsArchive
<1>5. \A i \in 1 .. Len(w) : w[i].n \in Int /\ IsNoted(w[2].n, w[i])
  <2> SUFFICES ASSUME NEW i \in 1 .. Len(w) PROVE w[i].n \in Int /\ IsNoted(w[2].n, w[i])
    OBVIOUS
  <2>1. IsNoted(w[2].n, w[i])
    BY <1>1, <1>3 DEF IsArchive
  <2>2. MaxInt \in Nat
    BY MetadataAssumption
  <2>3. w[i].n \in -(MaxInt + 1) .. MaxInt
    BY <2>1 DEF IsNoted, IsLegal
  <2>4. w[i].n \in Int
    BY <2>2, <2>3
  <2> QED
    BY <2>1, <2>4
<1>6. \A i \in 1 .. 17 : NameOf(w[i]) = Header[i]
  <2>1. DOMAIN Header = 1 .. 17
    BY HeaderIs
  <2>2. \A i \in DOMAIN Header : NameOf(w[i]) = Header[i]
    BY <1>1 DEF IsArchive
  <2> QED
    BY <2>1, <2>2
<1>7. \A i \in Ends(w) : i \in 17 .. Len(w) /\ (i # 17 => NameOf(w[i]) = "location")
  <2> SUFFICES ASSUME NEW i \in Ends(w), i # 17
               PROVE  i \in 17 .. Len(w) /\ NameOf(w[i]) = "location"
    BY <1>3, <1>4
  <2>1. i \in 1 .. Len(w) /\ NameOf(w[i]) = "location"
    BY <1>1, <1>3 DEF Ends
  <2>2. i \notin 1 .. 17
    BY <1>6, <2>1, HeaderIs
  <2> QED
    BY <1>3, <2>1, <2>2
<1>8. IsFiniteSet(Ends(w))
  <2>1. IsFiniteSet(17 .. Len(w))
    BY <1>3, FS_Interval
  <2>2. Ends(w) \in SUBSET (17 .. Len(w))
    BY <1>7
  <2> QED
    BY <2>1, <2>2, FS_Subset
<1>9. 17 \in Ends(w) /\ \A i \in 1 .. Len(w) : NameOf(w[i]) = "location" => i \in Ends(w)
  BY <1>1, <1>3 DEF Ends
<1> QED
  BY <1>2, <1>3, <1>4, <1>5, <1>6, <1>7, <1>8, <1>9

(* An entry, and that no other ends inside it. *)
LEMMA EntryOfArchive ==
  ASSUME NEW w \in Archives, NEW i \in Ends(w), NEW j \in Ends(w), IsEntry(w[2].n, w, i, j)
  PROVE  LET p == Len(Leading(w[2].n))
         IN  /\ p \in 15 .. 16 /\ i + p + 2 <= j /\ j <= Len(w)
             /\ \A k \in 1 .. p : NameOf(w[i + k]) = Leading(w[2].n)[k]
             /\ \A k \in i + p + 1 .. j - 1 : NameOf(w[k]) = "dependency" /\ (w[k].n < 0 <=> k = j - 1)
             /\ NameOf(w[j]) = "location"
             /\ \A x \in Ends(w) : x <= i \/ j <= x
<1> DEFINE p == Len(Leading(w[2].n))
<1>1. /\ w[2].n \in 14 .. 16 /\ Len(w) \in Nat
      /\ \A x \in Ends(w) : x \in 17 .. Len(w) /\ (x # 17 => NameOf(w[x]) = "location")
  BY ArchiveIs
<1>2. p \in 15 .. 16 /\ DOMAIN Leading(w[2].n) = 1 .. p
      /\ \A k \in 1 .. p : Leading(w[2].n)[k] # "location"
  BY <1>1, LeadingIs
<1>3. /\ i + p + 2 <= j
      /\ \A k \in 1 .. p : NameOf(w[i + k]) = Leading(w[2].n)[k]
      /\ \A k \in i + p + 1 .. j - 1 : NameOf(w[k]) = "dependency" /\ (w[k].n < 0 <=> k = j - 1)
      /\ NameOf(w[j]) = "location"
  BY <1>2 DEF IsEntry
<1> HIDE DEF p
<1>4. ASSUME NEW x \in Ends(w), i < x, x < j PROVE FALSE
  <2>1. x \in Int /\ i \in Int /\ j \in Int /\ x # 17
    BY <1>1, <1>4
  <2>2. NameOf(w[x]) = "location"
    BY <1>1, <2>1
  <2>3. CASE x <= i + p
    <3>1. x - i \in 1 .. p /\ x = i + (x - i)
      BY <1>2, <1>4, <2>1, <2>3
    <3> QED
      BY <1>2, <1>3, <2>2, <3>1
  <2>4. CASE x > i + p
    <3>1. x \in i + p + 1 .. j - 1
      BY <1>2, <1>4, <2>1, <2>4
    <3> QED
      BY <1>3, <2>2, <3>1
  <2> QED
    BY <1>2, <2>1, <2>3, <2>4
<1>5. \A x \in Ends(w) : x <= i \/ j <= x
  BY <1>1, <1>4
<1>6. j <= Len(w)
  BY <1>1
<1> QED
  BY <1>2, <1>3, <1>5, <1>6 DEF p

(* The numbers of a written archive. *)
LEMMA ArchiveNumbers ==
  ASSUME NEW w \in Archives
  PROVE  /\ w[17].n \in Int
         /\ \A i \in 1 .. Len(w) : w[i].n \in Int
         /\ \A i \in Ends(w) : i \in Int
         /\ Len(Leading(w[2].n)) \in Int
<1>1. /\ Len(w) \in Nat /\ Len(w) >= 17 /\ w[2].n \in 14 .. 16
      /\ \A i \in 1 .. Len(w) : w[i].n \in Int
      /\ \A i \in Ends(w) : i \in 17 .. Len(w)
  BY ArchiveIs
<1>2. 17 \in 1 .. Len(w) /\ \A i \in Ends(w) : i \in Int
  BY <1>1
<1>3. Len(Leading(w[2].n)) \in 15 .. 16
  BY <1>1, LeadingIs
<1>4. Len(Leading(w[2].n)) \in Int
  BY <1>3
<1> QED
  BY <1>1, <1>2, <1>4

-----------------------------------------------------------------------------
EndsTo(w, e) == {x \in Ends(w) : x <= e}

(* The item of the last leading field of the entry after e. *)
Body(w, e) == e + Len(Leading(w[2].n))

InHeader ==
  /\ at < 17 /\ Len(todo) = 17 - at
  /\ \A m \in 1 .. Len(todo) : todo[m] = Header[at + m]

InLeading(w, e) ==
  /\ e <= at /\ at < Body(w, e)
  /\ Len(todo) = Body(w, e) + 2 - at
  /\ \A m \in 1 .. Len(todo) : todo[m] = EntryFields(w[2].n)[(at - e) + m]
  /\ at # e => listed = 0

InList(w, e, j) ==
  /\ Body(w, e) <= at /\ at < j - 1
  /\ todo = <<"dependency", "location">>
  /\ listed = at - Body(w, e)

AtLocation(j) == at = j - 1 /\ todo = <<"location">>

(* The entries that are left are those w has after e, if their number is the one w has. *)
Counted(w, e) == input[17] = w[17] => left + Cardinality(EndsTo(w, e)) = w[17].n

InEntry(w, e, j) ==
  /\ e \in Ends(w) /\ j \in Ends(w) /\ IsEntry(w[2].n, w, e, j)
  /\ Counted(w, e)
  /\ InLeading(w, e) \/ InList(w, e, j) \/ AtLocation(j)

AtEnd(w) == at = Len(w) /\ Counted(w, at)

(* Where the reading stands in w. *)
Stands(w) == InHeader \/ (\E e, j \in Ends(w) : InEntry(w, e, j)) \/ AtEnd(w)

(* A written archive that has been read as far as it is undamaged. *)
Following(w) ==
  /\ todo \in Seq(FieldNames) /\ at \in Nat /\ listed \in Nat /\ left \in Nat
  /\ DOMAIN input = 1 .. Len(input) /\ Len(input) \in Nat
  /\ at <= Len(input) /\ Len(input) <= Len(w)
  /\ at >= 2 => version = w[2].n
  /\ Stands(w)

(* The next field is the one the archive has there. *)
LEMMA FieldInHeader ==
  ASSUME NEW w \in Archives, Following(w), InHeader
  PROVE  /\ at + 1 \in 1 .. 17 /\ todo \in Seq(FieldNames) /\ todo # << >>
         /\ Field = Header[at + 1] /\ Field = NameOf(w[at + 1])
         /\ Field \notin {"id", "dependency", "location"}
         /\ Field = "version" <=> at = 1
         /\ Field = "count" <=> at = 16
<1>1. at \in Nat /\ at < 17 /\ todo \in Seq(FieldNames) /\ Len(todo) = 17 - at
      /\ \A m \in 1 .. Len(todo) : todo[m] = Header[at + m]
  BY DEF Following, InHeader
<1>2. Len(todo) >= 1 /\ todo # << >> /\ Field = todo[1]
  BY <1>1 DEF Field
<1>3. Field = Header[at + 1] /\ at + 1 \in 1 .. 17
  BY <1>1, <1>2
<1>4. Field = NameOf(w[at + 1])
  BY <1>3, ArchiveIs
<1>5. /\ Field \notin {"id", "dependency", "location"}
      /\ Field = "version" <=> at + 1 = 2
      /\ Field = "count" <=> at + 1 = 17
  BY <1>3, HeaderIs
<1> QED
  BY <1>1, <1>2, <1>3, <1>4, <1>5

(* The same of the leading fields of an entry. *)
LEMMA FieldInLeading ==
  ASSUME NEW w \in Archives, NEW e, NEW j, Following(w), InEntry(w, e, j), InLeading(w, e)
  PROVE  /\ at + 1 \in 18 .. Len(w) /\ todo \in Seq(FieldNames) /\ Len(todo) > 2
         /\ Field = NameOf(w[at + 1])
         /\ Field \notin {"dependency", "location", "count", "version"}
         /\ Field = "id" <=> at = e
<1> DEFINE v == w[2].n
           p == Len(Leading(v))
<1>0. v \in 14 .. 16 => DOMAIN Leading(v) = 1 .. p
  BY LeadingIs
<1>1. e \in Ends(w) /\ j \in Ends(w) /\ IsEntry(v, w, e, j)
  BY DEF InEntry
<1>2. e \in 17 .. Len(w) /\ j \in 17 .. Len(w) /\ v \in 14 .. 16 /\ Len(w) \in Nat
  BY <1>1, ArchiveIs
<1>3. /\ p \in 15 .. 16 /\ e + p + 2 <= j /\ j <= Len(w)
      /\ \A k \in 1 .. p : NameOf(w[e + k]) = Leading(v)[k]
  BY <1>1, EntryOfArchive
<1>4. /\ DOMAIN Leading(v) = 1 .. p
      /\ \A i \in 1 .. p : EntryFields(v)[i] = Leading(v)[i]
      /\ \A i \in 1 .. p : Leading(v)[i] \notin {"dependency", "location", "count", "version"}
                           /\ (Leading(v)[i] = "id" <=> i = 1)
  BY <1>0, <1>2, LeadingIs, EntryIs
<1>5. /\ at \in Nat /\ todo \in Seq(FieldNames)
      /\ e <= at /\ at < e + p /\ Len(todo) = e + p + 2 - at
      /\ \A m \in 1 .. Len(todo) : todo[m] = EntryFields(v)[(at - e) + m]
  BY DEF Following, InLeading, Body
<1> HIDE DEF v, p
<1>6. Len(todo) > 2 /\ Field = todo[1] /\ (at - e) + 1 \in 1 .. p /\ at + 1 \in 18 .. Len(w)
  <2>1. Field = todo[1]
    BY DEF Field
  <2>2. e \in Nat /\ p \in Nat /\ at \in Nat /\ j \in Int /\ Len(todo) > 2
    BY <1>2, <1>3, <1>5
  <2> QED
    BY <1>2, <1>3, <1>5, <2>1, <2>2
<1>7. Field = Leading(v)[(at - e) + 1] /\ at + 1 = e + ((at - e) + 1)
  BY <1>2, <1>4, <1>5, <1>6
<1>8. Field = NameOf(w[at + 1])
  BY <1>3, <1>6, <1>7
<1>9. (at - e) + 1 = 1 <=> at = e
  BY <1>2, <1>5
<1> QED
  BY <1>4, <1>5, <1>6, <1>7, <1>8, <1>9

(* The same of its list of dependencies, which a NULL ends. *)
LEMMA FieldInList ==
  ASSUME NEW w \in Archives, NEW e, NEW j, Following(w), InEntry(w, e, j), InList(w, e, j)
  PROVE  /\ at + 1 \in 18 .. Len(w) /\ todo = <<"dependency", "location">>
         /\ Field = "dependency" /\ Field = NameOf(w[at + 1])
         /\ (w[at + 1].n < 0 <=> at + 1 = j - 1)
<1> DEFINE p == Len(Leading(w[2].n))
<1>1. e \in Ends(w) /\ j \in Ends(w) /\ IsEntry(w[2].n, w, e, j)
  BY DEF InEntry
<1>2. e \in 17 .. Len(w) /\ Len(w) \in Nat /\ j \in 17 .. Len(w)
  BY <1>1, ArchiveIs
<1>3. /\ p \in 15 .. 16 /\ e + p + 2 <= j /\ j <= Len(w)
      /\ \A k \in e + p + 1 .. j - 1 : NameOf(w[k]) = "dependency" /\ (w[k].n < 0 <=> k = j - 1)
  BY <1>1, EntryOfArchive
<1>4. at \in Nat /\ e + p <= at /\ at < j - 1 /\ todo = <<"dependency", "location">>
  BY DEF Following, InList, Body
<1> HIDE DEF p
<1>5. at + 1 \in 18 .. Len(w) /\ at + 1 \in e + p + 1 .. j - 1
  BY <1>2, <1>3, <1>4
<1>6. Field = "dependency"
  BY <1>4 DEF Field
<1> QED
  BY <1>3, <1>4, <1>5, <1>6

(* The same of where its data is. *)
LEMMA FieldAtLocation ==
  ASSUME NEW w \in Archives, NEW e, NEW j, Following(w), InEntry(w, e, j), AtLocation(j)
  PROVE  /\ at + 1 \in 18 .. Len(w) /\ at + 1 = j /\ todo = <<"location">>
         /\ Field = "location" /\ Field = NameOf(w[at + 1])
<1>1. e \in Ends(w) /\ j \in Ends(w) /\ IsEntry(w[2].n, w, e, j)
  BY DEF InEntry
<1>2. e \in 17 .. Len(w) /\ Len(w) \in Nat /\ j \in 17 .. Len(w)
  BY <1>1, ArchiveIs
<1>3. NameOf(w[j]) = "location" /\ e + 17 <= j
  <2> DEFINE p == Len(Leading(w[2].n))
  <2>1. p \in 15 .. 16 /\ e + p + 2 <= j /\ NameOf(w[j]) = "location"
    BY <1>1, EntryOfArchive
  <2> HIDE DEF p
  <2> QED
    BY <1>2, <2>1
<1>4. at \in Nat /\ at = j - 1 /\ todo = <<"location">>
  BY DEF Following, AtLocation
<1>5. Field = "location"
  BY <1>4 DEF Field
<1> QED
  BY <1>2, <1>3, <1>4, <1>5

(* At the end of a written archive there is nothing to read. *)
LEMMA NotAtEnd ==
  ASSUME NEW w \in Archives, Following(w), at < Len(input)
  PROVE  at < Len(w) /\ at + 1 \in 1 .. Len(w) /\ (InHeader \/ \E e, j \in Ends(w) : InEntry(w, e, j))
<1>1. Len(input) \in Nat /\ Len(w) \in Nat /\ at \in Nat
  BY ArchiveIs DEF Following
<1> QED
  BY <1>1 DEF Following, Stands, AtEnd

(* Wherever the reading stands, its field is the one the archive has there. *)
LEMMA FieldIs ==
  ASSUME NEW w \in Archives, Following(w), at < Len(input)
  PROVE  at + 1 \in 1 .. Len(w) /\ Field = NameOf(w[at + 1]) /\ todo # << >> /\ Field \in FieldNames
<1>1. at + 1 \in 1 .. Len(w) /\ todo \in Seq(FieldNames)
  BY NotAtEnd DEF Following
<1>2. CASE InHeader
  BY <1>1, <1>2, FieldInHeader DEF Field
<1>3. ASSUME NEW e \in Ends(w), NEW j \in Ends(w), InEntry(w, e, j)
      PROVE  Field = NameOf(w[at + 1]) /\ todo # << >> /\ Field \in FieldNames
  <2>1. CASE InLeading(w, e)
    BY <1>3, <2>1, FieldInLeading DEF Field
  <2>2. CASE InList(w, e, j)
    BY <1>1, <1>3, <2>2, FieldInList DEF Field
  <2>3. CASE AtLocation(j)
    BY <1>1, <1>3, <2>3, FieldAtLocation DEF Field
  <2> QED
    BY <1>3, <2>1, <2>2, <2>3 DEF InEntry
<1> QED
  BY <1>1, <1>2, <1>3, NotAtEnd

(* Ends up to one are counted one by one. *)
LEMMA EndsAreCounted ==
  ASSUME NEW w \in Archives, NEW e \in Ends(w)
  PROVE  /\ IsFiniteSet(EndsTo(w, e)) /\ Cardinality(EndsTo(w, e)) \in Nat
         /\ EndsTo(w, 17) = {17} /\ Cardinality(EndsTo(w, 17)) = 1
         /\ \A j \in Ends(w) : IsEntry(w[2].n, w, e, j) =>
              Cardinality(EndsTo(w, j)) = Cardinality(EndsTo(w, e)) + 1
         /\ Cardinality(EndsTo(w, e)) = w[17].n + 1 => e = Len(w)
         /\ Cardinality(EndsTo(w, Len(w))) = w[17].n + 1
<1>1. /\ Len(w) \in Nat /\ IsFiniteSet(Ends(w)) /\ 17 \in Ends(w)
      /\ \A i \in Ends(w) : i \in 17 .. Len(w)
      /\ \A i \in Ends(w) : i = Len(w) \/ \E j \in Ends(w) : IsEntry(w[2].n, w, i, j)
      /\ Cardinality(Ends(w)) = w[17].n + 1
  BY ArchiveIs
<1>2. \A i : EndsTo(w, i) \in SUBSET Ends(w)
  BY DEF EndsTo
<1>3. IsFiniteSet(EndsTo(w, e)) /\ Cardinality(EndsTo(w, e)) \in Nat
  BY <1>1, <1>2, FS_Subset, FS_CardinalityType
<1>4. EndsTo(w, 17) = {17}
  BY <1>1 DEF EndsTo
<1>5. ASSUME NEW j \in Ends(w), IsEntry(w[2].n, w, e, j)
      PROVE  e < j /\ Cardinality(EndsTo(w, j)) = Cardinality(EndsTo(w, e)) + 1
  <2> DEFINE p == Len(Leading(w[2].n))
  <2>1. p \in 15 .. 16 /\ e + p + 2 <= j /\ \A x \in Ends(w) : x <= e \/ j <= x
    BY <1>5, EntryOfArchive
  <2> HIDE DEF p
  <2>2. e \in Int /\ j \in Int /\ e < j
    BY <1>1, <2>1
  <2>3. EndsTo(w, j) = EndsTo(w, e) \cup {j} /\ j \notin EndsTo(w, e)
    <3>1. \A x \in Ends(w) : x <= j <=> x <= e \/ x = j
      <4> TAKE x \in Ends(w)
      <4>1. x \in Int /\ (x <= e \/ j <= x)
        BY <2>1, ArchiveNumbers
      <4> QED
        BY <2>2, <4>1
    <3>2. j \in EndsTo(w, j) /\ j \notin EndsTo(w, e)
      BY <2>2 DEF EndsTo
    <3>3. \A x \in Ends(w) : x \in EndsTo(w, j) <=> x \in EndsTo(w, e) \cup {j}
      BY <3>1 DEF EndsTo
    <3>4. EndsTo(w, j) \subseteq Ends(w) /\ EndsTo(w, e) \subseteq Ends(w)
      BY <1>2
    <3> QED
      BY <3>2, <3>3, <3>4
  <2> QED
    BY <1>3, <2>2, <2>3, FS_AddElement
<1>6. ASSUME Cardinality(EndsTo(w, e)) = w[17].n + 1 PROVE e = Len(w)
  <2>1. EndsTo(w, e) = Ends(w)
    BY <1>1, <1>2, <1>6, FS_Subset
  <2>2. \A j \in Ends(w) : j <= e /\ j \in Int /\ e \in Int
    BY <1>1, <2>1 DEF EndsTo
  <2> QED
    BY <1>1, <1>5, <2>2
<1>7. EndsTo(w, Len(w)) = Ends(w)
  BY <1>1 DEF EndsTo
<1> QED
  BY <1>1, <1>3, <1>4, <1>5, <1>6, <1>7, FS_Singleton

(* An entry begins where another or the header has ended. *)
LEMMA EntryBegins ==
  ASSUME NEW w \in Archives, NEW e \in Ends(w), at' = e, todo' = EntryFields(w[2].n), Counted(w, e)'
  PROVE  todo' \in Seq(FieldNames) /\ Stands(w)'
<1> DEFINE v == w[2].n
           p == Len(Leading(v))
           f == EntryFields(v)
<1>1. v \in 14 .. 16 /\ Len(w) \in Nat /\ e \in 17 .. Len(w)
      /\ (e = Len(w) \/ \E j \in Ends(w) : IsEntry(v, w, e, j))
  BY ArchiveIs
<1>2. f \in Seq(FieldNames) /\ Len(f) = p + 2
  BY <1>1, EntryIs
<1>3. p \in 15 .. 16
  BY <1>1, LeadingIs
<1>4. CASE e = Len(w)
  BY <1>2, <1>4 DEF Stands, AtEnd
<1>5. ASSUME NEW j \in Ends(w), IsEntry(v, w, e, j) PROVE Stands(w)'
  <2> HIDE DEF v, p, f
  <2>1. e <= at' /\ at' < e + p /\ Len(todo') = e + p + 2 - at'
    BY <1>1, <1>2, <1>3 DEF f, v
  <2>2. \A m \in 1 .. Len(todo') : todo'[m] = f[(at' - e) + m]
    BY <1>1, <1>2 DEF f, v
  <2>3. InLeading(w, e)'
    BY <2>1, <2>2 DEF InLeading, Body, f, p, v
  <2> QED
    BY <1>5, <2>3 DEF Stands, InEntry, v
<1> QED
  BY <1>1, <1>2, <1>4, <1>5

(* The reading goes from one field to the next in step with the archive. *)
Advances(w) ==
  /\ input' = input /\ at' = at + 1
  /\ version' = IF Field = "version" THEN w[2].n ELSE version

(* It is still in the archive, or it has come to its end. *)
Followed(w) ==
  /\ pc' # "stopped" => pc' = "field" /\ todo' \in Seq(FieldNames) /\ left' \in Nat /\ Stands(w)'
  /\ pc' = "stopped" => outcome' = "parsed" /\ at' >= 17 /\ (input[17] = w[17] => at' = Len(w))

(* After a field of the header comes the next. *)
LEMMA HeaderAdvance ==
  ASSUME NEW w \in Archives, Following(w), InHeader, Field # "count", Advances(w), Continue
  PROVE  Followed(w)
<1>1. at \in Nat /\ at < 17 /\ todo \in Seq(FieldNames) /\ Len(todo) = 17 - at
      /\ \A m \in 1 .. Len(todo) : todo[m] = Header[at + m]
  BY DEF Following, InHeader
<1>2. at # 16
  BY FieldInHeader
<1>3. Len(todo) > 1 /\ Len(todo) \in Nat
  BY <1>1, <1>2
<1>4. todo' = Tail(todo) /\ pc' = "field" /\ left' = left /\ at' = at + 1
  <2>1. Len(todo) # 1
    BY <1>1, <1>2
  <2> QED
    BY <2>1 DEF Continue, Advances
<1>5. /\ todo' \in Seq(FieldNames) /\ Len(todo') = Len(todo) - 1
      /\ \A m \in 1 .. Len(todo') : todo'[m] = todo[m + 1]
  BY <1>1, <1>3, <1>4
<1>6. \A m \in 1 .. Len(todo') : todo'[m] = Header[at' + m]
  <2> SUFFICES ASSUME NEW m \in 1 .. Len(todo') PROVE todo'[m] = Header[at' + m]
    OBVIOUS
  <2>1. m + 1 \in 1 .. Len(todo) /\ at' + m = at + (m + 1)
    BY <1>1, <1>4, <1>5
  <2> QED
    BY <1>1, <1>5, <2>1
<1>7. InHeader'
  BY <1>1, <1>2, <1>4, <1>5, <1>6 DEF InHeader
<1> QED
  BY <1>4, <1>5, <1>7 DEF Followed, Stands, Following

(* After a leading field comes the next, or the list. *)
LEMMA LeadingAdvance ==
  ASSUME NEW w \in Archives, NEW e, NEW j, Following(w), InEntry(w, e, j), InLeading(w, e),
         Advances(w), Continue, listed' = IF Field = "id" THEN 0 ELSE listed
  PROVE  Followed(w)
<1> DEFINE v == w[2].n
           p == Len(Leading(v))
           f == EntryFields(v)
<1>1. e \in Ends(w) /\ j \in Ends(w) /\ IsEntry(v, w, e, j) /\ Counted(w, e)
  BY DEF InEntry
<1>2. v \in 14 .. 16 /\ e \in 17 .. Len(w) /\ Len(w) \in Nat /\ j \in Int
  BY <1>1, ArchiveIs, ArchiveNumbers
<1>3. p \in 15 .. 16 /\ e + p + 2 <= j
  BY <1>1, EntryOfArchive
<1>4. f \in Seq(FieldNames) /\ Len(f) = p + 2 /\ f[p + 1] = "dependency" /\ f[p + 2] = "location"
  BY <1>2, EntryIs
<1>5. /\ at \in Nat /\ todo \in Seq(FieldNames)
      /\ e <= at /\ at < e + p /\ Len(todo) = e + p + 2 - at
      /\ \A m \in 1 .. Len(todo) : todo[m] = f[(at - e) + m]
      /\ at # e => listed = 0
  BY DEF Following, InLeading, Body
<1>6. Len(todo) > 2 /\ Len(todo) \in Nat /\ (Field = "id" <=> at = e)
  BY FieldInLeading
<1>7. listed' = 0
  BY <1>5, <1>6
<1> HIDE DEF v, p, f
<1>8. todo' = Tail(todo) /\ pc' = "field" /\ left' = left /\ at' = at + 1 /\ input' = input
  <2>1. Len(todo) # 1
    BY <1>5, <1>6
  <2> QED
    BY <2>1 DEF Continue, Advances
<1>9. /\ todo' \in Seq(FieldNames) /\ Len(todo') = Len(todo) - 1
      /\ \A m \in 1 .. Len(todo') : todo'[m] = todo[m + 1]
  BY <1>5, <1>6, <1>8
<1>10. \A m \in 1 .. Len(todo') : todo'[m] = f[(at' - e) + m]
  <2> SUFFICES ASSUME NEW m \in 1 .. Len(todo') PROVE todo'[m] = f[(at' - e) + m]
    OBVIOUS
  <2>1. m + 1 \in 1 .. Len(todo) /\ (at' - e) + m = (at - e) + (m + 1)
    BY <1>2, <1>5, <1>8, <1>9
  <2> QED
    BY <1>5, <1>9, <2>1
<1>11. Counted(w, e)'
  BY <1>1, <1>8 DEF Counted
<1>12. InLeading(w, e)' \/ InList(w, e, j)'
  <2>1. CASE at + 1 < e + p
    <3>1. e <= at' /\ at' < e + p /\ Len(todo') = e + p + 2 - at'
      BY <1>2, <1>3, <1>5, <1>8, <1>9, <2>1
    <3> QED
      BY <1>7, <1>10, <3>1 DEF InLeading, Body, f, p, v
  <2>2. CASE at + 1 >= e + p
    <3>1. at' = e + p /\ Len(todo') = 2 /\ at' < j - 1 /\ at' - e = p
      <4>1. e \in Int /\ p \in Int /\ at \in Int /\ at' = at + 1 /\ at < e + p /\ e + p + 2 <= j
            /\ Len(todo) = e + p + 2 - at /\ Len(todo') = Len(todo) - 1
        BY <1>2, <1>3, <1>5, <1>8, <1>9
      <4>2. at' = e + p
        BY <2>2, <4>1
      <4> QED
        BY <1>2, <4>1, <4>2
    <3>2. todo'[1] = "dependency" /\ todo'[2] = "location"
      BY <1>3, <1>4, <1>10, <3>1
    <3>3. todo' = <<"dependency", "location">>
      BY <1>9, <3>1, <3>2
    <3>4. e + p <= at' /\ at' < j - 1 /\ listed' = at' - (e + p)
      BY <1>2, <1>3, <1>7, <3>1
    <3> QED
      BY <3>3, <3>4 DEF InList, Body, p, v
  <2> QED
    BY <1>2, <1>3, <1>5, <2>1, <2>2
<1>13. InEntry(w, e, j)'
  BY <1>1, <1>11, <1>12 DEF InEntry, v
<1> QED
  BY <1>1, <1>8, <1>9, <1>13 DEF Followed, Stands, Following

(* A dependency is one of the entry's, and the list goes on. *)
LEMMA ListAdvance ==
  ASSUME NEW w \in Archives, NEW e, NEW j, Following(w), InEntry(w, e, j), InList(w, e, j),
         w[at + 1].n >= 0, Advances(w), pc' = "field", UNCHANGED <<todo, left>>, listed' = listed + 1
  PROVE  Followed(w)
<1>1. todo = <<"dependency", "location">> /\ at + 1 # j - 1
  <2>1. w[at + 1].n \in Int
    <3>1. at + 1 \in 1 .. Len(w)
      BY ArchiveIs, FieldInList
    <3> QED
      BY <3>1, ArchiveNumbers
  <2> QED
    BY <2>1, FieldInList
<1>2. e \in Ends(w) /\ j \in Ends(w) /\ IsEntry(w[2].n, w, e, j) /\ Counted(w, e)
  BY DEF InEntry
<1>3. j \in Int /\ e \in Int /\ Len(Leading(w[2].n)) \in Int
  BY <1>2, ArchiveNumbers
<1>4. at \in Nat /\ Body(w, e) <= at /\ at < j - 1 /\ listed = at - Body(w, e) /\ Body(w, e) \in Int
  BY <1>3 DEF Following, InList, Body
<1>5. Body(w, e) <= at' /\ at' < j - 1 /\ listed' = at' - Body(w, e)
  BY <1>1, <1>3, <1>4 DEF Advances
<1>6. InList(w, e, j)'
  BY <1>1, <1>5 DEF InList, Body
<1>7. Counted(w, e)'
  BY <1>2 DEF Counted, Advances
<1>8. InEntry(w, e, j)'
  BY <1>2, <1>6, <1>7 DEF InEntry
<1> QED
  BY <1>2, <1>8 DEF Followed, Stands, Following

(* The NULL after the dependencies ends the list. *)
LEMMA ListEnds ==
  ASSUME NEW w \in Archives, NEW e, NEW j, Following(w), InEntry(w, e, j), InList(w, e, j),
         w[at + 1].n < 0, Advances(w), Continue
  PROVE  Followed(w)
<1>1. todo = <<"dependency", "location">> /\ at + 1 = j - 1
  BY FieldInList
<1>2. e \in Ends(w) /\ j \in Ends(w) /\ IsEntry(w[2].n, w, e, j) /\ Counted(w, e)
  BY DEF InEntry
<1>3. todo' = <<"location">> /\ pc' = "field" /\ left' = left
  BY <1>1 DEF Continue
<1>4. Counted(w, e)'
  BY <1>2, <1>3 DEF Counted, Advances
<1>5. AtLocation(j)'
  BY <1>1, <1>3 DEF AtLocation, Advances
<1>6. InEntry(w, e, j)'
  BY <1>2, <1>4, <1>5 DEF InEntry
<1>7. todo' \in Seq(FieldNames)
  BY <1>3 DEF FieldNames
<1> QED
  BY <1>2, <1>3, <1>6, <1>7 DEF Followed, Stands, Following

(* After an entry another begins, or the archive is over. *)
LEMMA EntryAdvance ==
  ASSUME NEW w \in Archives, NEW e, NEW j, Following(w), InEntry(w, e, j), AtLocation(j), Advances(w), Continue
  PROVE  Followed(w)
<1>1. todo = <<"location">> /\ at + 1 = j /\ Field = "location" /\ at + 1 \in 18 .. Len(w)
  BY FieldAtLocation
<1>2. e \in Ends(w) /\ j \in Ends(w) /\ IsEntry(w[2].n, w, e, j) /\ Counted(w, e)
  BY DEF InEntry
<1>3. Cardinality(EndsTo(w, j)) = Cardinality(EndsTo(w, e)) + 1
      /\ Cardinality(EndsTo(w, e)) \in Nat
  BY <1>2, EndsAreCounted
<1>4. left \in Nat /\ version = w[2].n /\ at \in Nat /\ Len(todo) = 1
  BY <1>1 DEF Following
<1>5. w[17].n \in Int
  BY ArchiveIs, ArchiveNumbers
<1>6. CASE left > 0
  <2>1. todo' = EntryFields(w[2].n) /\ left' = left - 1 /\ pc' = "field"
    BY <1>4, <1>6 DEF Continue
  <2>2. Counted(w, j)'
    BY <1>2, <1>3, <1>4, <2>1 DEF Counted, Advances
  <2>3. at' = j
    BY <1>1 DEF Advances
  <2>4. todo' \in Seq(FieldNames) /\ Stands(w)'
    BY <1>2, <2>1, <2>2, <2>3, EntryBegins
  <2> QED
    BY <1>4, <1>6, <2>1, <2>4 DEF Followed
<1>7. CASE left = 0
  <2>1. pc' = "stopped" /\ outcome' = "parsed"
    BY <1>4, <1>7 DEF Continue
  <2>2. input[17] = w[17] => Cardinality(EndsTo(w, j)) = w[17].n + 1
    BY <1>2, <1>3, <1>5, <1>7 DEF Counted
  <2>3. input[17] = w[17] => j = Len(w)
    BY <1>2, <2>2, EndsAreCounted
  <2> QED
    BY <1>1, <2>1, <2>3 DEF Followed, Advances
<1> QED
  BY <1>4, <1>6, <1>7

(* The first entry begins after the header, unless there is none. *)
LEMMA CountAdvance ==
  ASSUME NEW w \in Archives, Following(w), InHeader, Field = "count", Advances(w),
         NEW n \in Nat, input[17] = w[17] => n = w[17].n,
         \/ n = 0 /\ pc' = "stopped" /\ outcome' = "parsed"
         \/ n # 0 /\ pc' = "field" /\ todo' = EntryFields(version) /\ left' = n - 1
  PROVE  Followed(w)
<1>1. at = 16 /\ at' = 17 /\ version = w[2].n
  BY FieldInHeader DEF Following, Advances
<1>2. 17 \in Ends(w) /\ w[17].n \in Int
  BY ArchiveIs, ArchiveNumbers
<1>3. Cardinality(EndsTo(w, 17)) = 1
  BY <1>2, EndsAreCounted
<1>4. CASE n = 0
  <2>1. input[17] = w[17] => Cardinality(EndsTo(w, 17)) = w[17].n + 1
    BY <1>3, <1>4
  <2>2. input[17] = w[17] => Len(w) = 17
    BY <1>2, <2>1, EndsAreCounted
  <2> QED
    BY <1>1, <1>4, <2>2 DEF Followed
<1>5. CASE n # 0
  <2>1. Counted(w, 17)'
    BY <1>3, <1>5 DEF Counted, Advances
  <2>2. todo' = EntryFields(w[2].n)
    BY <1>1, <1>5
  <2>3. todo' \in Seq(FieldNames) /\ Stands(w)'
    BY <1>1, <1>2, <2>1, <2>2, EntryBegins
  <2> QED
    BY <1>5, <2>3 DEF Followed
<1> QED
  BY <1>4, <1>5

-----------------------------------------------------------------------------
(* The version is known after the first two fields, and says what the archive's does. *)
LEMMA VersionIs ==
  ASSUME NEW w \in Archives, Following(w), at < Len(input), Field \notin {"magic", "version"}
  PROVE  version = w[2].n /\ at >= 2
<1>1. at \in Nat
  BY DEF Following
<1>2. CASE InHeader
  <2>1. at + 1 \in 1 .. 17 /\ Field = Header[at + 1]
    BY <1>2, FieldInHeader
  <2>2. Header[1] = "magic" /\ Header[2] = "version"
    BY DEF Header
  <2>3. at # 0 /\ at # 1
    BY <2>1, <2>2
  <2>4. at >= 2
    BY <1>1, <2>3
  <2> QED
    BY <2>4 DEF Following
<1>3. ASSUME NEW e, NEW j, InEntry(w, e, j) PROVE at >= 2
  <2>1. at + 1 \in 18 .. Len(w)
    <3>1. InLeading(w, e) \/ InList(w, e, j) \/ AtLocation(j)
      BY <1>3 DEF InEntry
    <3> QED
      BY <1>3, <3>1, FieldInLeading, FieldInList, FieldAtLocation
  <2>2. Len(w) \in Nat
    BY ArchiveIs
  <2> QED
    BY <1>1, <2>1, <2>2
<1> QED
  BY <1>2, <1>3, NotAtEnd DEF Following

(* The next item, when it is the archive's, is noted as the field that is read. *)
LEMMA ItemIs ==
  ASSUME NEW w \in Archives, Following(w), at < Len(input), Item = w[at + 1]
  PROVE  /\ IsLegal(w[2].n, Field, Item.n) /\ Item.n \in Int /\ InRange
         /\ Item.meaning = <<Field, Meant(w[2].n, Field, Item)>>
         /\ Field = "dependency" => Item.content # "bad"
<1>1. at + 1 \in 1 .. Len(w) /\ Field = NameOf(w[at + 1])
  BY FieldIs
<1>2. IsNoted(w[2].n, w[at + 1]) /\ w[at + 1].n \in Int
  BY <1>1, ArchiveIs
<1>3. InRange
  BY <1>2 DEF IsNoted, IsLegal, InRange
<1> QED
  BY <1>1, <1>2, <1>3 DEF IsNoted

(* A field of one byte or one integer is read as what its writer meant. *)
LEMMA ValueIsMeant ==
  ASSUME NEW w \in Archives, Following(w), at < Len(input), Item = w[at + 1], IsFixed
  PROVE  /\ ~Refused /\ <<Field, Value>> = Item.meaning
         /\ Field = "version" => Item.n = w[2].n
<1> DEFINE v == w[2].n
<1>1. /\ IsLegal(v, Field, Item.n) /\ Item.n \in Int
      /\ Item.meaning = <<Field, Meant(v, Field, Item)>>
  BY ItemIs
<1>2. v \in 14 .. 16 /\ (Field = "compression" => version = v)
  BY ArchiveIs, VersionIs
<1>3. Field = "version" => Item.n = v
  BY <1>1 DEF IsLegal
<1> HIDE DEF v
<1>4. Field \notin Strings /\ Field # "location"
  BY DEF IsFixed, Strings, Retained, RequiredStrings, OptionalStrings
<1>5. CASE Field = "compression"
  <2>1. Value = CompressionOf(Item.n)
    BY <1>5 DEF Value
  <2>2. Meant(v, Field, Item) = IF v = 14 THEN (IF Item.n = 0 THEN "none" ELSE "gzip")
                                ELSE <<"none", "gzip", "lz4", "zstd">>[Item.n + 1]
    BY <1>4, <1>5 DEF Meant
  <2>3. CASE v = 14
    <3>1. ~(version >= 15)
      BY <1>2, <1>5, <2>3
    <3>2. Value = Meant(v, Field, Item) /\ Value # "unsupported"
      BY <2>1, <2>2, <2>3, <3>1 DEF CompressionOf
    <3> QED
      BY <1>1, <1>5, <3>2 DEF Refused, ValueErrors
  <2>4. CASE v # 14
    <3>1. version >= 15 /\ v >= 15
      BY <1>2, <1>5, <2>4
    <3>2. Item.n \in 0 .. 3
      BY <1>1, <1>5, <3>1 DEF IsLegal
    <3>3. Value = <<"none", "gzip", "lz4", "zstd">>[Item.n + 1]
      BY <2>1, <3>1, <3>2 DEF CompressionOf
    <3>4. Value # "unsupported"
      <4>1. Item.n = 0 \/ Item.n = 1 \/ Item.n = 2 \/ Item.n = 3
        BY <3>2
      <4> QED
        BY <3>3, <4>1
    <3>5. Value = Meant(v, Field, Item)
      BY <2>2, <2>4, <3>3
    <3> QED
      BY <1>1, <1>5, <3>4, <3>5 DEF Refused, ValueErrors
  <2> QED
    BY <2>3, <2>4
<1>6. CASE Field = "has_data"
  <2>1. Value = Meant(v, Field, Item)
    BY <1>4, <1>6 DEF Value, Meant
  <2> QED
    BY <1>1, <1>6, <2>1 DEF Refused, ValueErrors
<1>7. CASE Field \notin {"compression", "has_data"}
  <2>1. Value = Item.n
    BY <1>7 DEF Value
  <2>2. Meant(v, Field, Item) = Item.n
    BY <1>4, <1>7 DEF Meant
  <2>3. ~Refused
    <3>1. ASSUME Field \in {"magic", "version", "integer_size", "offset_size", "format", "id", "section"}
          PROVE  ~ValueErrors[Field]
      <4>1. CASE Field = "magic"
        BY <1>1, <4>1 DEF IsLegal, ValueErrors
      <4>2. CASE Field = "version"
        BY <1>2, <1>3, <4>2 DEF ValueErrors
      <4>3. CASE Field = "integer_size"
        BY <1>1, <4>3 DEF IsLegal, ValueErrors
      <4>4. CASE Field = "offset_size"
        <5>1. Item.n \in 1 .. 8
          BY <1>1, <4>4 DEF IsLegal
        <5>2. ~(Item.n = 0)
          BY <1>1, <5>1
        <5> QED
          BY <4>4, <5>2 DEF ValueErrors
      <4>5. CASE Field = "format"
        BY <1>1, <4>5 DEF IsLegal, ValueErrors
      <4>6. CASE Field = "id"
        <5>1. Item.n > 0
          BY <1>1, <4>6 DEF IsLegal
        <5>2. ~(Item.n <= 0)
          BY <1>1, <5>1
        <5> QED
          BY <4>6, <5>2 DEF ValueErrors
      <4>7. CASE Field = "section"
        BY <1>1, <4>7 DEF IsLegal, ValueErrors
      <4> QED
        BY <3>1, <4>1, <4>2, <4>3, <4>4, <4>5, <4>6, <4>7
    <3>2. DOMAIN ValueErrors = {"magic", "version", "integer_size", "offset_size", "format", "id", "section"}
      BY DEF ValueErrors
    <3> QED
      BY <1>7, <3>1, <3>2 DEF Refused
  <2> QED
    BY <1>1, <1>3, <2>1, <2>2, <2>3 DEF v
<1> QED
  BY <1>3, <1>5, <1>6, <1>7 DEF v

(* So is the number of entries. *)
LEMMA CountIsMeant ==
  ASSUME NEW w \in Archives, Following(w), at < Len(input), Item = w[at + 1], Field = "count"
  PROVE  Item.n \in Nat /\ <<Field, Item.n>> = Item.meaning
<1>1. /\ IsLegal(w[2].n, Field, Item.n) /\ Item.n \in Int
      /\ Item.meaning = <<Field, Meant(w[2].n, Field, Item)>>
  BY ItemIs
<1>2. Field \notin Strings
  BY DEF Strings, Retained, RequiredStrings, OptionalStrings
<1>3. Meant(w[2].n, Field, Item) = Item.n
  BY <1>2 DEF Meant
<1>4. Item.n >= 0
  BY <1>1 DEF IsLegal
<1> QED
  BY <1>1, <1>3, <1>4

(* So is where the data of an entry is. *)
LEMMA LocationIsMeant ==
  ASSUME NEW w \in Archives, Following(w), at < Len(input), Item = w[at + 1], Field = "location"
  PROVE  /\ Item.n \in 1 .. 3
         /\ <<Field, CASE Item.n = 1 -> "unknown" [] Item.n = 2 -> Item.content [] Item.n = 3 -> "no_data">> = Item.meaning
<1>1. /\ IsLegal(w[2].n, Field, Item.n) /\ Item.n \in Int
      /\ Item.meaning = <<Field, Meant(w[2].n, Field, Item)>>
  BY ItemIs
<1>2. Field \notin Strings
  BY DEF Strings, Retained, RequiredStrings, OptionalStrings
<1>3. Meant(w[2].n, Field, Item) = <<"unknown", Item.content, "no_data">>[Item.n]
  BY <1>2 DEF Meant
<1>4. Item.n \in 1 .. 3
  BY <1>1 DEF IsLegal
<1>5. CASE Item.n = 1
  BY <1>1, <1>3, <1>5
<1>6. CASE Item.n = 2
  BY <1>1, <1>3, <1>6
<1>7. CASE Item.n = 3
  BY <1>1, <1>3, <1>7
<1> QED
  BY <1>4, <1>5, <1>6, <1>7

(* So is a string, or that there is none. *)
LEMMA StringIsMeant ==
  ASSUME NEW w \in Archives, Following(w), at < Len(input), Item = w[at + 1], Field \in Strings
  PROVE  /\ Item.n < 0 => Field \notin RequiredStrings /\ <<Field, "null">> = Item.meaning
         /\ Item.n >= 0 => <<Field, Item.content>> = Item.meaning
<1>1. /\ IsLegal(w[2].n, Field, Item.n) /\ Item.n \in Int
      /\ Item.meaning = <<Field, Meant(w[2].n, Field, Item)>>
  BY ItemIs
<1>2. Meant(w[2].n, Field, Item) = IF Item.n < 0 THEN "null" ELSE Item.content
  <2>1. Field \notin {"compression", "has_data", "location"}
    BY DEF Strings, Retained, RequiredStrings, OptionalStrings
  <2> QED
    BY <2>1 DEF Meant
<1>3. Field \in RequiredStrings => Item.n >= 0
  BY <1>1 DEF IsLegal
<1> QED
  BY <1>1, <1>2, <1>3

(* What has been read of a written archive is what its writer meant. *)
ReadsAs(w) ==
  /\ pc # "stopped" => Following(w)
  /\ pc = "bytes" => at < Len(input)
  /\ parsed \in Seq({parsed[i] : i \in DOMAIN parsed}) /\ Len(parsed) = at /\ at <= Len(input)
  /\ \A i \in 1 .. at : input[i] = w[i] => parsed[i] = w[i].meaning
  /\ outcome = "parsed" => at >= 17 /\ (input[17] = w[17] => at = Len(w))

WrittenInv == IInv /\ \A w \in Archives : IsDamaged(w) => ReadsAs(w)

(* A sequence with one more element. *)
LEMMA Appended ==
  ASSUME NEW s, NEW x, s \in Seq({s[i] : i \in DOMAIN s})
  PROVE  LET t == Append(s, x)
         IN  /\ t \in Seq({t[i] : i \in DOMAIN t}) /\ Len(t) = Len(s) + 1
             /\ \A i \in 1 .. Len(s) : t[i] = s[i]
             /\ t[Len(s) + 1] = x
<1> DEFINE S == {s[i] : i \in DOMAIN s} \cup {x}
           t == Append(s, x)
<1>1. s \in Seq(S) /\ x \in S
  OBVIOUS
<1> HIDE DEF S
<1>2. /\ t \in Seq(S) /\ Len(t) = Len(s) + 1 /\ Len(s) \in Nat
      /\ \A i \in 1 .. Len(s) : t[i] = s[i]
      /\ t[Len(s) + 1] = x
  BY <1>1
<1> HIDE DEF t
<1>3. t \in Seq({t[i] : i \in DOMAIN t})
  BY <1>2
<1> QED
  BY <1>2, <1>3 DEF t

(* An error adds nothing to what has been read. *)
LEMMA FailReads ==
  ASSUME NEW w, NEW error, error # "parsed", ReadsAs(w), Fail(error)
  PROVE  ReadsAs(w)'
BY DEF ReadsAs, Fail

(* A step that reads no item stays where it was. *)
LEMMA UnmovedFollows ==
  ASSUME NEW w, Following(w), UNCHANGED <<input, at, todo, placeVars>>
  PROVE  Following(w)'
BY DEF Following, Stands, InHeader, InEntry, InLeading, InList, AtLocation, AtEnd, Counted, Body, placeVars

(* A field is accepted as what the archive says there, in step with the archive. *)
LEMMA AcceptReads ==
  ASSUME NEW w \in Archives, IInv, ReadsAs(w), pc # "stopped", at < Len(input), NEW x, Accept(x),
         Advances(w), Followed(w), listed' \in Nat,
         Item = w[at + 1] => <<Field, x>> = Item.meaning,
         pc' # "stopped" => outcome' = "reading"
  PROVE  ReadsAs(w)'
<1>1. /\ Following(w) /\ at \in Nat /\ Len(input) \in Nat /\ at' = at + 1 /\ input' = input
      /\ parsed \in Seq({parsed[i] : i \in DOMAIN parsed}) /\ Len(parsed) = at
      /\ \A i \in 1 .. at : input[i] = w[i] => parsed[i] = w[i].meaning
      /\ parsed' = Append(parsed, <<Field, x>>)
  BY DEF ReadsAs, Following, Accept
<1>2. /\ parsed' \in Seq({parsed'[i] : i \in DOMAIN parsed'}) /\ Len(parsed') = at + 1
      /\ \A i \in 1 .. at : parsed'[i] = parsed[i]
      /\ parsed'[at + 1] = <<Field, x>>
  BY <1>1, Appended
<1>3. at' <= Len(input')
  BY <1>1
<1>4. \A i \in 1 .. at' : input'[i] = w[i] => parsed'[i] = w[i].meaning
  <2> SUFFICES ASSUME NEW i \in 1 .. at + 1, input[i] = w[i] PROVE parsed'[i] = w[i].meaning
    BY <1>1
  <2>1. CASE i = at + 1
    BY <1>2, <2>1 DEF Item
  <2>2. CASE i \in 1 .. at
    BY <1>1, <1>2, <2>2
  <2> QED
    BY <1>1, <2>1, <2>2
<1>5. at' >= 2 => version' = w[2].n
  <2> SUFFICES ASSUME at + 1 >= 2, Field # "version" PROVE version = w[2].n
    BY <1>1 DEF Advances
  <2>1. CASE at >= 2
    BY <1>1, <2>1 DEF Following
  <2>2. CASE at = 1
    <3>1. CASE InHeader
      BY <1>1, <2>2, <3>1, FieldInHeader
    <3>2. ASSUME NEW e, NEW j, InEntry(w, e, j) PROVE FALSE
      <4>1. InLeading(w, e) \/ InList(w, e, j) \/ AtLocation(j)
        BY <3>2 DEF InEntry
      <4>2. at + 1 \in 18 .. Len(w)
        BY <1>1, <3>2, <4>1, FieldInLeading, FieldInList, FieldAtLocation
      <4> QED
        BY <2>2, <4>2, ArchiveIs
    <3> QED
      BY <1>1, <3>1, <3>2, NotAtEnd
  <2> QED
    BY <1>1, <2>1, <2>2
<1>6. pc' # "stopped" => Following(w)'
  BY <1>1, <1>3, <1>5 DEF Followed, Following
<1>7. pc' # "bytes"
  BY DEF Followed
<1>8. outcome' = "parsed" => at' >= 17 /\ (input'[17] = w[17] => at' = Len(w))
  BY <1>1 DEF Followed
<1> QED
  BY <1>1, <1>2, <1>3, <1>4, <1>6, <1>7, <1>8 DEF ReadsAs

(* A field other than the count, a dependency or a location. *)
LEMMA PlainAdvance ==
  ASSUME NEW w \in Archives, Following(w), at < Len(input), Advances(w), Continue,
         Field \notin {"count", "dependency", "location"},
         listed' = IF Field = "id" THEN 0 ELSE listed
  PROVE  Followed(w)
<1>1. CASE InHeader
  BY <1>1, HeaderAdvance
<1>2. ASSUME NEW e, NEW j, InEntry(w, e, j) PROVE Followed(w)
  <2>1. InLeading(w, e)
    BY <1>2, FieldInList, FieldAtLocation DEF InEntry
  <2> QED
    BY <1>2, <2>1, LeadingAdvance
<1> QED
  BY <1>1, <1>2, NotAtEnd

(* A dependency or a location is in an entry's list, or after it. *)
LEMMA EntryOf ==
  ASSUME NEW w \in Archives, Following(w), at < Len(input)
  PROVE  /\ Field = "count" => InHeader
         /\ Field = "dependency" => \E e, j \in Ends(w) : InEntry(w, e, j) /\ InList(w, e, j)
         /\ Field = "location" => \E e, j \in Ends(w) : InEntry(w, e, j) /\ AtLocation(j)
<1>1. CASE InHeader
  BY <1>1, FieldInHeader
<1>2. ASSUME NEW e \in Ends(w), NEW j \in Ends(w), InEntry(w, e, j)
      PROVE  /\ Field # "count"
             /\ Field = "dependency" => InList(w, e, j)
             /\ Field = "location" => AtLocation(j)
  <2>1. CASE InLeading(w, e)
    BY <1>2, <2>1, FieldInLeading
  <2>2. CASE InList(w, e, j)
    BY <1>2, <2>2, FieldInList
  <2>3. CASE AtLocation(j)
    BY <1>2, <2>3, FieldAtLocation
  <2> QED
    BY <1>2, <2>1, <2>2, <2>3 DEF InEntry
<1> QED
  BY <1>1, <1>2, NotAtEnd

(* The item is the archive's, or it has been damaged in a way that keeps all others in place. *)
LEMMA DamageIs ==
  ASSUME NEW w \in Archives, IsDamaged(w), Following(w), at < Len(input), Item # w[at + 1]
  PROVE  /\ Field = "version" => Item.n \notin 14 .. 16
         /\ Field = "dependency" => \/ Item.n < 0 <=> w[at + 1].n < 0
                                    \/ Item.n >= 0 /\ Item.content = "bad"
<1>1. at + 1 \in DOMAIN input
  BY DEF Following
<1>2. Field = NameOf(w[at + 1])
  BY FieldIs
<1> QED
  BY <1>1, <1>2 DEF IsDamaged, Item

(* The reading of a written archive, as it was or damaged, is under way. *)
Reading(w) == w \in Archives /\ IsDamaged(w) /\ IInv /\ ReadsAs(w)

(* Every step keeps what is read true to a written archive. *)
LEMMA ReadValueReads ==
  ASSUME NEW w \in Archives, Reading(w), ReadValue
  PROVE  ReadsAs(w)'
<1>1. CASE Fail("range") \/ Fail("value")
  BY <1>1, FailReads DEF Reading
<1>2. CASE ~(Fail("range") \/ Fail("value"))
  <2>1. /\ pc = "field" /\ at < Len(input) /\ IsFixed /\ ~Refused
        /\ Accept(Value) /\ Continue
        /\ version' = IF Field = "version" THEN Item.n ELSE version
        /\ listed' = IF Field = "id" THEN 0 ELSE listed
    BY <1>2 DEF ReadValue
  <2>2. IInv /\ ReadsAs(w) /\ Following(w) /\ IsDamaged(w) /\ listed \in Nat
    BY <2>1 DEF Reading, ReadsAs, Following
  <2>3. Field \notin {"count", "dependency", "location"}
    BY <2>1 DEF IsFixed
  <2>4. Item = w[at + 1] => <<Field, Value>> = Item.meaning /\ (Field = "version" => Item.n = w[2].n)
    BY <2>1, <2>2, ValueIsMeant
  <2>5. Field = "version" => Item.n = w[2].n
    <3>1. CASE Item = w[at + 1]
      BY <2>4, <3>1
    <3>2. ASSUME Item # w[at + 1], Field = "version" PROVE FALSE
      <4>1. Item.n \notin 14 .. 16
        BY <2>1, <2>2, <3>2, DamageIs
      <4> QED
        BY <2>1, <3>2, <4>1 DEF Refused, ValueErrors
    <3> QED
      BY <3>1, <3>2
  <2>6. Advances(w)
    BY <2>1, <2>5 DEF Advances, Accept
  <2>7. Followed(w)
    BY <2>1, <2>2, <2>3, <2>6, PlainAdvance
  <2>8. pc' # "stopped" => outcome' = "reading"
    BY <2>1, <2>2, ContinueGoesOn
  <2>9. listed' \in Nat
    BY <2>1, <2>2
  <2> QED
    BY <2>1, <2>2, <2>4, <2>6, <2>7, <2>8, <2>9, AcceptReads
<1> QED
  BY <1>1, <1>2

LEMMA ReadCountReads ==
  ASSUME NEW w \in Archives, Reading(w), ReadCount
  PROVE  ReadsAs(w)'
<1>1. CASE \E error \in {"range", "value", "entries", "allocation"} : Fail(error)
  BY <1>1, FailReads DEF Reading
<1>2. CASE ~\E error \in {"range", "value", "entries", "allocation"} : Fail(error)
  <2>1. /\ pc = "field" /\ at < Len(input) /\ Field = "count" /\ ~(Item.n < 0)
        /\ Accept(Item.n) /\ UNCHANGED <<version, listed, budgetVars, keptVars>>
        /\ IF Item.n = 0 THEN /\ pc' = "stopped" /\ outcome' = "parsed"
                              /\ UNCHANGED <<todo, left>>
           ELSE /\ todo' = EntryFields(version) /\ left' = Item.n - 1
                /\ UNCHANGED <<pc, outcome>>
    BY <1>2 DEF ReadCount
  <2>2. IInv /\ ReadsAs(w) /\ Following(w) /\ IsDamaged(w) /\ listed \in Nat /\ outcome = "reading"
    BY <2>1 DEF Reading, ReadsAs, Following, IInv, MetadataInv
  <2>3. Item.n \in Nat
    <3>1. Item.n \in Int
      BY <2>1, <2>2, ItemsAreIntegers DEF IInv, MetadataInv
    <3> QED
      BY <2>1, <3>1
  <2>4. InHeader
    BY <2>1, <2>2, EntryOf
  <2>5. at = 16 /\ Item = input[17]
    <3>1. at = 16
      BY <2>1, <2>2, <2>4, FieldInHeader
    <3> QED
      BY <3>1 DEF Item
  <2>6. Item = w[at + 1] => <<Field, Item.n>> = Item.meaning
    BY <2>1, <2>2, CountIsMeant
  <2>7. Advances(w)
    BY <2>1 DEF Advances, Accept
  <2>8. /\ input[17] = w[17] => Item.n = w[17].n
        /\ \/ Item.n = 0 /\ pc' = "stopped" /\ outcome' = "parsed"
           \/ Item.n # 0 /\ pc' = "field" /\ todo' = EntryFields(version) /\ left' = Item.n - 1
    BY <2>1, <2>5
  <2>9. Followed(w)
    BY <2>1, <2>2, <2>3, <2>4, <2>7, <2>8, CountAdvance
  <2>10. pc' # "stopped" => outcome' = "reading"
    BY <2>1, <2>2
  <2> QED
    BY <2>1, <2>2, <2>6, <2>7, <2>9, <2>10, AcceptReads
<1> QED
  BY <1>1, <1>2

LEMMA ReadLocationReads ==
  ASSUME NEW w \in Archives, Reading(w), ReadLocation
  PROVE  ReadsAs(w)'
<1>1. CASE Fail("value")
  BY <1>1, FailReads DEF Reading
<1>2. CASE ~Fail("value")
  <2> DEFINE x == CASE Item.n = 1 -> "unknown" [] Item.n = 2 -> Item.content [] Item.n = 3 -> "no_data"
  <2>1. /\ pc = "field" /\ at < Len(input) /\ Field = "location"
        /\ Accept(x) /\ Continue /\ UNCHANGED <<version, listed, budgetVars, keptVars>>
    BY <1>2 DEF ReadLocation
  <2>2. IInv /\ ReadsAs(w) /\ Following(w) /\ listed \in Nat
    BY <2>1 DEF Reading, ReadsAs, Following
  <2>3. Item = w[at + 1] => <<Field, x>> = Item.meaning
    BY <2>1, <2>2, LocationIsMeant
  <2> HIDE DEF x
  <2>4. Advances(w)
    BY <2>1 DEF Advances, Accept
  <2>5. Followed(w)
    <3>1. PICK e \in Ends(w), j \in Ends(w) : InEntry(w, e, j) /\ AtLocation(j)
      BY <2>1, <2>2, EntryOf
    <3> QED
      BY <2>1, <2>2, <2>4, <3>1, EntryAdvance
  <2>6. pc' # "stopped" => outcome' = "reading"
    BY <2>1, <2>2, ContinueGoesOn
  <2> QED
    BY <2>1, <2>2, <2>3, <2>4, <2>5, <2>6, AcceptReads
<1> QED
  BY <1>1, <1>2

LEMMA ReadStringLengthReads ==
  ASSUME NEW w \in Archives, Reading(w), ReadStringLength
  PROVE  ReadsAs(w)'
<1>0. /\ pc = "field" /\ at < Len(input) /\ Field \in Strings
      /\ IInv /\ ReadsAs(w) /\ Following(w) /\ IsDamaged(w) /\ listed \in Nat
  BY DEF ReadStringLength, Reading, ReadsAs, Following
<1>1. CASE \E error \in {"range", "missing", "string", "overflow", "strings"} : Fail(error)
  BY <1>0, <1>1, FailReads
<1>2. CASE /\ Item.n < 0 /\ Field \notin RequiredStrings
           /\ Accept("null") /\ Continue
           /\ UNCHANGED <<version, listed, budgetVars, keptVars>>
  <2>1. Field \notin {"id", "version", "count", "location"}
    BY <1>0 DEF Strings, Retained, RequiredStrings, OptionalStrings
  <2>2. Item = w[at + 1] => <<Field, "null">> = Item.meaning
    BY <1>0, <1>2, StringIsMeant
  <2>3. Advances(w)
    BY <1>2, <2>1 DEF Advances, Accept
  <2>4. Followed(w)
    <3>1. CASE Field # "dependency"
      BY <1>0, <1>2, <2>1, <2>3, <3>1, PlainAdvance
    <3>2. CASE Field = "dependency"
      <4>1. PICK e \in Ends(w), j \in Ends(w) : InEntry(w, e, j) /\ InList(w, e, j)
        BY <1>0, <3>2, EntryOf
      <4>2. w[at + 1].n < 0
        <5>1. Item # w[at + 1] => (Item.n < 0 <=> w[at + 1].n < 0) \/ Item.n >= 0
          BY <1>0, <3>2, DamageIs
        <5>2. Item.n \in Int
          BY <1>0, ItemsAreIntegers DEF IInv, MetadataInv
        <5> QED
          BY <1>2, <5>1, <5>2
      <4> QED
        BY <1>0, <1>2, <2>3, <4>1, <4>2, ListEnds
    <3> QED
      BY <3>1, <3>2
  <2>5. pc' # "stopped" => outcome' = "reading"
    BY <1>0, <1>2, ContinueGoesOn
  <2> QED
    BY <1>0, <1>2, <2>2, <2>3, <2>4, <2>5, AcceptReads
<1>3. CASE /\ pc' = "bytes"
           /\ UNCHANGED <<input, limits, at, todo, outcome, parsed, placeVars, dependencies, keptVars>>
  <2>1. Following(w)'
    BY <1>0, <1>3, UnmovedFollows
  <2> QED
    BY <1>0, <1>3, <2>1 DEF ReadsAs
<1> QED
  BY <1>1, <1>2, <1>3 DEF ReadStringLength, ReadNull, StringCharge, ChargeError

LEMMA ReadStringReads ==
  ASSUME NEW w \in Archives, Reading(w), ReadString
  PROVE  ReadsAs(w)'
<1>1. CASE Fail("allocation")
  BY <1>1, FailReads DEF Reading
<1>2. CASE ~Fail("allocation")
  <2>1. /\ pc = "bytes" /\ Field \in Retained /\ Accept(Item.content) /\ Continue
        /\ UNCHANGED <<version, listed, budgetVars, kept>>
    BY <1>2 DEF ReadString
  <2>2. /\ IInv /\ ReadsAs(w) /\ Following(w) /\ at < Len(input) /\ listed \in Nat
        /\ Item.n \in Nat
    BY <2>1 DEF Reading, ReadsAs, Following, IInv, MetadataInv
  <2>3. Field \notin {"id", "version", "count", "dependency", "location"} /\ Field \in Strings
    BY <2>1 DEF Strings, Retained, RequiredStrings, OptionalStrings
  <2>4. Item = w[at + 1] => <<Field, Item.content>> = Item.meaning
    BY <2>2, <2>3, StringIsMeant
  <2>5. Advances(w)
    BY <2>1, <2>3 DEF Advances, Accept
  <2>6. Followed(w)
    BY <2>1, <2>2, <2>3, <2>5, PlainAdvance
  <2>7. pc' # "stopped" => outcome' = "reading"
    BY <2>1, <2>2, ContinueGoesOn
  <2> QED
    BY <2>1, <2>2, <2>4, <2>5, <2>6, <2>7, AcceptReads
<1> QED
  BY <1>1, <1>2

LEMMA ReadDependencyReads ==
  ASSUME NEW w \in Archives, Reading(w), ReadDependency
  PROVE  ReadsAs(w)'
<1>1. CASE \E error \in {"per_entry", "value", "overflow", "dependencies", "allocation"} : Fail(error)
  BY <1>1, FailReads DEF Reading
<1>2. CASE /\ Item.content # "bad"
           /\ Accept(Item.content) /\ pc' = "field" /\ listed' = listed + 1
           /\ UNCHANGED <<version, todo, left, outcome>>
  <2>1. /\ IInv /\ ReadsAs(w) /\ Following(w) /\ IsDamaged(w) /\ at < Len(input) /\ listed \in Nat
        /\ Item.n \in Nat /\ pc = "bytes" /\ Field = "dependency" /\ outcome = "reading"
    BY DEF ReadDependency, Reading, ReadsAs, Following, IInv, MetadataInv
  <2>2. Field \in Strings
    BY <2>1 DEF Strings
  <2>3. Item = w[at + 1] => <<Field, Item.content>> = Item.meaning
    BY <2>1, <2>2, StringIsMeant
  <2>4. Advances(w)
    BY <1>2, <2>1 DEF Advances, Accept
  <2>5. w[at + 1].n >= 0
    <3>1. Item # w[at + 1] => (Item.n < 0 <=> w[at + 1].n < 0)
      BY <1>2, <2>1, DamageIs
    <3>2. w[at + 1].n \in Int
      BY <2>1, FieldIs, ArchiveNumbers
    <3>3. CASE Item = w[at + 1]
      BY <2>1, <3>3
    <3>4. CASE Item # w[at + 1]
      BY <2>1, <3>1, <3>2, <3>4
    <3> QED
      BY <3>3, <3>4
  <2>6. Followed(w)
    <3>1. PICK e \in Ends(w), j \in Ends(w) : InEntry(w, e, j) /\ InList(w, e, j)
      BY <2>1, EntryOf
    <3> QED
      BY <1>2, <2>1, <2>4, <2>5, <3>1, ListAdvance
  <2> QED
    BY <1>2, <2>1, <2>3, <2>4, <2>6, AcceptReads
<1> QED
  BY <1>1, <1>2 DEF ReadDependency, DependencyCharge, ChargeError

LEMMA InitReads ==
  ASSUME NEW w \in Archives, IsDamaged(w), Init
  PROVE  ReadsAs(w)
<1>1. /\ input \in Seq({input[i] : i \in DOMAIN input})
      /\ at = 0 /\ todo = Header /\ left = 0 /\ listed = 0 /\ parsed = << >> /\ outcome = "reading" /\ pc = "field"
  BY MetadataAssumption, HeaderIs DEF Init
<1>2. DOMAIN input = 1 .. Len(input) /\ Len(input) \in Nat
  BY <1>1
<1>3. Header \in Seq(FieldNames) /\ Len(Header) = 17
  BY HeaderIs
<1>4. InHeader
  BY <1>1, <1>3 DEF InHeader
<1>5. Following(w)
  BY <1>1, <1>2, <1>3, <1>4 DEF Following, Stands, IsDamaged
<1>6. parsed \in Seq({parsed[i] : i \in DOMAIN parsed}) /\ Len(parsed) = 0
  BY <1>1
<1> QED
  BY <1>1, <1>2, <1>5, <1>6 DEF ReadsAs

(* Nothing is read but the input. *)
LEMMA InputStays ==
  ASSUME [Next]_vars
  PROVE  input' = input
<1>1. CASE UNCHANGED vars
  BY <1>1 DEF vars
<1>2. CASE Next
  BY <1>2 DEF Next, ReadValue, ReadCount, ReadLocation, ReadStringLength, ReadNull, ReadString,
              ReadDependency, InputEnds, InputFails, Fail, Accept
<1> QED
  BY <1>1, <1>2

LEMMA NextReads ==
  ASSUME WrittenInv, [Next]_vars
  PROVE  WrittenInv'
<1>1. IInv /\ IInv'
  BY NextInv DEF WrittenInv
<1>2. input' = input
  BY InputStays
<1>3. ASSUME NEW w \in Archives, IsDamaged(w)' PROVE ReadsAs(w)'
  <2>1. Reading(w)
    BY <1>1, <1>2, <1>3 DEF Reading, WrittenInv, IsDamaged
  <2>2. CASE UNCHANGED vars
    <3>1. ReadsAs(w)
      BY <2>1 DEF Reading
    <3>2. Following(w) => Following(w)'
      BY <2>2, UnmovedFollows DEF vars, placeVars
    <3> QED
      BY <2>2, <3>1, <3>2 DEF vars, ReadsAs
  <2>3. CASE InputEnds \/ InputFails
    BY <2>1, <2>3, FailReads DEF InputEnds, InputFails, Reading
  <2> QED
    BY <2>1, <2>2, <2>3, ReadValueReads, ReadCountReads, ReadLocationReads, ReadStringLengthReads,
       ReadStringReads, ReadDependencyReads DEF Next
<1> QED
  BY <1>1, <1>3 DEF WrittenInv

(* What is parsed at the end is the whole archive. *)
LEMMA ReadIsWritten ==
  ASSUME WrittenInv
  PROVE  ParsedIsWritten
<1> SUFFICES ASSUME outcome = "parsed", NEW w \in Archives, IsDamaged(w)
             PROVE  /\ \A i \in DOMAIN parsed : input[i] = w[i] => parsed[i] = w[i].meaning
                    /\ (\A i \in DOMAIN input : input[i] = w[i]) => input = w /\ Len(parsed) = Len(w)
  BY DEF ParsedIsWritten
<1>1. /\ parsed \in Seq({parsed[i] : i \in DOMAIN parsed}) /\ Len(parsed) = at /\ at <= Len(input)
      /\ \A i \in 1 .. at : input[i] = w[i] => parsed[i] = w[i].meaning
      /\ at >= 17 /\ (input[17] = w[17] => at = Len(w))
      /\ Len(input) <= Len(w)
  BY DEF WrittenInv, ReadsAs, IsDamaged
<1>2. /\ input \in Seq({input[i] : i \in DOMAIN input})
      /\ w \in Seq({w[i] : i \in DOMAIN w}) /\ at \in Nat
  BY MetadataAssumption, ArchiveIs DEF WrittenInv, IInv, MetadataInv
<1>3. DOMAIN parsed = 1 .. at /\ DOMAIN input = 1 .. Len(input) /\ Len(input) \in Nat /\ Len(w) \in Nat
      /\ DOMAIN w = 1 .. Len(w)
  BY <1>1, <1>2
<1>4. ASSUME \A i \in DOMAIN input : input[i] = w[i] PROVE input = w /\ Len(parsed) = Len(w)
  <2> DEFINE n == Len(input)
             m == Len(w)
  <2>1. n \in Nat /\ m \in Nat /\ at <= n /\ n <= m /\ at >= 17 /\ DOMAIN input = 1 .. n /\ DOMAIN w = 1 .. m
    BY <1>1, <1>3
  <2> HIDE DEF n, m
  <2>2. 17 \in DOMAIN input
    BY <1>2, <2>1
  <2>3. at = m
    BY <1>1, <1>4, <2>2 DEF m
  <2>4. n = m /\ DOMAIN input = DOMAIN w
    BY <2>1, <2>3
  <2>5. input = [i \in DOMAIN input |-> input[i]] /\ w = [i \in DOMAIN w |-> w[i]]
    BY <1>2
  <2>6. input = w
    BY <1>4, <2>4, <2>5
  <2> QED
    BY <1>1, <2>3, <2>6 DEF m
<1> QED
  BY <1>1, <1>3, <1>4

(* Whatever an archive's writer has put into it, in each version, and however it has
   been cut or its items damaged in place: what the reading accepts is what was
   written, field by field, and a whole archive is accepted only as a whole.        *)
THEOREM ReadingIsFaithful == Spec => []ParsedIsWritten
<1>1. Init => WrittenInv
  BY InitInv, InitReads DEF WrittenInv
<1>2. WrittenInv /\ [Next]_vars => WrittenInv'
  BY NextReads
<1>3. WrittenInv => ParsedIsWritten
  BY ReadIsWritten
<1> QED
  BY <1>1, <1>2, <1>3, PTL DEF Spec

-----------------------------------------------------------------------------
(* The bytes of the strings, and the dependencies, of the first k items of an archive. *)
TextsTo(w, k) ==
  {t \in (1 .. Len(w)) \X (1 .. MaxInt) :
     t[1] <= k /\ NameOf(w[t[1]]) \in Retained /\ t[2] <= w[t[1]].n}

DepsTo(w, k) == {i \in 1 .. Len(w) : i <= k /\ NameOf(w[i]) = "dependency" /\ w[i].n >= 0}

(* All items have the bytes and the dependencies that the limits are about. *)
LEMMA AllTexts ==
  ASSUME NEW w \in Archives, input = w
  PROVE  TextBytes = TextsTo(w, Len(w)) /\ DependenciesOf = DepsTo(w, Len(w))
<1>1. Len(w) \in Nat /\ DOMAIN w = 1 .. Len(w) /\ MaxInt \in Nat
      /\ \A i \in 1 .. Len(w) : w[i].n \in Int /\ w[i].n <= MaxInt
  <2>1. Len(w) \in Nat /\ DOMAIN w = 1 .. Len(w) /\ \A i \in 1 .. Len(w) : w[i].n \in Int /\ IsNoted(w[2].n, w[i])
    BY ArchiveIs
  <2>2. ASSUME NEW i \in 1 .. Len(w) PROVE w[i].n <= MaxInt
    <3>1. w[i].n \in -(MaxInt + 1) .. MaxInt
      BY <2>1 DEF IsNoted, IsLegal
    <3> QED
      BY <2>1, <3>1, MetadataAssumption
  <2> QED
    BY <2>1, <2>2, MetadataAssumption
<1>2. ASSUME NEW t \in TextBytes PROVE t \in TextsTo(w, Len(w))
  <2>1. PICK i \in 1 .. Len(w) : NameOf(w[i]) \in Retained /\ t \in {i} \X (1 .. w[i].n)
    BY <1>1, <1>2 DEF TextBytes
  <2>2. t[1] = i /\ t[2] \in 1 .. w[i].n /\ t = <<t[1], t[2]>>
    BY <2>1
  <2>3. w[i].n \in Int /\ w[i].n <= MaxInt /\ i <= Len(w)
    BY <1>1
  <2>4. t[2] \in 1 .. MaxInt /\ t[2] <= w[i].n
    BY <1>1, <2>2, <2>3
  <2>5. t \in (1 .. Len(w)) \X (1 .. MaxInt)
    BY <2>2, <2>4
  <2> QED
    BY <2>1, <2>2, <2>3, <2>4, <2>5 DEF TextsTo
<1>3. ASSUME NEW t \in TextsTo(w, Len(w)) PROVE t \in TextBytes
  <2>1. t \in (1 .. Len(w)) \X (1 .. MaxInt) /\ NameOf(w[t[1]]) \in Retained /\ t[2] <= w[t[1]].n
    BY <1>3 DEF TextsTo
  <2>2. t = <<t[1], t[2]>> /\ t[1] \in 1 .. Len(w) /\ t[2] \in 1 .. MaxInt
    BY <2>1
  <2>3. t[2] \in 1 .. w[t[1]].n
    BY <1>1, <2>1, <2>2
  <2>4. t \in {t[1]} \X (1 .. w[t[1]].n)
    BY <2>2, <2>3
  <2> QED
    BY <1>1, <2>1, <2>2, <2>4 DEF TextBytes
<1>4. DependenciesOf = DepsTo(w, Len(w))
  BY <1>1 DEF DependenciesOf, DepsTo, IsDependency
<1> QED
  BY <1>2, <1>3, <1>4

(* How many numbers there are up to n. *)
LEMMA UpTo ==
  ASSUME NEW n \in Nat
  PROVE  IsFiniteSet(1 .. n) /\ Cardinality(1 .. n) = n
BY FS_Interval

(* One more string adds its bytes. *)
LEMMA TextsAreCounted ==
  ASSUME NEW w \in Archives, NEW k \in Nat, k < Len(w)
  PROVE  /\ Cardinality(TextsTo(w, 0)) = 0
         /\ IsFiniteSet(TextsTo(w, k)) /\ Cardinality(TextsTo(w, k)) \in Nat
         /\ Cardinality(TextsTo(w, k + 1)) = Cardinality(TextsTo(w, k))
              + (IF NameOf(w[k + 1]) \in Retained /\ w[k + 1].n >= 0 THEN w[k + 1].n ELSE 0)
         /\ Cardinality(TextsTo(w, k + 1)) <= Cardinality(TextsTo(w, Len(w)))
<1> DEFINE n == w[k + 1].n
           A == TextsTo(w, k)
           B == TextsTo(w, k + 1)
           C == TextsTo(w, Len(w))
           P == (1 .. Len(w)) \X (1 .. MaxInt)
<1>1. Len(w) \in Nat /\ k + 1 \in 1 .. Len(w) /\ MaxInt \in Nat /\ n \in Int
      /\ IsNoted(w[2].n, w[k + 1])
  <2>1. Len(w) \in Nat /\ \A i \in 1 .. Len(w) : w[i].n \in Int /\ IsNoted(w[2].n, w[i])
    BY ArchiveIs
  <2>2. k + 1 \in 1 .. Len(w)
    BY <2>1
  <2> QED
    BY <2>1, <2>2, MetadataAssumption
<1>2. n <= MaxInt
  <2>1. n \in -(MaxInt + 1) .. MaxInt
    BY <1>1 DEF IsNoted, IsLegal
  <2> QED
    BY <1>1, <2>1
<1>3. IsFiniteSet(P)
  <2>1. IsFiniteSet(1 .. Len(w)) /\ IsFiniteSet(1 .. MaxInt)
    BY <1>1, FS_Interval
  <2> QED
    BY <2>1, FS_Product
<1>4. A \in SUBSET P /\ B \in SUBSET P /\ C \in SUBSET P /\ B \in SUBSET C
  <2>1. A \in SUBSET P /\ B \in SUBSET P /\ C \in SUBSET P
    BY DEF TextsTo
  <2>2. ASSUME NEW t \in B PROVE t \in C
    BY <1>1, <2>2 DEF TextsTo
  <2> QED
    BY <2>1, <2>2
<1> HIDE DEF P
<1>5. IsFiniteSet(A) /\ IsFiniteSet(B) /\ IsFiniteSet(C)
  BY <1>3, <1>4, FS_Subset
<1>6. Cardinality(A) \in Nat /\ Cardinality(B) <= Cardinality(C)
  BY <1>4, <1>5, FS_Subset, FS_CardinalityType
<1>7. Cardinality(TextsTo(w, 0)) = 0
  <2>1. TextsTo(w, 0) = {}
    BY DEF TextsTo
  <2> QED
    BY <2>1, FS_EmptySet
<1>8. CASE NameOf(w[k + 1]) \in Retained /\ n >= 0
  <2> DEFINE D == {k + 1} \X (1 .. n)
  <2>1. IsFiniteSet(D) /\ Cardinality(D) = n
    <3>1. IsFiniteSet({k + 1}) /\ Cardinality({k + 1}) = 1
      BY FS_Singleton
    <3>2. IsFiniteSet(1 .. n) /\ Cardinality(1 .. n) = n
      <4>1. n \in Nat
        BY <1>1, <1>8
      <4> HIDE DEF n
      <4> QED
        BY <4>1, UpTo
    <3>3. IsFiniteSet(D) /\ Cardinality(D) = 1 * n
      BY <3>1, <3>2, FS_Product
    <3> QED
      BY <1>1, <3>3
  <2>2. A \cap D = {}
    BY <1>1 DEF TextsTo
  <2>3. ASSUME NEW t \in D PROVE t \in B
    <3>1. t = <<t[1], t[2]>> /\ t[1] = k + 1 /\ t[2] \in 1 .. n
      BY <2>3
    <3>2. t[2] \in 1 .. MaxInt /\ t[2] <= n
      BY <1>1, <1>2, <3>1
    <3>3. t \in (1 .. Len(w)) \X (1 .. MaxInt)
      BY <1>1, <3>1, <3>2
    <3> QED
      BY <1>1, <1>8, <3>1, <3>2, <3>3 DEF TextsTo
  <2>4. ASSUME NEW t \in A PROVE t \in B
    BY <2>4 DEF TextsTo
  <2>5. ASSUME NEW t \in B PROVE t \in A \cup D
    <3>1. t \in (1 .. Len(w)) \X (1 .. MaxInt) /\ t[1] <= k + 1 /\ NameOf(w[t[1]]) \in Retained
          /\ t[2] <= w[t[1]].n
      BY <2>5 DEF TextsTo
    <3>2. t = <<t[1], t[2]>> /\ t[1] \in Int /\ t[2] \in 1 .. MaxInt
      BY <3>1
    <3>3. CASE t[1] <= k
      BY <3>1, <3>3 DEF TextsTo
    <3>4. CASE t[1] = k + 1
      <4>1. t[2] \in 1 .. n
        BY <1>1, <3>1, <3>2, <3>4
      <4> QED
        BY <3>2, <3>4, <4>1
    <3> QED
      BY <3>1, <3>2, <3>3, <3>4
  <2> HIDE DEF A, B, C, D, n
  <2>6. B = A \cup D
    BY <2>3, <2>4, <2>5
  <2>7. Cardinality(B) = Cardinality(A) + n
    <3>1. Cardinality(A \cap D) = 0
      BY <2>2, FS_EmptySet
    <3>2. Cardinality(B) = Cardinality(A) + Cardinality(D) - Cardinality(A \cap D)
      BY <1>5, <2>1, <2>6, FS_Union
    <3> QED
      BY <1>1, <1>6, <2>1, <3>1, <3>2
  <2> QED
    BY <1>5, <1>6, <1>7, <1>8, <2>7 DEF A, B, C, n
<1>9. CASE ~(NameOf(w[k + 1]) \in Retained /\ n >= 0)
  <2>1. A \subseteq B
    BY DEF TextsTo
  <2>2. ASSUME NEW t \in B PROVE t \in A
    <3>1. t \in (1 .. Len(w)) \X (1 .. MaxInt) /\ t[1] <= k + 1 /\ NameOf(w[t[1]]) \in Retained
          /\ t[2] <= w[t[1]].n
      BY <2>2 DEF TextsTo
    <3>2. t[1] \in Int /\ t[2] \in 1 .. MaxInt
      BY <3>1
    <3>3. t[1] # k + 1
      BY <1>1, <1>9, <3>1, <3>2
    <3>4. t[1] <= k
      BY <3>1, <3>2, <3>3
    <3> QED
      BY <3>1, <3>4 DEF TextsTo
  <2>3. A = B
    BY <2>1, <2>2
  <2> QED
    BY <1>5, <1>6, <1>7, <1>9, <2>3
<1> QED
  BY <1>8, <1>9

(* One more dependency adds one. *)
LEMMA DependenciesAreCounted ==
  ASSUME NEW w \in Archives, NEW k \in Nat, k < Len(w)
  PROVE  /\ Cardinality(DepsTo(w, 0)) = 0
         /\ IsFiniteSet(DepsTo(w, k)) /\ Cardinality(DepsTo(w, k)) \in Nat
         /\ Cardinality(DepsTo(w, k + 1)) = Cardinality(DepsTo(w, k))
              + (IF NameOf(w[k + 1]) = "dependency" /\ w[k + 1].n >= 0 THEN 1 ELSE 0)
         /\ Cardinality(DepsTo(w, k + 1)) <= Cardinality(DepsTo(w, Len(w)))
<1>1. Len(w) \in Nat /\ k + 1 \in 1 .. Len(w)
  BY ArchiveIs
<1>2. IsFiniteSet(1 .. Len(w))
  BY <1>1, FS_Interval
<1>3. DepsTo(w, k) \in SUBSET (1 .. Len(w)) /\ DepsTo(w, Len(w)) \in SUBSET (1 .. Len(w))
      /\ DepsTo(w, k + 1) \in SUBSET DepsTo(w, Len(w))
  BY <1>1 DEF DepsTo
<1>4. IsFiniteSet(DepsTo(w, k)) /\ IsFiniteSet(DepsTo(w, Len(w)))
  BY <1>2, <1>3, FS_Subset
<1>5. Cardinality(DepsTo(w, k)) \in Nat /\ Cardinality(DepsTo(w, k + 1)) <= Cardinality(DepsTo(w, Len(w)))
  BY <1>3, <1>4, FS_Subset, FS_CardinalityType
<1>6. Cardinality(DepsTo(w, 0)) = 0
  <2>1. DepsTo(w, 0) = {}
    BY <1>1 DEF DepsTo
  <2> QED
    BY <2>1, FS_EmptySet
<1>7. CASE NameOf(w[k + 1]) = "dependency" /\ w[k + 1].n >= 0
  <2>1. DepsTo(w, k + 1) = DepsTo(w, k) \cup {k + 1} /\ k + 1 \notin DepsTo(w, k)
    BY <1>1, <1>7 DEF DepsTo
  <2>2. Cardinality(DepsTo(w, k + 1)) = Cardinality(DepsTo(w, k)) + 1
    BY <1>4, <2>1, FS_AddElement
  <2> QED
    BY <1>4, <1>5, <1>6, <1>7, <2>2
<1>8. CASE ~(NameOf(w[k + 1]) = "dependency" /\ w[k + 1].n >= 0)
  <2>1. DepsTo(w, k + 1) = DepsTo(w, k)
    BY <1>1, <1>8 DEF DepsTo
  <2>2. Cardinality(DepsTo(w, k + 1)) = Cardinality(DepsTo(w, k)) + 0
    BY <1>5, <2>1
  <2> QED
    BY <1>4, <1>5, <1>6, <1>8, <2>2
<1> QED
  BY <1>7, <1>8

(* There are finitely many of them. *)
LEMMA FiniteTexts ==
  ASSUME NEW w \in Archives
  PROVE  Cardinality(TextsTo(w, Len(w))) \in Nat /\ Cardinality(DepsTo(w, Len(w))) \in Nat
<1> DEFINE C == TextsTo(w, Len(w))
           D == DepsTo(w, Len(w))
           P == (1 .. Len(w)) \X (1 .. MaxInt)
<1>1. IsFiniteSet(1 .. Len(w)) /\ IsFiniteSet(1 .. MaxInt)
  BY ArchiveIs, UpTo, MetadataAssumption
<1>2. IsFiniteSet(P)
  BY <1>1, FS_Product
<1>3. C \in SUBSET P /\ D \in SUBSET (1 .. Len(w))
  BY DEF TextsTo, DepsTo
<1> HIDE DEF C, D, P
<1>4. IsFiniteSet(C) /\ IsFiniteSet(D)
  BY <1>1, <1>2, <1>3, FS_Subset
<1>5. Cardinality(C) \in Nat /\ Cardinality(D) \in Nat
  BY <1>4, FS_CardinalityType
<1> QED
  BY <1>5 DEF C, D

(* A whole archive is read within the limits, or one that it exceeds is reported. *)
Within(w) ==
  /\ \/ outcome \in {"reading", "io", "allocation", "parsed"}
     \/ outcome \in Limited /\ Exceeds(outcome)
  /\ pc = "bytes" => Field \in Strings /\ Item.n <= limits.string
  /\ at >= 17 => w[17].n <= limits.entries
  /\ \A i \in 1 .. at : NameOf(w[i]) \in Strings => w[i].n <= limits.string
  /\ held = Cardinality(TextsTo(w, at)) /\ kept = Cardinality(DepsTo(w, at)) /\ dependencies <= U64Max
  /\ \A i \in Nat : ~(i .. i + limits.per_entry \subseteq DepsTo(w, at))

(* The reading of a whole archive is under way. *)
Whole(w) == Reading(w) /\ input = w /\ Within(w)

LimitInv == WrittenInv /\ \A w \in Archives : input = w => Within(w)

(* A whole archive is one of the archives that may be damaged. *)
LEMMA UndamagedIs ==
  ASSUME NEW w \in Archives, input = w
  PROVE  IsDamaged(w)
BY ArchiveIs DEF IsDamaged

(* What holds whenever an item is read. *)
LEMMA WholeIs ==
  ASSUME NEW w \in Archives, Whole(w), pc # "stopped"
  PROVE  /\ Following(w) /\ IInv /\ outcome = "reading" /\ at \in Nat /\ Len(w) \in Nat
         /\ at + 1 \in DOMAIN input <=> at < Len(input)
         /\ string_bytes = held + Pending
         /\ held = Cardinality(TextsTo(w, at)) /\ kept = Cardinality(DepsTo(w, at)) /\ dependencies = kept
         /\ DOMAIN input = 1 .. Len(w) /\ Len(input) = Len(w)
<1>1. /\ Following(w) /\ IInv /\ input = w
      /\ held = Cardinality(TextsTo(w, at)) /\ kept = Cardinality(DepsTo(w, at))
  BY DEF Whole, Reading, ReadsAs, Within
<1>2. outcome = "reading" /\ string_bytes = held + Pending /\ dependencies = kept
  BY <1>1 DEF IInv, MetadataInv, RetainedWithinLimits
<1>3. at \in Nat /\ DOMAIN input = 1 .. Len(w) /\ Len(w) \in Nat
  BY <1>1, ArchiveIs DEF Following
<1> QED
  BY <1>1, <1>2, <1>3

(* An error of the source or of memory, or a limit that the archive exceeds. *)
LEMMA FailWithin ==
  ASSUME NEW w \in Archives, Whole(w), NEW error, Fail(error),
         error \in {"io", "allocation"} \/ (error \in Limited /\ Exceeds(error))
  PROVE  Within(w)'
<1>1. input' = input /\ limits' = limits
  BY DEF Fail
<1>2. Exceeds(error) => Exceeds(error)'
  BY <1>1 DEF Exceeds, TextBytes, DependenciesOf, IsDependency
<1> QED
  BY <1>2 DEF Fail, Whole, Within, budgetVars, keptVars

(* More entries than the limit. *)
LEMMA EntriesExceed ==
  ASSUME NEW w \in Archives, Whole(w), pc # "stopped", at < Len(input),
         Field = "count", Item.n > limits.entries
  PROVE  Exceeds("entries")
<1>1. InHeader
  BY WholeIs, EntryOf
<1>2. at = 16
  BY <1>1, WholeIs, FieldInHeader
<1>3. Len(Header) = 17
  BY HeaderIs
<1> QED
  BY <1>2, <1>3 DEF Exceeds, Item

(* A string longer than the limit. *)
LEMMA StringExceeds ==
  ASSUME NEW w \in Archives, Whole(w), pc # "stopped", at < Len(input),
         Field \in Strings, Item.n > limits.string
  PROVE  Exceeds("string")
<1>1. at + 1 \in DOMAIN input /\ NameOf(input[at + 1]) \in Strings /\ input[at + 1].n > limits.string
  BY WholeIs, FieldIs DEF Item, Whole
<1> QED
  BY <1>1 DEF Exceeds

(* The strings that would be kept with this one are some of the archive's. *)
LEMMA StringsExceed ==
  ASSUME NEW w \in Archives, Whole(w), pc = "field", at < Len(input),
         Field \in Retained, Item.n >= 0, StringCharge # "none"
  PROVE  StringCharge \in Limited /\ Exceeds(StringCharge)
<1> DEFINE c == Cardinality(TextBytes)
           n == Item.n
<1>1. /\ Following(w) /\ IInv /\ at \in Nat /\ at < Len(w) /\ input = w
      /\ string_bytes = held /\ held = Cardinality(TextsTo(w, at)) /\ held \in Nat
  BY WholeIs DEF Whole, Pending, IInv, MetadataInv
<1>2. Item.n \in Int /\ NameOf(w[at + 1]) \in Retained /\ w[at + 1].n = Item.n
  BY <1>1, FieldIs, ItemsAreIntegers DEF IInv, MetadataInv, Item
<1>3. Cardinality(TextsTo(w, at + 1)) = held + Item.n
  BY <1>1, <1>2, TextsAreCounted
<1>4. held + Item.n <= Cardinality(TextsTo(w, Len(w)))
  BY <1>1, <1>3, TextsAreCounted
<1>5. TextsTo(w, Len(w)) = TextBytes
  BY <1>1, AllTexts
<1>6. c \in Int /\ string_bytes + n <= c
  <2>1. Cardinality(TextsTo(w, Len(w))) \in Nat
    BY FiniteTexts
  <2> QED
    BY <1>1, <1>4, <1>5, <2>1
<1>7. limits.strings \in Nat /\ U64Max \in Nat /\ string_bytes \in Nat /\ n \in Nat
  BY <1>1, <1>2, LimitsAreNumbers DEF IInv, MetadataInv
<1> HIDE DEF c, n
<1>8. CASE string_bytes + n > U64Max
  <2>1. StringCharge = "overflow" /\ c > U64Max
    BY <1>6, <1>7, <1>8 DEF StringCharge, ChargeError, n
  <2> QED
    BY <2>1 DEF Exceeds, Limited, c
<1>9. CASE ~(string_bytes + n > U64Max)
  <2>1. StringCharge = "strings" /\ string_bytes + n > limits.strings
    BY <1>9 DEF StringCharge, ChargeError, n
  <2>2. c > limits.strings
    BY <1>6, <1>7, <2>1
  <2> QED
    BY <2>1, <2>2 DEF Exceeds, Limited, c
<1> QED
  BY <1>8, <1>9

(* The dependencies that would be kept with this one are some of the archive's. *)
LEMMA DependenciesExceed ==
  ASSUME NEW w \in Archives, Whole(w), pc = "bytes", Field = "dependency", DependencyCharge # "none"
  PROVE  DependencyCharge \in Limited /\ Exceeds(DependencyCharge)
<1> DEFINE c == Cardinality(DependenciesOf)
<1>1. /\ Following(w) /\ IInv /\ at \in Nat /\ at < Len(w) /\ input = w
      /\ dependencies = Cardinality(DepsTo(w, at)) /\ dependencies \in Nat
  BY WholeIs DEF Whole, Reading, ReadsAs, IInv, MetadataInv
<1>2. Item.n >= 0 /\ NameOf(w[at + 1]) = "dependency" /\ w[at + 1].n = Item.n
  BY <1>1, FieldIs DEF IInv, MetadataInv, Item
<1>3. Cardinality(DepsTo(w, at + 1)) = dependencies + 1
  BY <1>1, <1>2, DependenciesAreCounted
<1>4. dependencies + 1 <= Cardinality(DepsTo(w, Len(w)))
  BY <1>1, <1>3, DependenciesAreCounted
<1>5. DepsTo(w, Len(w)) = DependenciesOf
  BY <1>1, AllTexts
<1>6. c \in Int /\ dependencies + 1 <= c
  <2>1. Cardinality(DepsTo(w, Len(w))) \in Nat
    BY FiniteTexts
  <2> QED
    BY <1>1, <1>4, <1>5, <2>1
<1>7. limits.dependencies \in Nat /\ U64Max \in Nat /\ dependencies \in Nat
  BY <1>1, LimitsAreNumbers DEF IInv, MetadataInv
<1> HIDE DEF c
<1>8. CASE dependencies + 1 > U64Max
  <2>1. DependencyCharge = "overflow" /\ c > U64Max
    BY <1>6, <1>7, <1>8 DEF DependencyCharge, ChargeError
  <2> QED
    BY <2>1 DEF Exceeds, Limited, c
<1>9. CASE ~(dependencies + 1 > U64Max)
  <2>1. DependencyCharge = "dependencies" /\ dependencies + 1 > limits.dependencies
    BY <1>9 DEF DependencyCharge, ChargeError
  <2>2. c > limits.dependencies
    BY <1>6, <1>7, <2>1
  <2> QED
    BY <2>1, <2>2 DEF Exceeds, Limited, c
<1> QED
  BY <1>8, <1>9

(* The list of the entry begins after a field that is no dependency, and goes up to here. *)
LEMMA ListIs ==
  ASSUME NEW w \in Archives, Following(w), at < Len(input), Field = "dependency"
  PROVE  \E b \in 1 .. at : /\ listed = at - b /\ NameOf(w[b]) # "dependency"
                            /\ \A k \in b + 1 .. at : NameOf(w[k]) = "dependency" /\ w[k].n >= 0
<1>1. PICK e \in Ends(w), j \in Ends(w) : InEntry(w, e, j) /\ InList(w, e, j)
  BY EntryOf
<1> DEFINE v == w[2].n
           p == Len(Leading(v))
<1>2. IsEntry(v, w, e, j)
  BY <1>1 DEF InEntry
<1>3. v \in 14 .. 16 /\ e \in 17 .. Len(w) /\ Len(w) \in Nat /\ j \in 17 .. Len(w)
  BY <1>2, ArchiveIs
<1>4. /\ p \in 15 .. 16 /\ e + p + 2 <= j
      /\ \A k \in 1 .. p : NameOf(w[e + k]) = Leading(v)[k]
      /\ \A k \in e + p + 1 .. j - 1 : NameOf(w[k]) = "dependency" /\ (w[k].n < 0 <=> k = j - 1)
  BY <1>2, EntryOfArchive
<1>5. DOMAIN Leading(v) = 1 .. p
  BY <1>3, LeadingIs
<1>6. \A k \in 1 .. p : Leading(v)[k] # "dependency"
  BY <1>3, <1>5, LeadingIs
<1>7. at \in Nat /\ e + p <= at /\ at < j - 1 /\ listed = at - (e + p)
  BY <1>1 DEF Following, InList, Body
<1> HIDE DEF v, p
<1>8. e + p \in 1 .. at /\ p \in 1 .. p
  BY <1>3, <1>4, <1>7
<1>9. NameOf(w[e + p]) # "dependency"
  BY <1>4, <1>6, <1>8
<1>10. ASSUME NEW k \in e + p + 1 .. at PROVE NameOf(w[k]) = "dependency" /\ w[k].n >= 0
  <2>1. k \in e + p + 1 .. j - 1 /\ k # j - 1 /\ k \in 1 .. Len(w)
    BY <1>3, <1>4, <1>7, <1>10
  <2>2. w[k].n \in Int
    BY <2>1, ArchiveNumbers
  <2> QED
    BY <1>4, <2>1, <2>2
<1> QED
  BY <1>7, <1>8, <1>9, <1>10

(* No entry's list is longer than the limit, one more dependency included. *)
LEMMA NoLongerList ==
  ASSUME NEW w \in Archives, Whole(w), pc # "stopped", at < Len(input),
         Field = "dependency" /\ Item.n >= 0 => listed < limits.per_entry
  PROVE  \A i \in Nat : ~(i .. i + limits.per_entry \subseteq DepsTo(w, at + 1))
<1> DEFINE l == limits.per_entry
<1>1. /\ Following(w) /\ at \in Nat /\ at < Len(w) /\ input = w /\ l \in Nat /\ listed \in Nat
      /\ \A i \in Nat : ~(i .. i + l \subseteq DepsTo(w, at))
  BY WholeIs, LimitsAreNumbers DEF Whole, Within, IInv, MetadataInv
<1>2. NameOf(w[at + 1]) = Field /\ w[at + 1] = Item
  BY <1>1, FieldIs DEF Item
<1> HIDE DEF l
<1>3. SUFFICES ASSUME NEW i \in Nat, i .. i + l \subseteq DepsTo(w, at + 1) PROVE FALSE
  BY DEF l
<1>4. \A k \in i .. i + l : k <= at + 1 /\ NameOf(w[k]) = "dependency" /\ w[k].n >= 0 /\ k \in 1 .. Len(w)
  BY <1>3 DEF DepsTo
<1>5. i + l \in i .. i + l
  BY <1>1
<1>6. i + l <= at + 1
  BY <1>4, <1>5
<1>7. i + l = at + 1
  <2> SUFFICES ASSUME i + l <= at PROVE FALSE
    BY <1>1, <1>6
  <2>1. \A k \in i .. i + l : k <= at
    BY <1>1
  <2>2. i .. i + l \subseteq DepsTo(w, at)
    BY <1>4, <2>1 DEF DepsTo
  <2> QED
    BY <1>1, <2>2
<1>8. Field = "dependency" /\ Item.n >= 0
  BY <1>2, <1>4, <1>5, <1>7
<1>9. PICK b \in 1 .. at : listed = at - b /\ NameOf(w[b]) # "dependency"
  BY <1>1, <1>8, ListIs
<1>10. listed < l
  BY <1>8 DEF l
<1>11. b \in i .. i + l
  BY <1>1, <1>7, <1>9, <1>10
<1> QED
  BY <1>4, <1>9, <1>11

(* A list that is full and goes on is longer than the limit. *)
LEMMA ListExceeds ==
  ASSUME NEW w \in Archives, Whole(w), pc = "bytes", Field = "dependency", ListIsFull
  PROVE  Exceeds("per_entry")
<1>1. /\ Following(w) /\ at \in Nat /\ at < Len(input) /\ input = w
      /\ limits.per_entry \in Nat /\ listed \in Nat /\ Item.n \in Nat
  BY LimitsAreNumbers, WholeIs DEF Whole, Reading, ReadsAs, IInv, MetadataInv
<1>2. NameOf(w[at + 1]) = "dependency" /\ w[at + 1].n >= 0
  BY <1>1, FieldIs DEF Item
<1>3. PICK b \in 1 .. at : /\ listed = at - b
                           /\ \A k \in b + 1 .. at : NameOf(w[k]) = "dependency" /\ w[k].n >= 0
  BY <1>1, ListIs
<1>4. listed >= limits.per_entry
  BY DEF ListIsFull
<1>5. ASSUME NEW k \in b + 1 .. (b + 1) + limits.per_entry
      PROVE  k \in DependenciesOf
  <2>1. k \in b + 1 .. at \/ k = at + 1
    <3>1. b \in Int /\ k \in Int /\ b + 1 <= k /\ k <= (b + 1) + limits.per_entry
      BY <1>1, <1>3
    <3> QED
      BY <1>1, <1>3, <1>4, <3>1
  <2>2. NameOf(w[k]) = "dependency" /\ w[k].n >= 0
    BY <1>2, <1>3, <2>1
  <2>3. k \in DOMAIN input
    <3>1. DOMAIN input = 1 .. Len(input) /\ Len(input) \in Nat
      BY <1>1 DEF Following
    <3> QED
      BY <1>1, <1>3, <2>1, <3>1
  <2> QED
    BY <1>1, <2>2, <2>3 DEF DependenciesOf, IsDependency
<1>6. b + 1 \in DOMAIN input
  <2>1. DOMAIN input = 1 .. Len(input) /\ Len(input) \in Nat
    BY <1>1 DEF Following
  <2> QED
    BY <1>1, <1>3, <2>1
<1> QED
  BY <1>5, <1>6 DEF Exceeds

(* An item is accepted that the limits allow. *)
LEMMA AcceptWithin ==
  ASSUME NEW w \in Archives, Whole(w), pc # "stopped", at < Len(input),
         at' = at + 1, input' = input, limits' = limits,
         outcome' \in {"reading", "parsed"}, pc' \in {"field", "stopped"},
         Field = "count" => Item.n <= limits.entries,
         Field \in Strings => Item.n <= limits.string,
         Field = "dependency" /\ Item.n >= 0 => listed < limits.per_entry,
         held' = held + (IF Field \in Retained /\ Item.n >= 0 THEN Item.n ELSE 0),
         kept' = kept + (IF Field = "dependency" /\ Item.n >= 0 THEN 1 ELSE 0),
         dependencies' <= U64Max
  PROVE  Within(w)'
<1>1. /\ Following(w) /\ at \in Nat /\ at < Len(w) /\ input = w /\ Len(w) \in Nat
      /\ at >= 17 => w[17].n <= limits.entries
      /\ \A i \in 1 .. at : NameOf(w[i]) \in Strings => w[i].n <= limits.string
      /\ held = Cardinality(TextsTo(w, at)) /\ kept = Cardinality(DepsTo(w, at))
  BY WholeIs DEF Whole, Within
<1>2. NameOf(w[at + 1]) = Field /\ w[at + 1] = Item
  BY <1>1, FieldIs DEF Item
<1>3. held' = Cardinality(TextsTo(w, at + 1))
  BY <1>1, <1>2, TextsAreCounted
<1>4. kept' = Cardinality(DepsTo(w, at + 1))
  BY <1>1, <1>2, DependenciesAreCounted
<1>5. \A i \in 1 .. at + 1 : NameOf(w[i]) \in Strings => w[i].n <= limits.string
  BY <1>1, <1>2
<1>6. at + 1 >= 17 => w[17].n <= limits.entries
  <2>1. CASE at >= 17
    BY <1>1, <2>1
  <2>2. CASE at = 16
    <3>1. NameOf(w[17]) = "count"
      <4>1. 17 \in 1 .. 17 /\ Header[17] = "count"
        BY HeaderIs
      <4> QED
        BY <4>1, ArchiveIs
    <3> QED
      BY <1>2, <2>2, <3>1
  <2> QED
    BY <1>1, <2>1, <2>2
<1>7. \A i \in Nat : ~(i .. i + limits.per_entry \subseteq DepsTo(w, at + 1))
  BY NoLongerList
<1> QED
  BY <1>3, <1>4, <1>5, <1>6, <1>7 DEF Within

(* A whole archive does not end before it has been read. *)
LEMMA NoEarlyEnd ==
  ASSUME NEW w \in Archives, Whole(w)
  PROVE  ~(pc = "field" /\ at = Len(input)) /\ ~(pc = "bytes" /\ at + 1 = Len(input))
<1> DEFINE p == Len(Leading(w[2].n))
<1>1. Len(w) \in Nat /\ Len(w) >= 17 /\ w[17].n \in Int
  BY ArchiveIs, ArchiveNumbers
<1>2. ASSUME pc = "field", at = Len(input) PROVE FALSE
  <2>1. Following(w) /\ at \in Nat /\ at = Len(w) /\ input = w
    BY <1>2, WholeIs DEF Whole
  <2>2. ~InHeader
    BY <1>1, <2>1 DEF InHeader
  <2>3. ASSUME NEW e \in Ends(w), NEW j \in Ends(w), InEntry(w, e, j) PROVE FALSE
    <3>1. IsEntry(w[2].n, w, e, j)
      BY <2>3 DEF InEntry
    <3>2. p \in 15 .. 16 /\ e + p + 2 <= j /\ j <= Len(w)
      BY <3>1, EntryOfArchive
    <3>3. j \in Int /\ e \in Int
      BY ArchiveNumbers
    <3>4. at < e + p \/ at < j - 1 \/ at = j - 1
      BY <2>3 DEF InEntry, InLeading, InList, AtLocation, Body
    <3> HIDE DEF p
    <3> QED
      BY <1>1, <2>1, <3>2, <3>3, <3>4
  <2>4. Counted(w, Len(w)) /\ left \in Nat
    BY <2>1, <2>2, <2>3 DEF Following, Stands, AtEnd
  <2>5. 17 \in Ends(w)
    BY ArchiveIs
  <2>6. Cardinality(EndsTo(w, Len(w))) = w[17].n + 1
    BY <2>5, EndsAreCounted
  <2> QED
    BY <1>1, <2>1, <2>4, <2>6 DEF Counted
<1>3. ASSUME pc = "bytes", at + 1 = Len(input) PROVE FALSE
  <2>1. /\ Following(w) /\ at \in Nat /\ at + 1 = Len(w) /\ input = w /\ at < Len(input)
        /\ Field \in Strings /\ Field = NameOf(w[at + 1])
    <3>1. /\ Following(w) /\ at \in Nat /\ at + 1 = Len(w) /\ input = w /\ at < Len(input)
          /\ Field \in Strings
      BY <1>3, WholeIs DEF Whole, Within, Reading, ReadsAs
    <3> QED
      BY <3>1, FieldIs
  <2>2. Field \notin {"count", "location"}
    BY <2>1 DEF Strings, Retained, RequiredStrings, OptionalStrings
  <2>3. CASE InHeader
    <3>1. at = 16
      BY <1>1, <2>1, <2>3 DEF InHeader
    <3> QED
      BY <2>1, <2>2, <2>3, <3>1, FieldInHeader
  <2>4. ASSUME NEW e \in Ends(w), NEW j \in Ends(w), InEntry(w, e, j) PROVE FALSE
    <3>1. IsEntry(w[2].n, w, e, j)
      BY <2>4 DEF InEntry
    <3>2. p \in 15 .. 16 /\ e + p + 2 <= j /\ j <= Len(w)
      BY <3>1, EntryOfArchive
    <3>3. j \in Int /\ e \in Int
      BY ArchiveNumbers
    <3>4. CASE AtLocation(j)
      BY <2>1, <2>2, <2>4, <3>4, FieldAtLocation
    <3>5. CASE ~AtLocation(j)
      <4>1. at < e + p \/ at < j - 1
        BY <2>4, <3>5 DEF InEntry, InLeading, InList, Body
      <4> HIDE DEF p
      <4> QED
        BY <1>1, <2>1, <3>2, <3>3, <4>1
    <3> QED
      BY <3>4, <3>5
  <2> QED
    BY <2>1, <2>3, <2>4, NotAtEnd
<1> QED
  BY <1>2, <1>3

(* Every step keeps a whole archive within the limits, or reports one that it exceeds. *)
LEMMA ReadValueWithin ==
  ASSUME NEW w \in Archives, Whole(w), ReadValue
  PROVE  Within(w)'
<1>1. /\ pc = "field" /\ at < Len(input) /\ IsFixed /\ Following(w) /\ IInv /\ Item = w[at + 1]
      /\ held \in Nat /\ kept \in Nat /\ dependencies <= U64Max
  BY WholeIs DEF ReadValue, Whole, Within, Item, IInv, MetadataInv
<1>2. InRange /\ ~Refused
  BY <1>1, ItemIs, ValueIsMeant
<1>3. Accept(Value) /\ Continue /\ UNCHANGED <<budgetVars, keptVars>>
  BY <1>2 DEF ReadValue
<1>4. Field \notin Strings \cup {"count"}
  BY <1>1 DEF IsFixed, Strings, Retained, RequiredStrings, OptionalStrings
<1>5. Field \notin Retained \cup {"dependency"}
  BY <1>4 DEF Strings
<1>6. outcome' \in {"reading", "parsed"} /\ pc' \in {"field", "stopped"}
  BY <1>1, <1>3, ContinueGoesOn
<1> QED
  BY <1>1, <1>3, <1>4, <1>5, <1>6, AcceptWithin DEF Accept, budgetVars, keptVars

LEMMA ReadCountWithin ==
  ASSUME NEW w \in Archives, Whole(w), ReadCount
  PROVE  Within(w)'
<1>1. /\ pc = "field" /\ at < Len(input) /\ Field = "count" /\ Following(w) /\ IInv /\ Item = w[at + 1]
      /\ held \in Nat /\ kept \in Nat /\ dependencies <= U64Max /\ outcome = "reading"
  BY WholeIs DEF ReadCount, Whole, Within, Item, IInv, MetadataInv
<1>2. InRange /\ Item.n \in Nat
  BY <1>1, ItemIs, CountIsMeant
<1>3. CASE Fail("entries") /\ Item.n > limits.entries
  <2>1. Exceeds("entries") /\ "entries" \in Limited
    BY <1>1, <1>3, EntriesExceed DEF Limited
  <2> QED
    BY <1>3, <2>1, FailWithin
<1>4. CASE Fail("allocation")
  BY <1>4, FailWithin
<1>5. CASE /\ ~(Item.n > limits.entries)
           /\ Accept(Item.n) /\ UNCHANGED <<version, listed, budgetVars, keptVars>>
           /\ \/ pc' = "stopped" /\ outcome' = "parsed"
              \/ UNCHANGED <<pc, outcome>>
  <2>1. Field \notin Strings /\ Field \notin Retained
    BY <1>1 DEF Strings, Retained, RequiredStrings, OptionalStrings
  <2>2. Item.n <= limits.entries
    BY <1>1, <1>2, <1>5, LimitsAreNumbers DEF IInv, MetadataInv
  <2>3. outcome' \in {"reading", "parsed"} /\ pc' \in {"field", "stopped"}
    BY <1>1, <1>5
  <2> QED
    BY <1>1, <1>5, <2>1, <2>2, <2>3, AcceptWithin DEF Accept, budgetVars, keptVars
<1>6. ~InRange => FALSE
  BY <1>2
<1>7. ~(Item.n < 0)
  BY <1>2
<1> QED
  BY <1>3, <1>4, <1>5, <1>6, <1>7 DEF ReadCount

LEMMA ReadLocationWithin ==
  ASSUME NEW w \in Archives, Whole(w), ReadLocation
  PROVE  Within(w)'
<1>1. /\ pc = "field" /\ at < Len(input) /\ Field = "location" /\ Following(w) /\ IInv /\ Item = w[at + 1]
      /\ held \in Nat /\ kept \in Nat /\ dependencies <= U64Max
  BY WholeIs DEF ReadLocation, Whole, Within, Item, IInv, MetadataInv
<1>2. Item.n \in 1 .. 3
  BY <1>1, LocationIsMeant
<1>3. /\ at' = at + 1 /\ UNCHANGED <<input, limits>>
      /\ Continue /\ UNCHANGED <<budgetVars, keptVars>>
  BY <1>2 DEF ReadLocation, Accept
<1>4. Field \notin Strings \cup Retained
  BY <1>1 DEF Strings, Retained, RequiredStrings, OptionalStrings
<1>5. outcome' \in {"reading", "parsed"} /\ pc' \in {"field", "stopped"}
  BY <1>1, <1>3, ContinueGoesOn
<1> QED
  BY <1>1, <1>3, <1>4, <1>5, AcceptWithin DEF budgetVars, keptVars

LEMMA ReadStringLengthWithin ==
  ASSUME NEW w \in Archives, Whole(w), ReadStringLength
  PROVE  Within(w)'
<1>1. /\ pc = "field" /\ at < Len(input) /\ Field \in Strings /\ Following(w) /\ IInv /\ Item = w[at + 1]
      /\ held \in Nat /\ kept \in Nat /\ dependencies <= U64Max /\ limits.string \in Nat
  BY WholeIs, LimitsAreNumbers DEF ReadStringLength, Whole, Within, Item, IInv, MetadataInv
<1>2. InRange /\ Item.n \in Int /\ (Item.n < 0 => Field \notin RequiredStrings)
  BY <1>1, ItemIs, StringIsMeant
<1>3. CASE Fail("string") /\ TooLong
  <2>1. Exceeds("string") /\ "string" \in Limited
    BY <1>1, <1>3, StringExceeds DEF Limited, TooLong
  <2> QED
    BY <1>3, <2>1, FailWithin
<1>4. CASE Item.n >= 0 /\ Field \in Retained /\ StringCharge # "none" /\ Fail(StringCharge)
  <2>1. StringCharge \in Limited /\ Exceeds(StringCharge)
    BY <1>1, <1>4, StringsExceed
  <2> QED
    BY <1>4, <2>1, FailWithin
<1>5. CASE Item.n < 0 /\ ReadNull
  <2>1. Accept("null") /\ Continue /\ UNCHANGED <<budgetVars, keptVars>>
    BY <1>2, <1>5 DEF ReadNull
  <2>2. outcome' \in {"reading", "parsed"} /\ pc' \in {"field", "stopped"}
    BY <1>1, <2>1, ContinueGoesOn
  <2>3. Item.n <= limits.string /\ ~(Item.n >= 0) /\ Field # "count"
    BY <1>1, <1>2, <1>5 DEF Strings, Retained, RequiredStrings, OptionalStrings
  <2> QED
    BY <1>1, <2>1, <2>2, <2>3, AcceptWithin DEF Accept, budgetVars, keptVars
<1>6. CASE /\ ~TooLong /\ pc' = "bytes"
           /\ UNCHANGED <<input, limits, at, todo, outcome, parsed, placeVars, dependencies, keptVars>>
  <2>1. Item.n <= limits.string
    BY <1>1, <1>2, <1>6 DEF TooLong
  <2>2. Item' = Item /\ Field' = Field
    BY <1>6 DEF Item, Field
  <2>3. outcome' = "reading"
    BY <1>1, <1>6, WholeIs
  <2>4. Within(w)
    BY DEF Whole
  <2> QED
    BY <1>1, <1>6, <2>1, <2>2, <2>3, <2>4 DEF Within, keptVars
<1>7. ReadNull => Item.n < 0
  BY DEF ReadNull
<1> QED
  BY <1>2, <1>3, <1>4, <1>5, <1>6, <1>7 DEF ReadStringLength

LEMMA ReadStringWithin ==
  ASSUME NEW w \in Archives, Whole(w), ReadString
  PROVE  Within(w)'
<1>1. /\ pc = "bytes" /\ at < Len(input) /\ Field \in Retained /\ Following(w) /\ IInv
      /\ held \in Nat /\ kept \in Nat /\ dependencies <= U64Max /\ Item.n <= limits.string /\ Item.n \in Nat
  BY WholeIs DEF ReadString, Whole, Reading, ReadsAs, Within, IInv, MetadataInv
<1>2. CASE Fail("allocation")
  BY <1>2, FailWithin
<1>3. CASE ~Fail("allocation")
  <2>1. Accept(Item.content) /\ Continue /\ held' = held + Item.n /\ UNCHANGED <<version, listed, budgetVars, kept>>
    BY <1>3 DEF ReadString
  <2>2. outcome' \in {"reading", "parsed"} /\ pc' \in {"field", "stopped"}
    BY <1>1, <2>1, ContinueGoesOn
  <2>3. Field \notin {"count", "dependency"} /\ Field \in Strings
    BY <1>1 DEF Strings, Retained, RequiredStrings, OptionalStrings
  <2> QED
    BY <1>1, <2>1, <2>2, <2>3, AcceptWithin DEF Accept, budgetVars
<1> QED
  BY <1>2, <1>3

LEMMA ReadDependencyWithin ==
  ASSUME NEW w \in Archives, Whole(w), ReadDependency
  PROVE  Within(w)'
<1>1. /\ pc = "bytes" /\ at < Len(input) /\ Field = "dependency" /\ Following(w) /\ IInv /\ Item = w[at + 1]
      /\ held \in Nat /\ kept \in Nat /\ dependencies \in Nat /\ Item.n <= limits.string /\ Item.n \in Nat
      /\ outcome = "reading"
  BY WholeIs DEF ReadDependency, Whole, Reading, ReadsAs, Within, Item, IInv, MetadataInv
<1>2. Item.content # "bad"
  BY <1>1, ItemIs
<1>3. CASE Fail("allocation")
  BY <1>3, FailWithin
<1>4. CASE ListIsFull /\ Fail("per_entry")
  <2>1. Exceeds("per_entry") /\ "per_entry" \in Limited
    BY <1>1, <1>4, ListExceeds DEF Limited
  <2> QED
    BY <1>4, <2>1, FailWithin
<1>5. CASE DependencyCharge # "none" /\ Fail(DependencyCharge)
  <2>1. DependencyCharge \in Limited /\ Exceeds(DependencyCharge)
    BY <1>1, <1>5, DependenciesExceed
  <2> QED
    BY <1>5, <2>1, FailWithin
<1>6. CASE /\ ~ListIsFull /\ DependencyCharge = "none" /\ Accept(Item.content) /\ pc' = "field"
           /\ dependencies' = dependencies + 1 /\ kept' = kept + 1
           /\ UNCHANGED <<version, todo, left, outcome, string_bytes, held>>
  <2>1. limits.per_entry \in Nat /\ U64Max \in Nat /\ listed \in Nat
    BY <1>1, LimitsAreNumbers DEF IInv, MetadataInv
  <2>2. dependencies' <= U64Max
    BY <1>1, <1>6, <2>1 DEF DependencyCharge, ChargeError
  <2>3. listed < limits.per_entry
    BY <1>6, <2>1 DEF ListIsFull
  <2>4. Field \notin Retained \cup {"count"} /\ Item.n >= 0
    BY <1>1 DEF Retained, RequiredStrings, OptionalStrings
  <2> QED
    BY <1>1, <1>6, <2>2, <2>3, <2>4, AcceptWithin DEF Accept
<1> QED
  BY <1>2, <1>3, <1>4, <1>5, <1>6 DEF ReadDependency

LEMMA InitWithin ==
  ASSUME NEW w \in Archives, input = w, Init
  PROVE  Within(w)
<1>1. 0 \in Nat /\ 0 < Len(w)
  <2>1. Len(w) \in Nat /\ Len(w) >= 17
    BY ArchiveIs
  <2> QED
    BY <2>1
<1>2. Cardinality(TextsTo(w, 0)) = 0 /\ Cardinality(DepsTo(w, 0)) = 0
  BY <1>1, TextsAreCounted, DependenciesAreCounted
<1>3. \A i \in Nat : ~(i .. i + limits.per_entry \subseteq DepsTo(w, 0))
  <2> SUFFICES ASSUME NEW i \in Nat PROVE i \notin DepsTo(w, 0) /\ i \in i .. i + limits.per_entry
    OBVIOUS
  <2>1. limits.per_entry \in Nat
    BY LimitsAreNumbers DEF Init
  <2> QED
    BY <2>1 DEF DepsTo
<1>4. /\ at = 0 /\ held = 0 /\ kept = 0 /\ dependencies = 0 /\ outcome = "reading" /\ pc = "field"
      /\ U64Max \in Nat
  BY MetadataAssumption DEF Init
<1>5. ~(at >= 17) /\ 1 .. at = {} /\ dependencies <= U64Max
  BY <1>4
<1> QED
  BY <1>2, <1>3, <1>4, <1>5 DEF Within

LEMMA NextWithin ==
  ASSUME LimitInv, [Next]_vars
  PROVE  LimitInv'
<1>1. WrittenInv'
  BY NextReads DEF LimitInv
<1>2. input' = input
  BY InputStays DEF LimitInv
<1>3. ASSUME NEW w \in Archives, (input = w)' PROVE Within(w)'
  <2>1. Whole(w)
    BY <1>2, <1>3, UndamagedIs DEF LimitInv, WrittenInv, Whole, Reading
  <2>2. CASE UNCHANGED vars
    <3>1. Within(w)
      BY <2>1 DEF Whole
    <3> QED
      BY <2>2, <3>1 DEF vars, Within, Exceeds, TextBytes, DependenciesOf, IsDependency, Field, Item
  <2>3. CASE InputEnds
    BY <2>1, <2>3, NoEarlyEnd DEF InputEnds
  <2>4. CASE InputFails
    BY <2>1, <2>4, FailWithin DEF InputFails
  <2> QED
    BY <2>1, <2>2, <2>3, <2>4, ReadValueWithin, ReadCountWithin, ReadLocationWithin, ReadStringLengthWithin,
       ReadStringWithin, ReadDependencyWithin DEF Next
<1> QED
  BY <1>1, <1>3 DEF LimitInv

(* The limits have then decided. *)
LEMMA LimitsAreExact ==
  ASSUME LimitInv
  PROVE  LimitsRefuseExactly
<1> SUFFICES ASSUME outcome \notin {"reading", "io", "allocation"}, NEW w \in Archives, input = w
             PROVE  IF outcome = "parsed" THEN \A limit \in Limited : ~Exceeds(limit)
                    ELSE outcome \in Limited /\ Exceeds(outcome)
  BY DEF LimitsRefuseExactly
<1>1. Within(w) /\ ReadsAs(w) /\ IInv
  BY UndamagedIs DEF LimitInv, WrittenInv
<1>2. CASE outcome # "parsed"
  BY <1>1, <1>2 DEF Within
<1>3. CASE outcome = "parsed"
  <2>1. at = Len(w) /\ at >= 17 /\ input = w /\ DOMAIN w = 1 .. Len(w)
    BY <1>1, <1>3, ArchiveIs DEF ReadsAs
  <2>2. /\ w[17].n <= limits.entries
        /\ held = Cardinality(TextsTo(w, Len(w))) /\ kept = Cardinality(DepsTo(w, Len(w)))
        /\ dependencies <= U64Max
    BY <1>1, <2>1 DEF Within
  <2>3. \A i \in DOMAIN w : NameOf(w[i]) \in Strings => w[i].n <= limits.string
    BY <1>1, <2>1 DEF Within
  <2>4. \A i \in Nat : ~(i .. i + limits.per_entry \subseteq DepsTo(w, Len(w)))
    BY <1>1, <2>1 DEF Within
  <2>5. held = Cardinality(TextBytes) /\ kept = Cardinality(DependenciesOf)
        /\ DepsTo(w, Len(w)) = DependenciesOf
    BY <2>2, AllTexts
  <2>6. /\ held <= limits.strings /\ held <= U64Max /\ kept <= limits.dependencies /\ kept <= U64Max
        /\ held \in Nat /\ kept \in Nat /\ limits \in LimitSets
    <3>1. /\ held <= string_bytes /\ string_bytes <= limits.strings /\ string_bytes <= U64Max
          /\ dependencies = kept /\ dependencies <= limits.dependencies
          /\ held \in Nat /\ kept \in Nat /\ string_bytes \in Nat /\ limits \in LimitSets
      BY <1>1 DEF IInv, MetadataInv, RetainedWithinLimits
    <3>2. limits.strings \in Nat /\ U64Max \in Nat
      BY <3>1, LimitsAreNumbers
    <3>3. held <= limits.strings /\ held <= U64Max
      BY <3>1, <3>2
    <3> QED
      BY <2>2, <3>1, <3>3
  <2>7. limits.strings \in Nat /\ limits.dependencies \in Nat /\ limits.entries \in Nat /\ limits.string \in Nat
        /\ U64Max \in Nat /\ Len(w) \in Nat /\ w[17].n \in Int /\ \A i \in 1 .. Len(w) : w[i].n \in Int
    BY <2>6, LimitsAreNumbers, ArchiveIs, ArchiveNumbers
  <2>8. ~Exceeds("entries")
    <3>1. Exceeds("entries") <=> w[17].n > limits.entries
      BY <2>1, HeaderIs DEF Exceeds
    <3>2. w[17].n <= limits.entries /\ w[17].n \in Int /\ limits.entries \in Int
      BY <2>2, <2>7
    <3>3. ~(w[17].n > limits.entries)
      BY <3>2
    <3> QED
      BY <3>1, <3>3
  <2>9. ~Exceeds("string")
    <3>1. Exceeds("string") <=> \E i \in DOMAIN w : NameOf(w[i]) \in Strings /\ w[i].n > limits.string
      BY <2>1 DEF Exceeds
    <3>2. ASSUME NEW i \in DOMAIN w, NameOf(w[i]) \in Strings PROVE ~(w[i].n > limits.string)
      <4>1. w[i].n <= limits.string /\ w[i].n \in Int /\ limits.string \in Int
        BY <2>1, <2>7, <2>3, <3>2
      <4> QED
        BY <4>1
    <3> QED
      BY <3>1, <3>2
  <2>10. ~Exceeds("strings") /\ ~Exceeds("overflow") /\ ~Exceeds("dependencies")
    BY <2>5, <2>6, <2>7 DEF Exceeds
  <2>11. ~Exceeds("per_entry")
    <3> SUFFICES ASSUME NEW i \in DOMAIN input PROVE ~\A j \in i .. i + limits.per_entry : j \in DependenciesOf
      BY DEF Exceeds
    <3>1. i \in Nat
      BY <2>1, <2>7
    <3> QED
      BY <2>5, <2>4, <3>1
  <2> QED
    BY <1>3, <2>8, <2>9, <2>10, <2>11 DEF Limited
<1> QED
  BY <1>2, <1>3

(* Whatever a whole archive contains and whatever the limits are: it is parsed only if
   it exceeds none of them, and an error that is no failure of the source or of memory
   names a limit that it exceeds.                                                     *)
THEOREM LimitsDecide == Spec => []LimitsRefuseExactly
<1>1. Init => LimitInv
  BY InitInv, InitReads, InitWithin DEF LimitInv, WrittenInv
<1>2. LimitInv /\ [Next]_vars => LimitInv'
  BY NextWithin
<1>3. LimitInv => LimitsRefuseExactly
  BY LimitsAreExact
<1> QED
  BY <1>1, <1>2, <1>3, PTL DEF Spec
=============================================================================
