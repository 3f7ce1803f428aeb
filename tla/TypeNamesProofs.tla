--------------------------- MODULE TypeNamesProofs ---------------------------
(***************************************************************************)
(* What the conversions between the three names of a type keep, for every  *)
(* name, length and precision.                                             *)
(***************************************************************************)
EXTENDS TypeNames, TLAPS

-----------------------------------------------------------------------------
(* Names without lengths.                                                  *)

Aliases ==
    {"int", "integer", "bigint", "smallint", "boolean", "real", "double precision",
     "decimal", "character varying", "char", "character", "timestamp with time zone",
     "timestamp without time zone"}

Parsed ==
    {"int4", "int8", "int2", "bool", "float4", "float8", "numeric", "varchar", "bpchar",
     "timestamptz", "timestamp"}

LEMMA GrammarCases ==
    ASSUME NEW b \in STRING
    PROVE  GrammarName(b) \in Parsed \/ (b \notin Aliases /\ GrammarName(b) = b)
    BY Zenon DEF GrammarName, Parsed, Aliases

LEMMA NotAnAlias ==
    ASSUME NEW b \in STRING
    PROVE  GrammarName(b) \notin Aliases
    BY GrammarCases, Zenon DEF Parsed, Aliases

LEMMA FileCases ==
    ASSUME NEW b \in STRING
    PROVE  \/ b \in {"int4", "int"} /\ NamedForFiles(b) = "integer"
           \/ b = "int8" /\ NamedForFiles(b) = "bigint"
           \/ b = "int2" /\ NamedForFiles(b) = "smallint"
           \/ b = "varchar" /\ NamedForFiles(b) = "character varying"
           \/ b \notin {"int4", "int", "int8", "int2", "varchar"} /\ NamedForFiles(b) = b
    BY Zenon DEF NamedForFiles

LEMMA NamesAreStrings ==
    ASSUME NEW b \in STRING
    PROVE  GrammarName(b) \in STRING /\ NamedForFiles(b) \in STRING
<1>1. GrammarName(b) \in STRING
    BY GrammarCases, TypeNamesAssumption, Zenon DEF Parsed, Literals
<1>2. NamedForFiles(b) \in STRING
    BY FileCases, TypeNamesAssumption, Zenon DEF Literals
<1> QED
    BY <1>1, <1>2

\* What the first normalisation leaves needs no second one.
LEMMA FileNameIsFinal ==
    ASSUME NEW b \in STRING, b \notin Aliases
    PROVE  NamedForFiles(b) \notin {"varchar", "char", "int", "int4", "int8", "int2"}
    BY FileCases, Zenon DEF Aliases

LEMMA GrammarOfFileName ==
    ASSUME NEW b \in STRING, b \notin Aliases
    PROVE  GrammarName(NamedForFiles(b)) = b
<1>1. /\ GrammarName("integer") = "int4" /\ GrammarName("bigint") = "int8"
      /\ GrammarName("smallint") = "int2" /\ GrammarName("character varying") = "varchar"
    BY Zenon DEF GrammarName
<1>2. GrammarName(b) = b
    BY Zenon DEF GrammarName, Aliases
<1> QED
    BY <1>1, <1>2, FileCases, Zenon DEF Aliases

-----------------------------------------------------------------------------
(* Names with lengths.                                                     *)

LEMMA SameName ==
    ASSUME NEW m \in TypeName, NEW n \in TypeName,
           m.base = n.base, m.mods = n.mods, m.array = n.array
    PROVE  m = n
    BY DEF TypeName

LEMMA GrammarIs ==
    ASSUME NEW name \in TypeName
    PROVE  /\ Grammar[name].base = GrammarName(name.base)
           /\ Grammar[name].mods =
                 IF name.base \in {"char", "character"} /\ name.mods = << >> THEN <<1>>
                 ELSE name.mods
           /\ Grammar[name].array = name.array
           /\ Grammar[name] \in TypeName
<1> DEFINE parsed == GrammarName(name.base)
           length == IF name.base \in {"char", "character"} /\ name.mods = << >> THEN <<1>>
                     ELSE name.mods
<1>1. name.base \in STRING /\ name.mods \in Seq(Nat) /\ name.array \in BOOLEAN
    BY DEF TypeName
<1>2. Grammar[name] = [base |-> parsed, mods |-> length, array |-> name.array]
    BY Zenon DEF Grammar
<1>3. parsed \in STRING
    BY <1>1, NamesAreStrings
<1>4. length \in Seq(Nat)
    BY <1>1
<1> HIDE DEF parsed, length
<1>5. Grammar[name] \in TypeName
    BY <1>1, <1>2, <1>3, <1>4 DEF TypeName
<1>6. Grammar[name].base = parsed /\ Grammar[name].mods = length
      /\ Grammar[name].array = name.array
    BY <1>2
<1> QED
    BY <1>5, <1>6 DEF parsed, length

LEMMA FormatIs ==
    ASSUME NEW name \in TypeName
    PROVE  /\ FormatTypeName[name] =
                 [base |-> NamedForFiles(name.base), mods |-> name.mods, array |-> FALSE]
           /\ FormatTypeName[name] \in TypeName
<1>1. name.base \in STRING /\ name.mods \in Seq(Nat)
    BY DEF TypeName
<1>2. NamedForFiles(name.base) \in STRING
    BY <1>1, NamesAreStrings
<1>3. FormatTypeName[name] =
          [base |-> NamedForFiles(name.base), mods |-> name.mods, array |-> FALSE]
    BY Zenon DEF FormatTypeName
<1> QED
    BY <1>1, <1>2, <1>3 DEF TypeName

\* A column gets what format_type_name made of the parsed name.
LEMMA ColumnTypeIs ==
    ASSUME NEW name \in TypeName
    PROVE  /\ ColumnType[name] =
                 [base |-> NamedForFiles(GrammarName(name.base)),
                  mods |-> Grammar[name].mods, array |-> FALSE]
           /\ ColumnType[name] \in TypeName
<1> DEFINE g == Grammar[name]
           f == FormatTypeName[g]
<1>1. /\ g \in TypeName /\ g.base = GrammarName(name.base)
      /\ f = [base |-> NamedForFiles(g.base), mods |-> g.mods, array |-> FALSE]
      /\ f \in TypeName
    BY GrammarIs, FormatIs
<1>2. ColumnType[name] = NormalizeType[f]
    BY Zenon DEF ColumnType
<1>3. g.base \in STRING /\ g.base \notin Aliases
    BY <1>1, NotAnAlias DEF TypeName
<1>4. f.base = NamedForFiles(g.base) /\ f.mods = g.mods /\ f.array = FALSE
    BY <1>1
<1>5. f.base \notin {"varchar", "char", "int", "int4", "int8", "int2"}
    BY <1>3, <1>4, FileNameIsFinal, Zenon
<1>6. CASE f.base = "character varying"
  <2>1. NormalizeType[f] =
            [base |-> "character varying", mods |-> f.mods, array |-> f.array /\ f.mods # << >>]
      BY <1>1, <1>6, Zenon DEF NormalizeType
  <2>2. (f.array /\ f.mods # << >>) = FALSE
      BY <1>4
  <2> QED
      BY <1>1, <1>2, <1>4, <1>6, <2>1, <2>2
<1>7. CASE f.base # "character varying"
  <2>1. NormalizeType[f] = f
      BY <1>1, <1>5, <1>7, Zenon DEF NormalizeType
  <2> QED
      BY <1>1, <1>2, <2>1
<1> QED
    BY <1>6, <1>7

\* A column that is created with the type the loader has made of its name has
\* the type that its own CREATE TABLE would have given it, lengths and
\* precisions included, unless it is an array, of which only the element is
\* left (format_type_name, normalize_type).
THEOREM TypesAreKept ==
    \A name \in TypeName : ~name.array => Grammar[ColumnType[name]] = Grammar[name]
<1> SUFFICES ASSUME NEW name \in TypeName, ~name.array
             PROVE  Grammar[ColumnType[name]] = Grammar[name]
    OBVIOUS
<1> DEFINE g == Grammar[name]
           c == ColumnType[name]
<1>1. g \in TypeName /\ g.base = GrammarName(name.base) /\ g.array = FALSE
    BY GrammarIs DEF TypeName
<1>2. /\ c \in TypeName
      /\ c.base = NamedForFiles(g.base) /\ c.mods = g.mods /\ c.array = FALSE
  <2>1. c = [base |-> NamedForFiles(g.base), mods |-> g.mods, array |-> FALSE]
      BY <1>1, ColumnTypeIs, Zenon
  <2>2. c \in TypeName
      BY ColumnTypeIs, Zenon
  <2> HIDE DEF c, g
  <2> QED
      BY <2>1, <2>2
<1>3. g.base \in STRING /\ g.base \notin Aliases
    BY <1>1, NotAnAlias DEF TypeName
<1>4. GrammarName(c.base) = g.base
    BY <1>2, <1>3, GrammarOfFileName
<1>5. c.base \notin {"char", "character"}
    BY <1>2, <1>3, FileCases, Zenon DEF Aliases
<1>6. /\ Grammar[c] \in TypeName
      /\ Grammar[c].base = g.base /\ Grammar[c].mods = g.mods /\ Grammar[c].array = g.array
    BY <1>1, <1>2, <1>4, <1>5, GrammarIs
<1> QED
    BY <1>1, <1>6, SameName, Zenon

-----------------------------------------------------------------------------
(* Names that come back.                                                   *)

Plain == {"integer", "bigint", "smallint", "boolean", "text", "numeric", "timestamptz", "timestamp"}

\* Names that introspection shows as the loader writes them: without a length,
\* or of characters.
IsSettled(c) ==
    /\ c \in TypeName /\ ~c.array
    /\ \/ c.base \in Plain /\ c.mods = << >>
       \/ c.base = "character varying"
       \/ c.base = "character" /\ c.mods # << >>

\* What is read of the column, with the type that the parser made of the name.
Shown(t) == [base |-> DataType[t], mods |-> MaximumLength[t], array |-> FALSE]

LEMMA Renamed ==
    ASSUME NEW m \in TypeName, NEW n \in TypeName, m.mods = n.mods, m.array = n.array
    PROVE  [m EXCEPT !.base = n.base] = n
<1> DEFINE r == [m EXCEPT !.base = n.base]
<1>1. r \in TypeName /\ r.base = n.base /\ r.mods = m.mods /\ r.array = m.array
    BY DEF TypeName
<1> HIDE DEF r
<1>2. r = n
    BY <1>1, SameName
<1> QED
    BY <1>2 DEF r

LEMMA PlainNames ==
    ASSUME NEW b \in Plain \cup {"character varying", "character"}, NEW t \in TypeName,
           t.base = GrammarName(b), ~t.array
    PROVE  /\ Stored(t) = t
           /\ \/ DataType[t] = b
              \/ b = "timestamptz" /\ DataType[t] = "timestamp with time zone"
              \/ b = "timestamp" /\ DataType[t] = "timestamp without time zone"
           /\ (b = "character varying" <=> t.base = "varchar")
           /\ (b = "character" <=> t.base = "bpchar")
<1>1. /\ b = "integer" => t.base = "int4"
      /\ b = "bigint" => t.base = "int8"
      /\ b = "smallint" => t.base = "int2"
      /\ b = "character varying" => t.base = "varchar"
      /\ b = "character" => t.base = "bpchar"
      /\ b = "boolean" => t.base = "bool"
      /\ b \in {"text", "numeric", "timestamptz", "timestamp"} => t.base = b
    BY Zenon DEF GrammarName
<1>2. t.base \notin {"serial", "bigserial", "smallserial"}
    BY <1>1, Zenon DEF Plain
<1>3. Stored(t) = [t EXCEPT !.base = t.base]
    BY <1>2, Zenon DEF Stored
<1>4. Stored(t) = t
    BY <1>3 DEF TypeName
<1>5. \/ DataType[t] = b
      \/ b = "timestamptz" /\ DataType[t] = "timestamp with time zone"
      \/ b = "timestamp" /\ DataType[t] = "timestamp without time zone"
    BY <1>1, Zenon DEF DataType, Plain
<1>6. b = "character varying" <=> t.base = "varchar"
    BY <1>1, Zenon DEF Plain
<1>7. b = "character" <=> t.base = "bpchar"
    BY <1>1, Zenon DEF Plain
<1> QED
    BY <1>4, <1>5, <1>6, <1>7

\* Integers, booleans, text, numeric and timestamps without a precision,
\* varchar of any length and characters of a given one are shown by the
\* catalog as the loader names them, so that no run alters them
\* (list_columns, normalize_info_schema_type).
THEOREM PlainTypesSettle ==
    \A c \in TypeName : IsSettled(c) => ReadBack[c] = c
<1> SUFFICES ASSUME NEW c \in TypeName, IsSettled(c)
             PROVE  ReadBack[c] = c
    OBVIOUS
<1>0. /\ ~c.array
      /\ \/ c.base \in Plain /\ c.mods = << >>
         \/ c.base = "character varying"
         \/ c.base = "character" /\ c.mods # << >>
    BY DEF IsSettled
<1> DEFINE t == Grammar[c]
<1>1. c.base \in {"char", "character"} => c.mods # << >>
    BY <1>0, Zenon DEF Plain
<1>2. /\ t \in TypeName /\ t.base = GrammarName(c.base) /\ t.mods = c.mods /\ ~t.array
    BY <1>0, <1>1, GrammarIs
<1>3. /\ Stored(t) = t
      /\ \/ DataType[t] = c.base
         \/ c.base = "timestamptz" /\ DataType[t] = "timestamp with time zone"
         \/ c.base = "timestamp" /\ DataType[t] = "timestamp without time zone"
      /\ (c.base = "character varying" <=> t.base = "varchar")
      /\ (c.base = "character" <=> t.base = "bpchar")
  <2>1. c.base \in Plain \cup {"character varying", "character"}
      BY <1>0
  <2> QED
      BY <1>2, <2>1, PlainNames, Zenon
<1>4. MaximumLength[t] = c.mods
  <2>1. MaximumLength[t] =
            IF t.base \in {"varchar", "bpchar"} /\ ~t.array THEN t.mods ELSE << >>
      BY <1>2, Zenon DEF MaximumLength
  <2> QED
      BY <1>0, <1>2, <1>3, <2>1
<1>5. ReadBack[c] = NormalizeInfoSchemaType[Shown(t)]
    BY <1>3, Zenon DEF ReadBack, Shown
<1> DEFINE d == DataType[t]
           shown == Shown(t)
<1>6. shown = [base |-> d, mods |-> c.mods, array |-> FALSE]
    BY <1>4, Zenon DEF Shown
<1>7. Shown(t) \in TypeName
  <2>1. d \in STRING
      BY <1>3, TypeNamesAssumption, Zenon DEF Literals, TypeName
  <2>2. c.mods \in Seq(Nat)
      BY DEF TypeName
  <2> HIDE DEF d, shown
  <2>3. shown \in TypeName
      BY <1>6, <2>1, <2>2 DEF TypeName
  <2> QED
      BY <2>3 DEF shown
<1>8. NormalizeInfoSchemaType[Shown(t)] = [Shown(t) EXCEPT !.base = c.base]
  <2>1. Shown(t).base = DataType[t]
      BY DEF Shown
  <2> HIDE DEF t
  <2>2. CASE DataType[t] = c.base
    <3>1. c.base \notin {"timestamp with time zone", "timestamp without time zone"}
        BY <1>0, Zenon DEF Plain
    <3>2. NormalizeInfoSchemaType[Shown(t)] = Shown(t)
        BY <1>7, <2>1, <2>2, <3>1, Zenon DEF NormalizeInfoSchemaType
    <3> QED
        BY <2>1, <2>2, <3>2 DEF Shown
  <2>3. CASE c.base = "timestamptz" /\ DataType[t] = "timestamp with time zone"
      BY <1>7, <2>1, <2>3, Zenon DEF NormalizeInfoSchemaType
  <2>4. CASE c.base = "timestamp" /\ DataType[t] = "timestamp without time zone"
      BY <1>7, <2>1, <2>4, Zenon DEF NormalizeInfoSchemaType
  <2> QED
      BY <1>3, <2>2, <2>3, <2>4
<1> HIDE DEF t
<1>9. Shown(t).mods = c.mods /\ Shown(t).array = c.array
  <2>1. c.array = FALSE
      BY <1>0 DEF TypeName
  <2> HIDE DEF d, shown
  <2>2. shown.mods = c.mods /\ shown.array = FALSE
      BY <1>6
  <2> QED
      BY <2>1, <2>2 DEF shown
<1>10. [Shown(t) EXCEPT !.base = c.base] = c
    BY <1>7, <1>9, Renamed, Zenon
<1> QED
    BY <1>5, <1>8, <1>10, Zenon
=============================================================================
