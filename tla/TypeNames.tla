------------------------------ MODULE TypeNames ------------------------------
(***************************************************************************)
(* Names of column types.  A type has three: the one in the file, the one  *)
(* the planner compares, and the one the catalog shows.  A name is a record*)
(* [base, mods, array], so "varchar(20)" is                                *)
(* [base |-> "varchar", mods |-> <<20>>, array |-> FALSE].                 *)
(***************************************************************************)
EXTENDS Sequences, Naturals

TypeName == [base : STRING, mods : Seq(Nat), array : BOOLEAN]

\* The names that this module writes down.
Literals ==
    {"int4", "int8", "int2", "bool", "float4", "float8", "numeric", "varchar", "bpchar",
     "timestamptz", "timestamp", "integer", "bigint", "smallint", "character varying",
     "character", "boolean", "real", "double precision", "array",
     "timestamp with time zone", "timestamp without time zone"}

ASSUME TypeNamesAssumption == Literals \subseteq STRING

-----------------------------------------------------------------------------
(* The parser, in pg_query and in the server alike: keywords stand for     *)
(* types of pg_catalog, every other name for itself.                       *)

GrammarName(base) ==
    CASE base \in {"int", "integer"} -> "int4"
      [] base = "bigint" -> "int8"
      [] base = "smallint" -> "int2"
      [] base = "boolean" -> "bool"
      [] base = "real" -> "float4"
      [] base = "double precision" -> "float8"
      [] base = "decimal" -> "numeric"
      [] base = "character varying" -> "varchar"
      [] base \in {"char", "character"} -> "bpchar"
      [] base = "timestamp with time zone" -> "timestamptz"
      [] base = "timestamp without time zone" -> "timestamp"
      [] OTHER -> base

Grammar[name \in TypeName] ==
    [base |-> GrammarName(name.base),
     mods |-> IF name.base \in {"char", "character"} /\ name.mods = << >> THEN <<1>>
              ELSE name.mods,
     array |-> name.array]

-----------------------------------------------------------------------------
(* Names on the side of the files.                                         *)

\* Mutant: one alias is forgotten.
NamedWithoutInt8(base) ==
    CASE base \in {"int4", "int"} -> "integer"
      [] base = "int2" -> "smallint"
      [] base = "varchar" -> "character varying"
      [] OTHER -> base

\* Mutant: small integers become integers.
NamedTooWide(base) ==
    CASE base \in {"int4", "int2", "int"} -> "integer"
      [] base = "int8" -> "bigint"
      [] base = "varchar" -> "character varying"
      [] OTHER -> base

NamedForFiles(base) ==
    CASE base \in {"int4", "int"} -> "integer"
      [] base = "int8" -> "bigint"
      [] base = "int2" -> "smallint"
      [] base = "varchar" -> "character varying"
      [] OTHER -> base

\* The brackets of an array are not part of what is formatted.
FormatTypeName[name \in TypeName] ==
    [base |-> NamedForFiles(name.base), mods |-> name.mods, array |-> FALSE]

\* normalize_type: the prefix "varchar" is enough, and only what is in
\* parentheses follows it.
NormalizeType[name \in TypeName] ==
    LET whole == name.mods = << >> /\ ~name.array
    IN  CASE name.base \in {"varchar", "character varying"} ->
                [base |-> "character varying", mods |-> name.mods,
                 array |-> name.array /\ name.mods # << >>]
          [] name.base = "char" /\ name.mods # << >> -> [name EXCEPT !.base = "character"]
          [] name.base \in {"int", "int4", "int8", "int2"} /\ whole ->
                [name EXCEPT !.base = NamedForFiles(@)]
          [] OTHER -> name

\* Columns of CREATE TABLE are parsed; in "removed:" the name stands as it
\* is written.
ColumnType[name \in TypeName] == NormalizeType[FormatTypeName[Grammar[name]]]

-----------------------------------------------------------------------------
(* Names on the side of the database.                                      *)

\* A serial type is shorthand for an integer with a default.
Stored(type) ==
    [type EXCEPT !.base = CASE @ = "serial" -> "int4"
                            [] @ = "bigserial" -> "int8"
                            [] @ = "smallserial" -> "int2"
                            [] OTHER -> @]

\* information_schema.columns.data_type
DataType[type \in TypeName] ==
    CASE type.array -> "array"
      [] type.base = "int4" -> "integer"
      [] type.base = "int8" -> "bigint"
      [] type.base = "int2" -> "smallint"
      [] type.base = "bool" -> "boolean"
      [] type.base = "float4" -> "real"
      [] type.base = "float8" -> "double precision"
      [] type.base = "varchar" -> "character varying"
      [] type.base = "bpchar" -> "character"
      [] type.base = "timestamptz" -> "timestamp with time zone"
      [] type.base = "timestamp" -> "timestamp without time zone"
      [] OTHER -> type.base

\* information_schema.columns.character_maximum_length: no other length or
\* precision is queried.
MaximumLength[type \in TypeName] ==
    IF type.base \in {"varchar", "bpchar"} /\ ~type.array THEN type.mods ELSE << >>

NormalizeInfoSchemaType[name \in TypeName] ==
    CASE name.base = "timestamp with time zone" -> [name EXCEPT !.base = "timestamptz"]
      [] name.base = "timestamp without time zone" -> [name EXCEPT !.base = "timestamp"]
      [] OTHER -> name

\* What introspection reads of a column that was created with this name.
ReadBack[name \in TypeName] ==
    LET type == Stored(Grammar[name])
    IN  NormalizeInfoSchemaType[
            [base |-> DataType[type], mods |-> MaximumLength[type], array |-> FALSE]]
=============================================================================
