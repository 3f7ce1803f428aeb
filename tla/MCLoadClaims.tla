----------------------------- MODULE MCLoadClaims -----------------------------
(* One directory for each claim. *)
EXTENDS MCLoad, LoadClaims

TWith(block) == <<CreateOf("t"), PlainColumn("a")>> \o block \o <<End>>

\* One id lists a column inside CREATE TABLE and an index after it.
CrossScopeDirectories ==
    {<<TWith(InTableBlock("x", "DROP", TRUE))
         \o <<OpenOf("x", "DROP", TRUE), NoteIndex, Closing>> >>}

\* A column of type BIGSERIAL.
SerialDirectories ==
    {<< <<CreateOf("t"), ColumnOf("a", Name("bigserial", << >>), {}), End>> >>}

ClaimTypes == MCTypes \cup {ColumnType[Name("bigserial", << >>)]}
ClaimLines == LinesOf(CrossScopeDirectories \cup SerialDirectories)
=============================================================================
