------------------------------ MODULE MCClaims ------------------------------
(* One database and one set of files for each claim.                       *)
EXTENDS MCRunner, Claims

Same(c, f) == SameFiles({c}, {f})

\* An index to create, with a build that may fail.
BuildScenarios ==
    Same(CatalogOf("t" :> TKeyed, NoFunction),
         FilesOf("t" :> TKeyed, OnT, NoFunction, {}))

\* One deployment drops "t", listing its columns; the other adds one to it.
StaleScenarios ==
    {[catalog |-> CatalogOf("t" :> TableOf("id" :> Id), NoFunction),
      files |-> [r1 |-> FilesOf(NoFunction, NoFunction, "t" :> TableOf("id" :> Id), {}),
                 r2 |-> FilesOf("t" :> TableOf(ABoth), NoFunction, NoFunction, {})]]}

\* "t" and the foreign key of "u" to it are both to go.
DependentScenarios ==
    Same(CatalogOf(Both, NoFunction),
         FilesOf("u" :> TableOf(ABoth), NoFunction, "t" :> TableOf(ABoth),
                 {Everything("DROP")}))
=============================================================================
