--------------------------- MODULE MCRevisionDag ----------------------------
(***************************************************************************)
(* Revisions of up to three files at up to three levels.                   *)
(***************************************************************************)
EXTENDS RevisionDag

(* Empty, one chunk, a repeated interior node, at the budget, beyond it.   *)
MCContents == {<<>>, <<"x">>, <<"x", "y", "x", "y">>, <<"x", "x", "y", "x", "y">>,
               <<"x", "y", "x", "y", "x", "y">>}

=============================================================================
