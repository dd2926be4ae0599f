--------------------------- MODULE MCFileCommands ---------------------------
(* A card with directories three deep, and one name with an extension. *)
EXTENDS FileCommands

MCPaths == {<<>>, <<"d">>, <<"d", "d">>, <<"d", "d", "d">>, <<"d", "x">>, <<"e">>, <<"e", "d">>}
MCInputs == {<<<<"d">>, <<"e">>>>, <<<<"d", "x">>>>}
MCPlaces == {<<>>, <<"d">>}
MCTexts == {<<"t">>}
=============================================================================
