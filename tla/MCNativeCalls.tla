--------------------------- MODULE MCNativeCalls ----------------------------
(* Root module for TLC: one array and one map of at most two elements, and *)
(* ranges up and down, empty, and with a step that does not divide.        *)
EXTENDS NativeCalls

MCFirstArrays == {<<"true">>, <<"true", "false">>}
MCFirstMaps == {<<>>, <<<<"k", "true">>, <<"nan", "false">>>>, <<<<"l", "true">>, <<"k", "false">>, <<"k", "true">>>>}
MCRangeInputs == {<<0, 3, 2>>, <<2, -3, -2>>, <<1, 1, 0>>}
=============================================================================
