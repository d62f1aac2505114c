------------------------------ MODULE MCWbaStr ------------------------------
(***************************************************************************)
(* Strings with and without a terminator inside; separators that are the   *)
(* terminator, a letter, or both.                                          *)
(***************************************************************************)
EXTENDS WbaStr

MCStrs == {<<>>, <<1>>, <<1, 0>>, <<0, 1, 0, 1>>}
MCSeps == {{0}, {0, 1}}
MCCaps == {0, 2, 5, SizeMax - 1}
MCCapsMax == {2, SizeMax}
=============================================================================
