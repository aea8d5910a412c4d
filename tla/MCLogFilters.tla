--------------------------- MODULE MCLogFilters ---------------------------
(* Two files in one directory, one of them with two lines; threads are     *)
(* interchangeable.                                                        *)
EXTENDS LogFilters, TLC

MCNames == {"d", "f", "g", "1", "2"}
MCLines == {<<"d", "f", "1">>, <<"d", "f", "2">>, <<"d", "g", "1">>}
MCSymmetry == Permutations(Tids)
===========================================================================
