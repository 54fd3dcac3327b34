--------------------------- MODULE MCRuntimeSession ----------------------------
(* A study window for RuntimeSession: it starts after the first instant and  *)
(* ends before the last.                                                      *)
EXTENDS RuntimeSession

OneStudy == {<<2, 3>>}
=============================================================================
