----------------------------- MODULE MCScreenshots -----------------------------
(* Two images, the second of which may be begun while the first is pending.   *)
EXTENDS Screenshots

MCImages == 1 .. 2
=============================================================================
