----------------------------- MODULE MCConsole -----------------------------
(* Resolutions from the smallest the assumption allows upwards, so that     *)
(* every position of the edge relative to the cells occurs, and the         *)
(* fallback for a firmware that reports none.                               *)
EXTENDS Console

MCWidths == {0} \cup 18 .. 45
MCHeights == {0} \cup 26 .. 65
=============================================================================
