---------------------------- MODULE MCTeamIsolation ----------------------------
(***************************************************************************)
(* TeamIsolation for TLC: agents that change x, that write y from x and y  *)
(* (with flipX: write skew), and that overwrite y unread.                   *)
(***************************************************************************)
EXTENDS TeamIsolation, TLC

MCFacts == {"x", "y"}
MCBody == {"b0", "b1"}
MCPrograms == {"flipX", "copyY", "putY"}
MCReads(p) == CASE p = "flipX" -> {"x"} [] p = "copyY" -> {"x", "y"} [] p = "putY" -> {}
MCWrites(p) == IF p = "flipX" THEN {"x"} ELSE {"y"}
MCCompute(p, f, s) == CASE p = "flipX" -> IF s["x"] = "b0" THEN "b1" ELSE "b0"
                        [] p = "copyY" -> IF s["x"] = s["y"] THEN "b1" ELSE "b0"
                        [] p = "putY" -> "b1"
MCSymmetry == Permutations(Agents)
===============================================================================
