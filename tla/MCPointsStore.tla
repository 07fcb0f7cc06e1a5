--------------------------- MODULE MCPointsStore ---------------------------
(* Two points, two sectors; defaults differ from every written value.      *)
EXTENDS PointsStore
CONSTANTS d
MCDefault(k) == d
=============================================================================
