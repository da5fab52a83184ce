----------------------------- MODULE MCServices -----------------------------
(***************************************************************************)
(* Constants of the TLC run of Services: every host of at most two labels  *)
(* with the empty ones, and globs with Star in either place or alone, with *)
(* an empty first label and with a port.                                   *)
(***************************************************************************)
EXTENDS Services, TLC

CONSTANTS x, y, yport

MCLabel     == {x, y}
MCPortLabel == {yport}
MCHosts     == UNION {[1..n -> MCLabel \union {NoLabel}] : n \in 1..2}
MCGlobs     == {<<x>>, <<Star>>, <<x, x>>, <<x, y>>, <<Star, y>>, <<x, Star>>, <<Star, Star>>,
                <<NoLabel, y>>, <<x, yport>>}
MCOrigins   == {<<Star, y>>}
=============================================================================
