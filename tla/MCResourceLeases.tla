--------------------------- MODULE MCResourceLeases ---------------------------
(***************************************************************************)
(* Instances of ResourceLeases for TLC: the project of each session, and   *)
(* the ranges asked for.                                                   *)
(***************************************************************************)
EXTENDS ResourceLeases

OneSession == <<1>>
OneProject == <<1, 1>>
Apart == <<1, 2>>

TwoPorts == {{1, 2}}
==============================================================================
