-------------------------- MODULE MCSessionLifecycle --------------------------
(***************************************************************************)
(* Model checking of SessionLifecycle.                                     *)
(***************************************************************************)
EXTENDS SessionLifecycle

(* Requests differ in their names only.                                    *)
AnyRequest == Permutations(Request)
===============================================================================
