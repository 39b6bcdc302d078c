---------------------------- MODULE MCSessionTree ----------------------------
(***************************************************************************)
(* Model checking of SessionTree, and of the planner's declarative sets    *)
(* against the walks of the code on every tree it reaches.                 *)
(***************************************************************************)
EXTENDS SessionTree

(* The least fixed points the modules use are what the loops of the code   *)
(* compute, on every reachable tree and every set of missing worktrees,    *)
(* and the lists of those loops name a child before its parent and no id   *)
(* twice (ADR-0014: "so repository deletion remains safe").                *)
ChildFirst(order) ==
  \A j, k \in DOMAIN order :
    /\ order[j] = order[k] => j = k
    /\ sessions[order[j]].parent = order[k] => j < k
WalksAgree ==
  /\ \A i \in DOMAIN sessions :
       /\ ToSet(SecondaryWalk(sessions, i)) = SecondaryDescendants(sessions, i)
       /\ ChildFirst(RemovalOrder(sessions, i))
  /\ \A gone \in SUBSET OfType(sessions, "worktree") :
       /\ ToSet(PruneOrder(sessions, gone)) = PlanWorktreePrune(sessions, gone).delete
       /\ ChildFirst(PruneOrder(sessions, gone))
       /\ \A w \in OfType(sessions, "worktree") \ gone :
            ClimbToKept(sessions, w, gone) = NearestKept(sessions, w, gone)
==============================================================================
