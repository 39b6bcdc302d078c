--------------------------- MODULE SessionTopology ---------------------------
(***************************************************************************)
(* The Session Topology planner (internal/domain/session_topology.go):     *)
(* pure functions from a snapshot of the session records to the ids to     *)
(* delete and the surviving sessions to reparent.  A snapshot is a         *)
(* function s from session ids (positive, issued in increasing order and   *)
(* never reused) to records with at least the fields type, parent and      *)
(* onDelete.  The planner's error return is the field ok = FALSE.          *)
(*                                                                         *)
(* The code walks the tree with loops and closures.  Here the sets those   *)
(* walks compute are least fixed points, written without recursion so that *)
(* the modules built on this one can be proved about; MCSessionTree checks *)
(* them against the recursive walks, and the delete order as well.         *)
(***************************************************************************)
EXTENDS Integers, FiniteSets, SequencesExt

NoParent == -1

SessionType == {"main", "worktree", "secondary"}
OnDelete == {"cascade", "inherit"}

Children(s, id) == {c \in DOMAIN s : s[c].parent = id}
OfType(s, kind) == {i \in DOMAIN s : s[i].type = kind}

(* What the climb from id along parent pointers visits: it stops at a      *)
(* parentless session or at a parent that has no record.                   *)
UpClosed(s, id, C) ==
  \A x \in C \cup {id} : s[x].parent \in DOMAIN s => s[x].parent \in C
Ancestors(s, id) ==
  {a \in DOMAIN s : \A C \in SUBSET DOMAIN s : UpClosed(s, id, C) => a \in C}

(* What secondaryDescendantIDs collects: the walk descends only into       *)
(* secondary children.                                                     *)
DownClosed(s, id, C) ==
  \A c \in OfType(s, "secondary") : s[c].parent \in C \cup {id} => c \in C
SecondaryDescendants(s, id) ==
  {d \in DOMAIN s : \A C \in SUBSET DOMAIN s : DownClosed(s, id, C) => d \in C}

(* newTopologyIndex: no session climbs back to itself and no worktree      *)
(* hangs under a secondary.                                                *)
ValidIndex(s) ==
  /\ \A i \in DOMAIN s : i \notin Ancestors(s, i)
  /\ \A c \in OfType(s, "worktree") : s[c].parent \notin OfType(s, "secondary")

(* validateKnownParentChain: every positive parent on the way up has a     *)
(* record.                                                                 *)
KnownChain(s, id) ==
  \A a \in Ancestors(s, id) \cup {id} : s[a].parent > 0 => s[a].parent \in DOMAIN s

NoPlan == [ok |-> FALSE, delete |-> {}, reparent |-> <<>>]

(* Mutant: the worktree children of a removed worktree are left alone.     *)
RemovalWithoutReparent(s, id) ==
  IF ValidIndex(s) /\ id \in OfType(s, "worktree") /\ KnownChain(s, id)
    THEN [ok |-> TRUE, delete |-> SecondaryDescendants(s, id) \cup {id}, reparent |-> <<>>]
    ELSE NoPlan

(* Deleting a worktree: its secondary subtree cascades, its worktree       *)
(* children move to its parent.  Strict: a broken parent chain fails.      *)
PlanWorktreeRemoval(s, id) ==
  IF ValidIndex(s) /\ id \in OfType(s, "worktree") /\ KnownChain(s, id)
    THEN [ok |-> TRUE,
          delete |-> SecondaryDescendants(s, id) \cup {id},
          reparent |-> [c \in Children(s, id) \cap OfType(s, "worktree") |-> s[id].parent]]
    ELSE NoPlan

(* Parents are older than their children, so of the sessions on one climb  *)
(* the nearest is the one with the largest id.                             *)
Nearest(ids) ==
  LET newest == {a \in ids : \A b \in ids : b <= a}
  IN  IF newest = {} THEN NoParent ELSE CHOOSE a \in newest : TRUE

(* secondaryParentRoot: the main or worktree session a secondary under id  *)
(* is anchored to.                                                         *)
RootOf(s, id) == Nearest((Ancestors(s, id) \cup {id}) \ OfType(s, "secondary"))

(* sessionDepth: sessions on the climb to the nearest main or worktree,    *)
(* that root included.                                                     *)
Depth(s, id) == 1 + Cardinality((Ancestors(s, id) \cup {id}) \cap OfType(s, "secondary"))

(* The parent a surviving worktree gets when the sessions in pruned go:    *)
(* the nearest ancestor that stays, or none.                               *)
NearestKept(s, id, pruned) == Nearest(Ancestors(s, id) \ pruned)

(* Pruning worktrees whose directory vanished.  Tolerant: a missing        *)
(* ancestor makes the survivor parentless instead of failing the plan.     *)
PlanWorktreePrune(s, pruned) ==
  IF ValidIndex(s) /\ pruned \subseteq OfType(s, "worktree")
    THEN [ok |-> TRUE,
          delete |-> pruned \cup UNION {SecondaryDescendants(s, id) : id \in pruned},
          reparent |-> [c \in {w \in OfType(s, "worktree") \ pruned : s[w].parent \in pruned}
                          |-> NearestKept(s, c, pruned)]]
    ELSE NoPlan

(* Mutants: the children of an inheriting secondary go to the root; the    *)
(* policy is ignored.                                                      *)
InheritToRoot(s, id) ==
  IF s[id].onDelete = "inherit"
    THEN [ok |-> TRUE, delete |-> {id}, reparent |-> [c \in Children(s, id) |-> RootOf(s, id)]]
    ELSE [ok |-> TRUE, delete |-> SecondaryDescendants(s, id) \cup {id}, reparent |-> <<>>]
AlwaysInherit(s, id) ==
  [ok |-> TRUE, delete |-> {id}, reparent |-> [c \in Children(s, id) |-> s[id].parent]]

(* Deleting a secondary follows its own onDelete policy.                   *)
PlanSecondaryRemoval(s, id) ==
  IF ValidIndex(s) /\ id \in OfType(s, "secondary")
    THEN IF s[id].onDelete = "inherit"
           THEN [ok |-> TRUE, delete |-> {id},
                 reparent |-> [c \in Children(s, id) |-> s[id].parent]]
           ELSE [ok |-> TRUE,
                 delete |-> SecondaryDescendants(s, id) \cup {id},
                 reparent |-> <<>>]
    ELSE NoPlan

(* What carrying out a plan on the records it was made from leaves.        *)
Carried(s, plan) ==
  [i \in DOMAIN s \ plan.delete |->
     IF i \in DOMAIN plan.reparent THEN [s[i] EXCEPT !.parent = plan.reparent[i]] ELSE s[i]]

------------------------------------------------------------------------------
(* The walks of the code, and the order in which they emit delete ids.     *)

(* Mutant: the child, then its own subtree.                                *)
PreorderWalk(s, root) ==
  LET walk[n \in Nat] ==
        [id \in DOMAIN s |->
           IF n = 0 THEN <<>>
           ELSE FoldLeft(LAMBDA out, c : out \o <<c>> \o walk[n - 1][c], <<>>,
                         SetToSortSeq(Children(s, id) \cap OfType(s, "secondary"), <))]
  IN  walk[Cardinality(DOMAIN s)][root]

(* secondaryDescendantIDs: a child's own subtree, then the child.          *)
SecondaryWalk(s, root) ==
  LET walk[n \in Nat] ==
        [id \in DOMAIN s |->
           IF n = 0 THEN <<>>
           ELSE FoldLeft(LAMBDA out, c : out \o walk[n - 1][c] \o <<c>>, <<>>,
                         SetToSortSeq(Children(s, id) \cap OfType(s, "secondary"), <))]
  IN  walk[Cardinality(DOMAIN s)][root]

(* worktreePostorder: the pruned worktrees, children first.                *)
WorktreePostorder(s, pruned) ==
  LET visit[n \in Nat] ==
        [id \in pruned |->
           IF n = 0 THEN <<id>>
           ELSE FoldLeft(LAMBDA out, c : out \o visit[n - 1][c], <<>>,
                         SetToSortSeq(Children(s, id) \cap pruned, <)) \o <<id>>]
      roots == {id \in pruned : s[id].parent \notin pruned}
  IN  FoldLeft(LAMBDA out, r : out \o visit[Cardinality(pruned)][r], <<>>, SetToSortSeq(roots, <))

(* The climb of PlanWorktreePrune, one parent at a time.                   *)
ClimbToKept(s, id, pruned) ==
  LET up[n \in Nat] ==
        IF n = 0 THEN s[id].parent
        ELSE IF up[n - 1] \in pruned THEN s[up[n - 1]].parent ELSE up[n - 1]
      last == up[Cardinality(DOMAIN s)]
  IN  IF last \in DOMAIN s THEN last ELSE NoParent

(* The DeleteSessionIDs of the three plans, in order.                      *)
RemovalOrder(s, id) == Append(SecondaryWalk(s, id), id)
PruneOrder(s, pruned) ==
  FoldLeft(LAMBDA out, w : out \o SecondaryWalk(s, w), <<>>, SetToSortSeq(pruned, <))
    \o WorktreePostorder(s, pruned)
==============================================================================
