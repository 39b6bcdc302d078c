----------------------------- MODULE SessionTree -----------------------------
(***************************************************************************)
(* The Session Topology of one Project as its documents promise it         *)
(* (ADR-0006, ADR-0010, ADR-0014): every create, delete and prune reads    *)
(* the records, plans and writes in one step.  SessionLifecycle has the    *)
(* same operations with the locks, git and tmux calls that separate those  *)
(* steps in the code.                                                      *)
(***************************************************************************)
EXTENDS SessionTopology

CONSTANTS
  MaxSessions,  \* bound on the ids issued; the code has none
  MaxDepth      \* createSecondary's limit on nesting below a root, 5 in the code

ASSUME SessionTreeAssumption ==
  /\ MaxSessions \in Nat \ {0}
  /\ MaxDepth \in Nat \ {0}

VARIABLES
  sessions,  \* the session records: id -> [type, parent, onDelete]
  nextID,    \* the repository's id counter
  missing    \* worktree sessions whose directory is gone from disk

vars == <<sessions, nextID, missing>>

MainID == 1
SessionID == 1 .. MaxSessions
Record == [type: SessionType, parent: SessionID \cup {NoParent}, onDelete: OnDelete]

TypeOK ==
  /\ DOMAIN sessions \subseteq SessionID
  /\ sessions \in [DOMAIN sessions -> Record]
  /\ nextID \in 1 .. (MaxSessions + 1)
  /\ missing \in SUBSET SessionID

------------------------------------------------------------------------------
(* Opening a Project creates its Main Session.                             *)
Init ==
  /\ sessions = [i \in {MainID} |-> [type |-> "main", parent |-> NoParent, onDelete |-> "cascade"]]
  /\ nextID = MainID + 1
  /\ missing = {}

Add(record) ==
  /\ nextID \in SessionID
  /\ sessions' = [i \in DOMAIN sessions \cup {nextID} |-> IF i = nextID THEN record ELSE sessions[i]]
  /\ nextID' = nextID + 1

(* A worktree cut from another worktree nests under it; one cut from main  *)
(* or from a bare ref has no parent.  The directory may already be gone    *)
(* again, or never have been there when git's registration was adopted.    *)
CreateWorktree(parent) ==
  /\ parent \in OfType(sessions, "worktree") \cup {NoParent}
  /\ Add([type |-> "worktree", parent |-> parent, onDelete |-> "cascade"])
  /\ missing' \in {missing, missing \cup {nextID}}

(* The working directory was there when it was looked at; the root may be  *)
(* missing by now.                                                         *)
CreateSecondary(parent, onDelete) ==
  /\ parent \in DOMAIN sessions
  /\ Depth(sessions, parent) < MaxDepth
  /\ Add([type |-> "secondary", parent |-> parent, onDelete |-> onDelete])
  /\ UNCHANGED missing

Carry(plan) ==
  /\ plan.ok
  /\ sessions' = Carried(sessions, plan)
  /\ missing' = missing \ plan.delete
  /\ UNCHANGED nextID

DeleteWorktree(id) ==
  /\ id \in OfType(sessions, "worktree")
  /\ Carry(PlanWorktreeRemoval(sessions, id))

DeleteSecondary(id) ==
  /\ id \in OfType(sessions, "secondary")
  /\ Carry(PlanSecondaryRemoval(sessions, id))

(* reconcileWorktreeSessions, at the start of every create and delete: the *)
(* worktrees it found missing, not necessarily all that are.               *)
Prune(pruned) ==
  /\ pruned # {}
  /\ pruned \subseteq missing
  /\ Carry(PlanWorktreePrune(sessions, pruned))

(* Someone removes a worktree directory behind the Daemon's back.          *)
DirectoryVanishes(id) ==
  /\ id \in OfType(sessions, "worktree") \ missing
  /\ missing' = missing \cup {id}
  /\ UNCHANGED <<sessions, nextID>>

Next ==
  \/ \E parent \in SessionID \cup {NoParent} : CreateWorktree(parent)
  \/ \E parent \in SessionID, onDelete \in OnDelete : CreateSecondary(parent, onDelete)
  \/ \E id \in SessionID : DeleteWorktree(id)
  \/ \E id \in SessionID : DeleteSecondary(id)
  \/ \E pruned \in SUBSET SessionID : Prune(pruned)
  \/ \E id \in SessionID : DirectoryVanishes(id)

Spec == Init /\ [][Next]_vars

------------------------------------------------------------------------------
(* The shape every reader of the topology relies on: a parent has a record *)
(* and is older than its child (so the tree has no cycle), only worktrees  *)
(* have worktree children, the Main Session stays, and only worktrees can  *)
(* be missing.  validateKnownParentChain and secondaryParentRoot fail on   *)
(* records that break it.                                                  *)
WellFormed ==
  /\ MainID \in DOMAIN sessions
  /\ \A i \in DOMAIN sessions :
       /\ i < nextID
       /\ sessions[i].type = "main" <=> i = MainID
       /\ sessions[i].parent # NoParent => sessions[i].parent \in DOMAIN sessions /\ sessions[i].parent < i
       /\ sessions[i].type = "secondary" => sessions[i].parent # NoParent
       /\ sessions[i].type = "worktree" /\ sessions[i].parent # NoParent
            => sessions[sessions[i].parent].type = "worktree"
       /\ sessions[i].type = "main" => sessions[i].parent = NoParent
  /\ missing \subseteq OfType(sessions, "worktree")

(* Whatever a step removes, each surviving session ends up under its       *)
(* nearest surviving ancestor, or under none if none survives              *)
(* (ADR-0010:22, ADR-0014, for all three kinds of removal).                *)
SurvivorsKeepNearestAncestor ==
  [][\A i \in DOMAIN sessions \cap DOMAIN sessions' :
       sessions'[i].parent = Nearest(Ancestors(sessions, i) \cap DOMAIN sessions')]_vars

(* Worktree sessions leave one at a time or because their directories are  *)
(* missing, and take exactly their own secondary subtrees with them; a     *)
(* lone secondary leaves with its subtree or, on inherit, alone.           *)
RemovedIn(s, t) == DOMAIN s \ DOMAIN t
RemovalIsExact ==
  [][LET gone == RemovedIn(sessions, sessions')
         goneWorktrees == gone \cap OfType(sessions, "worktree")
         subtree(roots) == roots \cup UNION {SecondaryDescendants(sessions, r) : r \in roots}
     IN  gone # {} =>
           IF goneWorktrees = {}
             THEN \E r \in gone : gone = (IF sessions[r].onDelete = "inherit" THEN {r} ELSE subtree({r}))
             ELSE /\ gone = subtree(goneWorktrees)
                  /\ goneWorktrees \subseteq missing \/ Cardinality(goneWorktrees) = 1]_vars
==============================================================================
