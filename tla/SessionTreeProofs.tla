-------------------------- MODULE SessionTreeProofs --------------------------
(***************************************************************************)
(* WellFormed is an inductive invariant of SessionTree: for every bound on *)
(* sessions and depth, no sequence of creates, deletes and prunes leaves a *)
(* record with a parent that is gone, younger, or of the wrong type.       *)
(***************************************************************************)
EXTENDS SessionTree, FiniteSetTheorems, TLAPS

(* A secondary walk only collects secondaries, and every secondary child   *)
(* of what it collected (or of its root) with it.                          *)
LEMMA SecondaryDescendantsClosed ==
  ASSUME NEW s, NEW id
  PROVE  /\ SecondaryDescendants(s, id) \subseteq OfType(s, "secondary")
         /\ DownClosed(s, id, SecondaryDescendants(s, id))
<1>1. DownClosed(s, id, OfType(s, "secondary")) /\ OfType(s, "secondary") \in SUBSET DOMAIN s
  BY DEF DownClosed, OfType
<1>2. SecondaryDescendants(s, id) \subseteq OfType(s, "secondary")
  BY <1>1 DEF SecondaryDescendants
<1>3. ASSUME NEW c \in OfType(s, "secondary"),
             s[c].parent \in SecondaryDescendants(s, id) \cup {id}
      PROVE  c \in SecondaryDescendants(s, id)
  <2>1. c \in DOMAIN s
    BY DEF OfType
  <2>2. ASSUME NEW C \in SUBSET DOMAIN s, DownClosed(s, id, C)
        PROVE  c \in C
    <3>1. s[c].parent \in C \cup {id}
      BY <1>3, <2>2 DEF SecondaryDescendants
    <3>2. QED
      BY <3>1, <2>2 DEF DownClosed
  <2>3. QED
    BY <2>1, <2>2 DEF SecondaryDescendants
<1>4. QED
  BY <1>2, <1>3 DEF DownClosed

(* Climbing from x stays inside any set that contains the parents of x and *)
(* of its own members.                                                     *)
LEMMA AncestorsWithin ==
  ASSUME NEW s, NEW id, NEW C \in SUBSET DOMAIN s, UpClosed(s, id, C)
  PROVE  Ancestors(s, id) \subseteq C
BY DEF Ancestors

(* Nearest answers a member of the set or none.                            *)
LEMMA NearestMember ==
  ASSUME NEW ids
  PROVE  Nearest(ids) \in ids \cup {NoParent}
BY DEF Nearest

(* What WellFormed says of one session, in the form the steps use.         *)
LEMMA WellFormedUp ==
  ASSUME TypeOK, WellFormed, NEW i \in DOMAIN sessions
  PROVE  /\ i \in SessionID /\ i \in Int /\ i > 0 /\ i < nextID
         /\ sessions[i].type \in SessionType
         /\ sessions[i].parent \in SessionID \cup {NoParent}
         /\ sessions[i].parent = NoParent \/ (sessions[i].parent \in DOMAIN sessions /\ sessions[i].parent < i)
BY SessionTreeAssumption DEF TypeOK, WellFormed, SessionID, Record, NoParent

(* The climb from a worktree meets only older worktrees.                   *)
LEMMA WorktreeAncestors ==
  ASSUME TypeOK, WellFormed, NEW w \in OfType(sessions, "worktree")
  PROVE  Ancestors(sessions, w) \subseteq {a \in OfType(sessions, "worktree") : a < w}
<1> DEFINE older == {a \in OfType(sessions, "worktree") : a < w}
<1>1. older \in SUBSET DOMAIN sessions
  BY DEF OfType
<1>2. ASSUME NEW x \in older \cup {w}, sessions[x].parent \in DOMAIN sessions
      PROVE  sessions[x].parent \in older
  <2>1. x \in DOMAIN sessions /\ sessions[x].type = "worktree" /\ x <= w
    BY WellFormedUp DEF OfType
  <2>2. sessions[x].parent # NoParent /\ sessions[x].parent < x
    BY <2>1, <1>2, WellFormedUp DEF NoParent
  <2>3. sessions[sessions[x].parent].type = "worktree"
    BY <2>1, <2>2 DEF WellFormed
  <2>4. w \in Int /\ x \in Int /\ sessions[x].parent \in Int
    BY <2>1, <1>2, WellFormedUp DEF OfType
  <2>5. QED
    BY <1>2, <2>1, <2>2, <2>3, <2>4 DEF OfType
<1>3. UpClosed(sessions, w, older)
  BY <1>2 DEF UpClosed
<1>4. QED
  BY <1>1, <1>3, AncestorsWithin

(* The parent a plan leaves session i with, and the condition for it to be *)
(* one: it survives, is older, and is of a type that may have such a child.*)
ParentAfter(plan, i) ==
  IF i \in DOMAIN plan.reparent THEN plan.reparent[i] ELSE sessions[i].parent
WellPlaced(plan, i) ==
  LET p == ParentAfter(plan, i)
  IN  /\ p = NoParent \/ (p \in DOMAIN sessions \ plan.delete /\ p < i)
      /\ sessions[i].type = "main" => p = NoParent
      /\ sessions[i].type = "secondary" => p # NoParent
      /\ sessions[i].type = "worktree" /\ p # NoParent => sessions[p].type = "worktree"

(* Carrying out a plan keeps the records well formed when the plan leaves  *)
(* the Main Session alone and gives every survivor whose parent goes a     *)
(* surviving parent of the right kind, or none if it is a worktree.        *)
LEMMA CarryKeepsWellFormed ==
  ASSUME TypeOK, WellFormed, NEW plan, Carry(plan),
         MainID \notin plan.delete,
         plan.delete \subseteq DOMAIN sessions,
         \A i \in DOMAIN sessions \ plan.delete : WellPlaced(plan, i)
  PROVE  TypeOK' /\ WellFormed'
<1>1. /\ sessions' = Carried(sessions, plan)
      /\ missing' = missing \ plan.delete
      /\ nextID' = nextID
  BY DEF Carry
<1>2. DOMAIN sessions' = DOMAIN sessions \ plan.delete
  BY <1>1 DEF Carried
<1>3. ASSUME NEW i \in DOMAIN sessions'
      PROVE  /\ sessions'[i].parent = ParentAfter(plan, i)
             /\ sessions'[i].type = sessions[i].type
             /\ sessions'[i] \in Record
  <2>1. i \in DOMAIN sessions \ plan.delete /\ sessions[i] \in Record
    BY <1>2 DEF TypeOK
  <2>2. sessions'[i] = IF i \in DOMAIN plan.reparent
                         THEN [sessions[i] EXCEPT !.parent = plan.reparent[i]]
                         ELSE sessions[i]
    BY <1>1, <2>1 DEF Carried
  <2>3. ParentAfter(plan, i) \in SessionID \cup {NoParent}
    BY <2>1 DEF TypeOK, WellPlaced
  <2>4. QED
    BY <2>1, <2>2, <2>3 DEF Record, ParentAfter
<1>4. TypeOK'
  <2>1. sessions' = [i \in DOMAIN sessions' |-> sessions'[i]]
    BY <1>1 DEF Carried
  <2>2. sessions' \in [DOMAIN sessions' -> Record]
    BY <2>1, <1>3
  <2>3. QED
    BY <1>1, <1>2, <2>2 DEF TypeOK
<1>5. WellFormed'
  <2>1. MainID \in DOMAIN sessions'
    BY <1>2 DEF WellFormed
  <2>2. missing' \subseteq OfType(sessions', "worktree")
    BY <1>1, <1>2, <1>3 DEF WellFormed, OfType
  <2>3. ASSUME NEW i \in DOMAIN sessions'
        PROVE  /\ i < nextID'
               /\ sessions'[i].type = "main" <=> i = MainID
               /\ sessions'[i].parent # NoParent =>
                    sessions'[i].parent \in DOMAIN sessions' /\ sessions'[i].parent < i
               /\ sessions'[i].type = "secondary" => sessions'[i].parent # NoParent
               /\ sessions'[i].type = "worktree" /\ sessions'[i].parent # NoParent
                    => sessions'[sessions'[i].parent].type = "worktree"
               /\ sessions'[i].type = "main" => sessions'[i].parent = NoParent
    <3>1. i \in DOMAIN sessions \ plan.delete
      BY <1>2
    <3>2. i < nextID /\ (sessions[i].type = "main" <=> i = MainID)
      BY <3>1 DEF WellFormed
    <3>3. ParentAfter(plan, i) # NoParent => sessions'[ParentAfter(plan, i)].type = sessions[ParentAfter(plan, i)].type
      BY <1>2, <1>3, <3>1 DEF WellPlaced
    <3>4. QED
      BY <1>1, <1>2, <1>3, <3>1, <3>2, <3>3 DEF WellPlaced
  <2>4. QED
    BY <2>1, <2>2, <2>3 DEF WellFormed
<1>6. QED
  BY <1>4, <1>5
(* A child of a session that goes is a worktree under a deleted worktree,  *)
(* or goes too.                                                            *)
LEMMA OrphansAreWorktrees ==
  ASSUME TypeOK, WellFormed, NEW root \in DOMAIN sessions,
         NEW i \in DOMAIN sessions \ (SecondaryDescendants(sessions, root) \cup {root}),
         sessions[i].parent \in SecondaryDescendants(sessions, root) \cup {root}
  PROVE  sessions[i].type = "worktree" /\ sessions[i].parent = root /\ sessions[root].type = "worktree"
<1>1. sessions[i].type # "secondary"
  BY SecondaryDescendantsClosed DEF DownClosed, OfType
<1>2. sessions[i].parent \in DOMAIN sessions
  BY DEF SecondaryDescendants
<1>3. sessions[i].parent # NoParent
  BY <1>2, WellFormedUp DEF NoParent
<1>4. sessions[i].type = "worktree"
  BY <1>1, <1>3, WellFormedUp DEF WellFormed, SessionType
<1>5. sessions[sessions[i].parent].type = "worktree"
  BY <1>3, <1>4 DEF WellFormed
<1>6. sessions[i].parent \notin SecondaryDescendants(sessions, root)
  BY <1>5, SecondaryDescendantsClosed DEF OfType
<1>7. QED
  BY <1>4, <1>5, <1>6

LEMMA DeleteWorktreeStep ==
  ASSUME TypeOK, WellFormed, NEW id \in SessionID, DeleteWorktree(id)
  PROVE  TypeOK' /\ WellFormed'
<1> DEFINE plan == PlanWorktreeRemoval(sessions, id)
           gone == SecondaryDescendants(sessions, id) \cup {id}
<1>1. id \in DOMAIN sessions /\ sessions[id].type = "worktree" /\ Carry(plan) /\ plan.ok
  BY DEF DeleteWorktree, OfType, Carry
<1>2. /\ plan.delete = gone
      /\ plan.reparent = [c \in Children(sessions, id) \cap OfType(sessions, "worktree")
                            |-> sessions[id].parent]
  BY <1>1 DEF PlanWorktreeRemoval, NoPlan
<1>3. gone \subseteq DOMAIN sessions
  BY <1>1 DEF SecondaryDescendants
<1>4. MainID \notin gone
  BY <1>1, SecondaryDescendantsClosed DEF WellFormed, OfType
<1>5. ASSUME NEW i \in DOMAIN sessions \ plan.delete
      PROVE  WellPlaced(plan, i)
  <2>1. CASE sessions[i].parent \in gone
    <3>1. sessions[i].type = "worktree" /\ sessions[i].parent = id
      BY <1>1, <1>2, <2>1, OrphansAreWorktrees
    <3>2. i \in DOMAIN plan.reparent /\ plan.reparent[i] = sessions[id].parent
      BY <1>2, <3>1 DEF Children, OfType
    <3>3. id < i /\ i \in Int /\ id \in Int
      BY <1>1, <3>1, WellFormedUp DEF NoParent
    <3>4. CASE sessions[id].parent = NoParent
      BY <3>1, <3>2, <3>4 DEF WellPlaced, ParentAfter
    <3>5. CASE sessions[id].parent # NoParent
      <4> DEFINE q == sessions[id].parent
      <4>1. q \in DOMAIN sessions /\ q < id /\ q \in Int /\ sessions[q].type = "worktree"
        BY <1>1, <3>5, WellFormedUp DEF WellFormed
      <4>2. q \notin gone
        BY <3>3, <4>1, SecondaryDescendantsClosed DEF OfType
      <4>3. q < i
        BY <3>3, <4>1
      <4>4. QED
        BY <1>2, <3>1, <3>2, <4>1, <4>2, <4>3 DEF WellPlaced, ParentAfter
    <3>6. QED
      BY <3>4, <3>5
  <2>2. CASE sessions[i].parent \notin gone
    <3>1. i \notin DOMAIN plan.reparent
      BY <1>2, <2>2 DEF Children
    <3>2. QED
      BY <1>2, <2>2, <3>1, WellFormedUp DEF WellFormed, WellPlaced, ParentAfter
  <2>3. QED
    BY <2>1, <2>2
<1>6. QED
  BY <1>1, <1>2, <1>3, <1>4, <1>5, CarryKeepsWellFormed

LEMMA DeleteSecondaryStep ==
  ASSUME TypeOK, WellFormed, NEW id \in SessionID, DeleteSecondary(id)
  PROVE  TypeOK' /\ WellFormed'
<1> DEFINE plan == PlanSecondaryRemoval(sessions, id)
           gone == SecondaryDescendants(sessions, id) \cup {id}
<1>1. id \in DOMAIN sessions /\ sessions[id].type = "secondary" /\ Carry(plan) /\ plan.ok
  BY DEF DeleteSecondary, OfType, Carry
<1>2. sessions[id].parent \in DOMAIN sessions /\ sessions[id].parent < id
  BY <1>1, WellFormedUp DEF WellFormed
<1>3. id \in Int /\ sessions[id].parent \in Int /\ id # MainID
  BY <1>1, <1>2, WellFormedUp DEF WellFormed
<1>4. CASE sessions[id].onDelete = "inherit"
  <2>1. /\ plan.delete = {id}
        /\ plan.reparent = [c \in Children(sessions, id) |-> sessions[id].parent]
    BY <1>1, <1>4 DEF PlanSecondaryRemoval, NoPlan
  <2>2. ASSUME NEW i \in DOMAIN sessions \ plan.delete
        PROVE  WellPlaced(plan, i)
    <3>1. CASE sessions[i].parent = id
      <4>1. sessions[i].type = "secondary"
        BY <1>1, <1>3, <3>1, WellFormedUp DEF WellFormed, SessionType, NoParent
      <4>2. i \in DOMAIN plan.reparent /\ plan.reparent[i] = sessions[id].parent
        BY <2>1, <3>1 DEF Children
      <4>3. id < i /\ i \in Int
        BY <1>3, <3>1, WellFormedUp DEF NoParent
      <4>4. sessions[id].parent # id /\ sessions[id].parent < i /\ sessions[id].parent # NoParent
        BY <1>1, <1>2, <1>3, <4>3 DEF WellFormed
      <4>5. QED
        BY <1>2, <2>1, <4>1, <4>2, <4>4 DEF WellPlaced, ParentAfter
    <3>2. CASE sessions[i].parent # id
      <4>1. i \notin DOMAIN plan.reparent
        BY <2>1, <3>2 DEF Children
      <4>2. QED
        BY <2>1, <3>2, <4>1, WellFormedUp DEF WellFormed, WellPlaced, ParentAfter
    <3>3. QED
      BY <3>1, <3>2
  <2>3. QED
    BY <1>1, <1>3, <2>1, <2>2, CarryKeepsWellFormed
<1>5. CASE sessions[id].onDelete # "inherit"
  <2>1. plan.delete = gone /\ plan.reparent = <<>>
    BY <1>1, <1>5 DEF PlanSecondaryRemoval, NoPlan
  <2>2. gone \subseteq DOMAIN sessions /\ MainID \notin gone
    BY <1>1, <1>3, SecondaryDescendantsClosed DEF WellFormed, OfType, SecondaryDescendants
  <2>3. ASSUME NEW i \in DOMAIN sessions \ plan.delete
        PROVE  WellPlaced(plan, i)
    <3>1. sessions[i].parent \notin gone
      BY <1>1, <2>1, OrphansAreWorktrees
    <3>2. i \notin DOMAIN plan.reparent
      <4>1. i \in Int /\ i > 0 /\ DOMAIN plan.reparent = {}
        BY <2>1, WellFormedUp
      <4>2. QED
        BY <4>1
    <3>3. QED
      BY <2>1, <3>1, <3>2, WellFormedUp DEF WellFormed, WellPlaced, ParentAfter
  <2>4. QED
    BY <1>1, <2>1, <2>2, <2>3, CarryKeepsWellFormed
<1>6. QED
  BY <1>4, <1>5

LEMMA PruneStep ==
  ASSUME TypeOK, WellFormed, NEW pruned \in SUBSET SessionID, Prune(pruned)
  PROVE  TypeOK' /\ WellFormed'
<1> DEFINE plan == PlanWorktreePrune(sessions, pruned)
           orphans == {w \in OfType(sessions, "worktree") \ pruned : sessions[w].parent \in pruned}
<1>1. Carry(plan) /\ plan.ok
  BY DEF Prune, Carry
<1>2. /\ plan.delete = pruned \cup UNION {SecondaryDescendants(sessions, id) : id \in pruned}
      /\ plan.reparent = [c \in orphans |-> NearestKept(sessions, c, pruned)]
  BY <1>1 DEF PlanWorktreePrune, NoPlan
<1>3. pruned \subseteq OfType(sessions, "worktree")
  BY DEF Prune, WellFormed
<1>4. \A d \in plan.delete \ pruned : d \in OfType(sessions, "secondary")
  BY <1>2, SecondaryDescendantsClosed
<1>5. MainID \notin plan.delete /\ plan.delete \subseteq DOMAIN sessions
  BY <1>2, <1>3, <1>4 DEF WellFormed, OfType
<1>6. ASSUME NEW i \in DOMAIN sessions \ plan.delete
      PROVE  WellPlaced(plan, i)
  <2>1. CASE i \in orphans
    <3>1. ParentAfter(plan, i) = NearestKept(sessions, i, pruned)
      BY <1>2, <2>1 DEF ParentAfter
    <3>2. ParentAfter(plan, i) \in (Ancestors(sessions, i) \ pruned) \cup {NoParent}
      BY <3>1, NearestMember DEF NearestKept
    <3>3. Ancestors(sessions, i) \subseteq {a \in OfType(sessions, "worktree") : a < i}
      BY <2>1, WorktreeAncestors
    <3>4. \A a \in Ancestors(sessions, i) \ pruned : a \notin plan.delete
      BY <1>4, <3>3 DEF OfType
    <3>5. sessions[i].type = "worktree"
      BY <2>1 DEF OfType
    <3>6. QED
      BY <3>2, <3>3, <3>4, <3>5 DEF WellPlaced, OfType
  <2>2. CASE i \notin orphans
    <3>1. ParentAfter(plan, i) = sessions[i].parent
      BY <1>2, <2>2 DEF ParentAfter
    <3>2. sessions[i].parent \notin plan.delete
      <4>1. SUFFICES ASSUME NEW root \in pruned,
                            sessions[i].parent \in SecondaryDescendants(sessions, root) \cup {root}
                     PROVE  FALSE
        BY <1>2
      <4>2. root \in DOMAIN sessions
        BY <1>3 DEF OfType
      <4>3. i \notin SecondaryDescendants(sessions, root) \cup {root}
        BY <1>2
      <4>4. sessions[i].type = "worktree" /\ sessions[i].parent = root
        BY <4>1, <4>2, <4>3, OrphansAreWorktrees
      <4>5. i \in orphans
        BY <1>2, <4>4 DEF OfType
      <4>6. QED
        BY <2>2, <4>5
    <3>3. QED
      BY <3>1, <3>2, WellFormedUp DEF WellFormed, WellPlaced
  <2>3. QED
    BY <2>1, <2>2
<1>7. QED
  BY <1>1, <1>5, <1>6, CarryKeepsWellFormed

(* A new record goes under an existing parent of a fitting type, and its   *)
(* id is larger than all others.                                           *)
LEMMA AddKeepsWellFormed ==
  ASSUME TypeOK, WellFormed, NEW record \in Record, Add(record),
         missing' = missing \/ (missing' = missing \cup {nextID} /\ record.type = "worktree"),
         record.type # "main",
         record.parent \in DOMAIN sessions \cup {NoParent},
         record.type = "secondary" => record.parent # NoParent,
         record.type = "worktree" /\ record.parent # NoParent
           => sessions[record.parent].type = "worktree"
  PROVE  TypeOK' /\ WellFormed'
<1>1. /\ nextID \in SessionID /\ nextID' = nextID + 1 /\ nextID \in Int /\ nextID \notin DOMAIN sessions
      /\ sessions' = [i \in DOMAIN sessions \cup {nextID} |-> IF i = nextID THEN record ELSE sessions[i]]
  BY WellFormedUp, SessionTreeAssumption DEF Add, SessionID
<1>2. DOMAIN sessions' = DOMAIN sessions \cup {nextID} /\ sessions'[nextID] = record
  BY <1>1
<1>3. \A i \in DOMAIN sessions : sessions'[i] = sessions[i] /\ i # nextID
  BY <1>1
<1>4. TypeOK'
  <2>1. missing' \in SUBSET SessionID
    BY <1>1 DEF TypeOK
  <2>2. QED
    BY <1>1, <2>1, SessionTreeAssumption DEF TypeOK, SessionID
<1>5. ASSUME NEW i \in DOMAIN sessions'
      PROVE  /\ i < nextID'
             /\ sessions'[i].type = "main" <=> i = MainID
             /\ sessions'[i].parent # NoParent =>
                  sessions'[i].parent \in DOMAIN sessions' /\ sessions'[i].parent < i
             /\ sessions'[i].type = "secondary" => sessions'[i].parent # NoParent
             /\ sessions'[i].type = "worktree" /\ sessions'[i].parent # NoParent
                  => sessions'[sessions'[i].parent].type = "worktree"
             /\ sessions'[i].type = "main" => sessions'[i].parent = NoParent
  <2>1. CASE i = nextID
    <3>1. MainID # nextID
      BY <1>1 DEF WellFormed
    <3>2. record.parent # NoParent => record.parent < nextID
      BY <1>1, WellFormedUp
    <3>3. QED
      BY <1>1, <1>2, <1>3, <2>1, <3>1, <3>2
  <2>2. CASE i # nextID
    <3>1. i \in DOMAIN sessions /\ i \in Int /\ i < nextID
      BY <1>2, <2>2, WellFormedUp
    <3>2. QED
      BY <1>1, <1>2, <1>3, <3>1, WellFormedUp DEF WellFormed
  <2>3. QED
    BY <2>1, <2>2
<1>6. MainID \in DOMAIN sessions' /\ missing' \subseteq OfType(sessions', "worktree")
  BY <1>2, <1>3 DEF WellFormed, OfType
<1>7. QED
  BY <1>4, <1>5, <1>6 DEF WellFormed

(* Every step of the tree keeps the records typed and well formed.         *)
LEMMA WellFormedStep ==
  ASSUME TypeOK, WellFormed, [Next]_vars
  PROVE  TypeOK' /\ WellFormed'
<1>1. ASSUME NEW parent \in SessionID \cup {NoParent}, CreateWorktree(parent)
      PROVE  TypeOK' /\ WellFormed'
  <2> DEFINE record == [type |-> "worktree", parent |-> parent, onDelete |-> "cascade"]
  <2>1. record \in Record
    BY DEF Record, SessionType, OnDelete
  <2>2. Add(record) /\ (missing' = missing \/ missing' = missing \cup {nextID})
    BY <1>1 DEF CreateWorktree
  <2>3. parent \in DOMAIN sessions \cup {NoParent}
    BY <1>1 DEF CreateWorktree, OfType
  <2>4. parent # NoParent => sessions[parent].type = "worktree"
    BY <1>1 DEF CreateWorktree, OfType
  <2>5. QED
    BY <2>1, <2>2, <2>3, <2>4, AddKeepsWellFormed
<1>2. ASSUME NEW parent \in SessionID, NEW onDelete \in OnDelete, CreateSecondary(parent, onDelete)
      PROVE  TypeOK' /\ WellFormed'
  <2> DEFINE record == [type |-> "secondary", parent |-> parent, onDelete |-> onDelete]
  <2>1. record \in Record
    BY DEF Record, SessionType
  <2>2. Add(record) /\ missing' = missing /\ parent \in DOMAIN sessions
    BY <1>2 DEF CreateSecondary
  <2>3. parent # NoParent
    BY <2>2, WellFormedUp DEF NoParent
  <2>4. QED
    BY <2>1, <2>2, <2>3, AddKeepsWellFormed
<1>3. ASSUME NEW id \in SessionID, DeleteWorktree(id)
      PROVE  TypeOK' /\ WellFormed'
  BY <1>3, DeleteWorktreeStep
<1>4. ASSUME NEW id \in SessionID, DeleteSecondary(id)
      PROVE  TypeOK' /\ WellFormed'
  BY <1>4, DeleteSecondaryStep
<1>5. ASSUME NEW pruned \in SUBSET SessionID, Prune(pruned)
      PROVE  TypeOK' /\ WellFormed'
  BY <1>5, PruneStep
<1>6. ASSUME NEW id \in SessionID, DirectoryVanishes(id)
      PROVE  TypeOK' /\ WellFormed'
  BY <1>6 DEF DirectoryVanishes, TypeOK, WellFormed, OfType
<1>7. CASE UNCHANGED vars
  BY <1>7 DEF vars, TypeOK, WellFormed, OfType
<1>8. QED
  BY <1>1, <1>2, <1>3, <1>4, <1>5, <1>6, <1>7 DEF Next

(* The records stay well formed, and typed, whatever the bounds.           *)
THEOREM TreeStaysWellFormed == Spec => [](TypeOK /\ WellFormed)
<1>1. Init => TypeOK /\ WellFormed
  <2> SUFFICES ASSUME Init PROVE TypeOK /\ WellFormed
    OBVIOUS
  <2>1. TypeOK
    BY SessionTreeAssumption DEF Init, TypeOK, SessionID, Record, SessionType, OnDelete, NoParent, MainID
  <2>2. WellFormed
    BY DEF Init, WellFormed, OfType, NoParent, MainID
  <2>3. QED
    BY <2>1, <2>2
<1>2. TypeOK /\ WellFormed /\ [Next]_vars => TypeOK' /\ WellFormed'
  BY WellFormedStep
<1>3. QED
  BY <1>1, <1>2, PTL DEF Spec

------------------------------------------------------------------------------
(* Who a survivor ends up under.                                           *)

(* The climb takes the parent of everything it visits.                     *)
LEMMA AncestorsClosed ==
  ASSUME NEW s, NEW id
  PROVE  UpClosed(s, id, Ancestors(s, id))
<1>1. ASSUME NEW x \in Ancestors(s, id) \cup {id}, s[x].parent \in DOMAIN s
      PROVE  s[x].parent \in Ancestors(s, id)
  <2>1. ASSUME NEW C \in SUBSET DOMAIN s, UpClosed(s, id, C)
        PROVE  s[x].parent \in C
    <3>1. x \in C \cup {id}
      BY <1>1, <2>1 DEF Ancestors
    <3>2. QED
      BY <1>1, <2>1, <3>1 DEF UpClosed
  <2>2. QED
    BY <1>1, <2>1 DEF Ancestors
<1>2. QED
  BY <1>1 DEF UpClosed

(* It is the climb from the parent, with the parent itself, ...            *)
LEMMA AncestorsOfChild ==
  ASSUME NEW s, NEW id, s[id].parent \in DOMAIN s
  PROVE  Ancestors(s, id) = {s[id].parent} \cup Ancestors(s, s[id].parent)
<1> DEFINE p == s[id].parent
           above == {p} \cup Ancestors(s, p)
<1>1. above \in SUBSET DOMAIN s
  BY DEF Ancestors
<1>2. UpClosed(s, id, above)
  <2>1. UpClosed(s, p, Ancestors(s, p))
    BY AncestorsClosed
  <2>2. QED
    BY <2>1 DEF UpClosed
<1>3. Ancestors(s, id) \subseteq above
  BY <1>1, <1>2, AncestorsWithin
<1>4. UpClosed(s, id, Ancestors(s, id))
  BY AncestorsClosed
<1>5. p \in Ancestors(s, id)
  BY <1>4 DEF UpClosed
<1>6. UpClosed(s, p, Ancestors(s, id)) /\ Ancestors(s, id) \in SUBSET DOMAIN s
  BY <1>4, <1>5 DEF UpClosed, Ancestors
<1>7. Ancestors(s, p) \subseteq Ancestors(s, id)
  BY <1>6, AncestorsWithin
<1>8. QED
  BY <1>3, <1>5, <1>7

(* ... and visits nobody when there is no parent with a record.            *)
LEMMA NoAncestors ==
  ASSUME NEW s, NEW id, s[id].parent \notin DOMAIN s
  PROVE  Ancestors(s, id) = {}
<1>1. UpClosed(s, id, {})
  BY DEF UpClosed
<1>2. QED
  BY <1>1, AncestorsWithin

(* Of some ids the nearest is the largest, if there is one.                *)
LEMMA NearestIsLargest ==
  ASSUME NEW ids, ids \subseteq Int, NEW p \in ids, \A b \in ids : b <= p
  PROVE  Nearest(ids) = p
<1> DEFINE newest == {a \in ids : \A b \in ids : b <= a}
<1>1. newest = {p}
  <2>1. \A a \in newest : a \in Int /\ a <= p /\ p <= a
    OBVIOUS
  <2>2. \A a \in newest : a = p
    BY <2>1
  <2>3. p \in newest
    OBVIOUS
  <2>4. QED
    BY <2>2, <2>3
<1>2. Nearest(ids) = CHOOSE a \in newest : TRUE
  BY <1>1 DEF Nearest
<1>3. QED
  BY <1>1, <1>2

(* Above nobody there is nobody.                                           *)
LEMMA NearestOfNone == Nearest({}) = NoParent
BY DEF Nearest

(* Ancestors are older.                                                    *)
LEMMA AncestorsAreOlder ==
  ASSUME TypeOK, WellFormed, NEW i \in DOMAIN sessions
  PROVE  Ancestors(sessions, i) \subseteq {a \in DOMAIN sessions : a < i}
<1> DEFINE older == {a \in DOMAIN sessions : a < i}
<1>1. ASSUME NEW x \in older \cup {i}, sessions[x].parent \in DOMAIN sessions
      PROVE  sessions[x].parent \in older
  <2>1. x \in DOMAIN sessions /\ x <= i /\ x \in Int /\ i \in Int
    BY WellFormedUp
  <2>2. sessions[x].parent < x /\ sessions[x].parent \in Int
    BY <1>1, <2>1, WellFormedUp DEF NoParent
  <2>3. QED
    BY <1>1, <2>1, <2>2
<1>2. UpClosed(sessions, i, older)
  BY <1>1 DEF UpClosed
<1>3. QED
  BY <1>2, AncestorsWithin

(* A session whose parent stays has it as its nearest ancestor kept.       *)
LEMMA ParentIsNearest ==
  ASSUME TypeOK, WellFormed, NEW i \in DOMAIN sessions, NEW kept \in SUBSET DOMAIN sessions,
         sessions[i].parent \in kept \cup {NoParent}
  PROVE  sessions[i].parent = Nearest(Ancestors(sessions, i) \cap kept)
<1> DEFINE p == sessions[i].parent
<1>1. CASE p = NoParent
  <2>1. p \notin DOMAIN sessions
    BY <1>1, WellFormedUp DEF NoParent
  <2>2. Ancestors(sessions, i) \cap kept = {}
    BY <2>1, NoAncestors
  <2>3. QED
    BY <1>1, <2>2, NearestOfNone
<1>2. CASE p \in kept
  <2>1. p \in DOMAIN sessions
    BY <1>2
  <2>2. Ancestors(sessions, i) = {p} \cup Ancestors(sessions, p)
    BY <2>1, AncestorsOfChild
  <2>3. Ancestors(sessions, p) \subseteq {a \in DOMAIN sessions : a < p}
    BY <2>1, AncestorsAreOlder
  <2>4. p \in Int /\ DOMAIN sessions \subseteq Int
    BY <2>1, WellFormedUp
  <2> DEFINE ids == Ancestors(sessions, i) \cap kept
  <2>5. ids \subseteq Int /\ p \in ids /\ \A b \in ids : b <= p
    BY <1>2, <2>2, <2>3, <2>4
  <2> HIDE DEF ids
  <2>6. QED
    BY <2>5, NearestIsLargest DEF ids
<1>3. QED
  BY <1>1, <1>2

(* One whose parent goes, and whose grandparent stays or is none, has the  *)
(* grandparent.                                                            *)
LEMMA GrandparentIsNearest ==
  ASSUME TypeOK, WellFormed, NEW i \in DOMAIN sessions, NEW kept \in SUBSET DOMAIN sessions,
         NEW p \in DOMAIN sessions \ kept, sessions[i].parent = p,
         sessions[p].parent \in kept \cup {NoParent}
  PROVE  sessions[p].parent = Nearest(Ancestors(sessions, i) \cap kept)
<1>1. Ancestors(sessions, i) = {p} \cup Ancestors(sessions, p)
  BY AncestorsOfChild
<1>2. Ancestors(sessions, i) \cap kept = Ancestors(sessions, p) \cap kept
  BY <1>1
<1>3. sessions[p].parent = Nearest(Ancestors(sessions, p) \cap kept)
  BY ParentIsNearest
<1>4. QED
  BY <1>2, <1>3

(* The claim for one step, and for one session.                            *)
Inherits(i) == sessions'[i].parent = Nearest(Ancestors(sessions, i) \cap DOMAIN sessions')

(* Nothing is removed, nobody moves.                                       *)
LEMMA KeepingInherits ==
  ASSUME TypeOK, WellFormed, DOMAIN sessions \subseteq DOMAIN sessions',
         NEW i \in DOMAIN sessions, sessions'[i] = sessions[i]
  PROVE  Inherits(i)
<1>1. sessions[i].parent \in DOMAIN sessions \cup {NoParent}
  BY WellFormedUp
<1>2. sessions[i].parent = Nearest(Ancestors(sessions, i) \cap DOMAIN sessions)
  BY <1>1, ParentIsNearest
<1>3. Ancestors(sessions, i) \cap DOMAIN sessions = Ancestors(sessions, i) \cap DOMAIN sessions'
  BY DEF Ancestors
<1>4. QED
  BY <1>2, <1>3 DEF Inherits

(* What carrying out a plan leaves of the survivors.                       *)
LEMMA PlanLeaves ==
  ASSUME TypeOK, NEW plan, Carry(plan)
  PROVE  /\ DOMAIN sessions' = DOMAIN sessions \ plan.delete
         /\ \A i \in DOMAIN sessions' : sessions'[i].parent = ParentAfter(plan, i)
<1>1. DOMAIN sessions' = DOMAIN sessions \ plan.delete
  BY DEF Carry, Carried
<1>2. ASSUME NEW i \in DOMAIN sessions'
      PROVE  sessions'[i].parent = ParentAfter(plan, i)
  <2>1. i \in DOMAIN sessions \ plan.delete /\ sessions[i] \in Record
    BY <1>1 DEF TypeOK
  <2>2. QED
    BY <2>1 DEF Carry, Carried, ParentAfter, Record
<1>3. QED
  BY <1>1, <1>2

(* Each of the three removals, in turn.                                    *)
LEMMA DeleteWorktreeInherits ==
  ASSUME TypeOK, WellFormed, NEW id \in SessionID, DeleteWorktree(id),
         NEW i \in DOMAIN sessions \cap DOMAIN sessions'
  PROVE  Inherits(i)
<1> DEFINE plan == PlanWorktreeRemoval(sessions, id)
           gone == SecondaryDescendants(sessions, id) \cup {id}
<1>1. id \in DOMAIN sessions /\ sessions[id].type = "worktree" /\ Carry(plan) /\ plan.ok
  BY DEF DeleteWorktree, OfType, Carry
<1>2. /\ plan.delete = gone
      /\ plan.reparent = [c \in Children(sessions, id) \cap OfType(sessions, "worktree")
                            |-> sessions[id].parent]
  BY <1>1 DEF PlanWorktreeRemoval, NoPlan
<1>3. /\ DOMAIN sessions' = DOMAIN sessions \ gone
      /\ sessions'[i].parent = ParentAfter(plan, i)
  BY <1>1, <1>2, PlanLeaves
<1> HIDE DEF plan
<1>4. CASE sessions[i].parent \in gone
  <2>1. sessions[i].type = "worktree" /\ sessions[i].parent = id
    BY <1>1, <1>3, <1>4, OrphansAreWorktrees
  <2>2. ParentAfter(plan, i) = sessions[id].parent
    BY <1>2, <2>1 DEF Children, OfType, ParentAfter
  <2>3. sessions[id].parent \in DOMAIN sessions' \cup {NoParent}
    <3>1. SUFFICES ASSUME sessions[id].parent # NoParent
                   PROVE  sessions[id].parent \in DOMAIN sessions \ gone
      BY <1>3
    <3>2. /\ sessions[id].parent \in DOMAIN sessions /\ sessions[id].parent # id
          /\ sessions[sessions[id].parent].type = "worktree"
      BY <1>1, <3>1, WellFormedUp DEF WellFormed
    <3>3. QED
      BY <3>2, SecondaryDescendantsClosed DEF OfType
  <2>4. id \notin DOMAIN sessions'
    BY <1>3
  <2>5. DOMAIN sessions' \in SUBSET DOMAIN sessions
    BY <1>3
  <2>6. sessions[id].parent = Nearest(Ancestors(sessions, i) \cap DOMAIN sessions')
    BY <1>1, <2>1, <2>3, <2>4, <2>5, GrandparentIsNearest
  <2>7. QED
    BY <1>3, <2>2, <2>6 DEF Inherits
<1>5. CASE sessions[i].parent \notin gone
  <2>1. ParentAfter(plan, i) = sessions[i].parent
    BY <1>2, <1>5 DEF Children, ParentAfter
  <2>2. sessions[i].parent \in DOMAIN sessions' \cup {NoParent}
    BY <1>3, <1>5, WellFormedUp
  <2>3. DOMAIN sessions' \in SUBSET DOMAIN sessions
    BY <1>3
  <2>4. sessions[i].parent = Nearest(Ancestors(sessions, i) \cap DOMAIN sessions')
    BY <2>2, <2>3, ParentIsNearest
  <2>5. QED
    BY <1>3, <2>1, <2>4 DEF Inherits
<1>6. QED
  BY <1>4, <1>5

(* A secondary that goes leaves its children to its parent.                *)
LEMMA DeleteSecondaryInherits ==
  ASSUME TypeOK, WellFormed, NEW id \in SessionID, DeleteSecondary(id),
         NEW i \in DOMAIN sessions \cap DOMAIN sessions'
  PROVE  Inherits(i)
<1> DEFINE plan == PlanSecondaryRemoval(sessions, id)
           gone == SecondaryDescendants(sessions, id) \cup {id}
<1>1. id \in DOMAIN sessions /\ sessions[id].type = "secondary" /\ Carry(plan) /\ plan.ok
  BY DEF DeleteSecondary, OfType, Carry
<1>2. /\ DOMAIN sessions' = DOMAIN sessions \ plan.delete
      /\ sessions'[i].parent = ParentAfter(plan, i)
  BY <1>1, PlanLeaves
<1>3. DOMAIN sessions' \in SUBSET DOMAIN sessions
  BY <1>2
<1>4. /\ sessions[id].parent \in DOMAIN sessions \ {id}
      /\ sessions[i].parent \in DOMAIN sessions \cup {NoParent}
  BY <1>1, WellFormedUp DEF WellFormed
<1>5. CASE sessions[id].onDelete = "inherit"
  <2>1. /\ plan.delete = {id}
        /\ plan.reparent = [c \in Children(sessions, id) |-> sessions[id].parent]
    BY <1>1, <1>5 DEF PlanSecondaryRemoval, NoPlan
  <2> HIDE DEF plan
  <2>2. CASE sessions[i].parent = id
    <3>1. ParentAfter(plan, i) = sessions[id].parent
      BY <2>1, <2>2 DEF Children, ParentAfter
    <3>2. id \in DOMAIN sessions \ DOMAIN sessions' /\ sessions[id].parent \in DOMAIN sessions'
      BY <1>1, <1>2, <1>4, <2>1
    <3>3. sessions[id].parent = Nearest(Ancestors(sessions, i) \cap DOMAIN sessions')
      BY <1>3, <2>2, <3>2, GrandparentIsNearest
    <3>4. QED
      BY <1>2, <3>1, <3>3 DEF Inherits
  <2>3. CASE sessions[i].parent # id
    <3>1. ParentAfter(plan, i) = sessions[i].parent
      BY <2>1, <2>3 DEF Children, ParentAfter
    <3>2. sessions[i].parent \in DOMAIN sessions' \cup {NoParent}
      BY <1>2, <1>4, <2>1, <2>3
    <3>3. sessions[i].parent = Nearest(Ancestors(sessions, i) \cap DOMAIN sessions')
      BY <1>3, <3>2, ParentIsNearest
    <3>4. QED
      BY <1>2, <3>1, <3>3 DEF Inherits
  <2>4. QED
    BY <2>2, <2>3
<1>6. CASE sessions[id].onDelete # "inherit"
  <2>1. plan.delete = gone /\ plan.reparent = <<>>
    BY <1>1, <1>6 DEF PlanSecondaryRemoval, NoPlan
  <2> HIDE DEF plan
  <2>2. sessions[i].parent \notin gone
    BY <1>1, <1>2, <2>1, OrphansAreWorktrees
  <2>3. ParentAfter(plan, i) = sessions[i].parent
    BY <2>1, WellFormedUp DEF ParentAfter
  <2>4. sessions[i].parent \in DOMAIN sessions' \cup {NoParent}
    BY <1>2, <1>4, <2>1, <2>2
  <2>5. sessions[i].parent = Nearest(Ancestors(sessions, i) \cap DOMAIN sessions')
    BY <1>3, <2>4, ParentIsNearest
  <2>6. QED
    BY <1>2, <2>3, <2>5 DEF Inherits
<1>7. QED
  BY <1>5, <1>6

(* So do the worktrees that a prune takes.                                 *)
LEMMA PruneInherits ==
  ASSUME TypeOK, WellFormed, NEW pruned \in SUBSET SessionID, Prune(pruned),
         NEW i \in DOMAIN sessions \cap DOMAIN sessions'
  PROVE  Inherits(i)
<1> DEFINE plan == PlanWorktreePrune(sessions, pruned)
           orphans == {w \in OfType(sessions, "worktree") \ pruned : sessions[w].parent \in pruned}
<1>1. Carry(plan) /\ plan.ok
  BY DEF Prune, Carry
<1>2. /\ plan.delete = pruned \cup UNION {SecondaryDescendants(sessions, id) : id \in pruned}
      /\ plan.reparent = [c \in orphans |-> NearestKept(sessions, c, pruned)]
  BY <1>1 DEF PlanWorktreePrune, NoPlan
<1>3. /\ DOMAIN sessions' = DOMAIN sessions \ plan.delete
      /\ sessions'[i].parent = ParentAfter(plan, i)
  BY <1>1, PlanLeaves
<1>4. pruned \subseteq OfType(sessions, "worktree")
  BY DEF Prune, WellFormed
<1>5. \A d \in plan.delete \ pruned : d \in OfType(sessions, "secondary")
  BY <1>2, SecondaryDescendantsClosed
<1> HIDE DEF plan
<1>6. CASE i \in orphans
  <2>1. ParentAfter(plan, i) = Nearest(Ancestors(sessions, i) \ pruned)
    BY <1>2, <1>6 DEF ParentAfter, NearestKept
  <2>2. Ancestors(sessions, i) \subseteq OfType(sessions, "worktree")
    BY <1>6, WorktreeAncestors
  <2>3. Ancestors(sessions, i) \ pruned = Ancestors(sessions, i) \cap DOMAIN sessions'
    BY <1>2, <1>3, <1>5, <2>2 DEF OfType
  <2>4. QED
    BY <1>3, <2>1, <2>3 DEF Inherits
<1>7. CASE i \notin orphans
  <2>1. ParentAfter(plan, i) = sessions[i].parent
    BY <1>2, <1>7 DEF ParentAfter
  <2>2. sessions[i].parent \notin plan.delete
    <3>1. SUFFICES ASSUME NEW root \in pruned,
                          sessions[i].parent \in SecondaryDescendants(sessions, root) \cup {root}
                   PROVE  FALSE
      BY <1>2
    <3>2. root \in DOMAIN sessions
      BY <1>4 DEF OfType
    <3>3. i \notin SecondaryDescendants(sessions, root) \cup {root}
      BY <1>2, <1>3
    <3>4. sessions[i].type = "worktree" /\ sessions[i].parent = root
      BY <3>1, <3>2, <3>3, OrphansAreWorktrees
    <3>5. i \in orphans
      BY <1>2, <1>3, <3>4 DEF OfType
    <3>6. QED
      BY <1>7, <3>5
  <2>3. sessions[i].parent \in DOMAIN sessions' \cup {NoParent}
    BY <1>3, <2>2, WellFormedUp
  <2>4. DOMAIN sessions' \in SUBSET DOMAIN sessions
    BY <1>3
  <2>5. sessions[i].parent = Nearest(Ancestors(sessions, i) \cap DOMAIN sessions')
    BY <2>3, <2>4, ParentIsNearest
  <2>6. QED
    BY <1>3, <2>1, <2>5 DEF Inherits
<1>8. QED
  BY <1>6, <1>7

(* Additions, the vanishing of a directory and stutters keep every record. *)
LEMMA AddingKeepsRecords ==
  ASSUME TypeOK, WellFormed, NEW record, Add(record)
  PROVE  DOMAIN sessions \subseteq DOMAIN sessions' /\ \A i \in DOMAIN sessions : sessions'[i] = sessions[i]
BY WellFormedUp DEF Add

(* Every session that survives a step is under its nearest surviving       *)
(* ancestor, whatever kind of removal took its parent.                     *)
THEOREM SurvivorsAlwaysInherit == Spec => SurvivorsKeepNearestAncestor
<1>1. TypeOK /\ WellFormed /\ [Next]_vars => [\A i \in DOMAIN sessions \cap DOMAIN sessions' : Inherits(i)]_vars
  <2> SUFFICES ASSUME TypeOK, WellFormed, Next, NEW i \in DOMAIN sessions \cap DOMAIN sessions'
               PROVE  Inherits(i)
    OBVIOUS
  <2>1. ASSUME NEW parent, CreateWorktree(parent)
        PROVE  Inherits(i)
    BY <2>1, AddingKeepsRecords, KeepingInherits DEF CreateWorktree
  <2>2. ASSUME NEW parent, NEW onDelete, CreateSecondary(parent, onDelete)
        PROVE  Inherits(i)
    BY <2>2, AddingKeepsRecords, KeepingInherits DEF CreateSecondary
  <2>3. ASSUME NEW id \in SessionID, DirectoryVanishes(id)
        PROVE  Inherits(i)
    BY <2>3, KeepingInherits DEF DirectoryVanishes
  <2>4. QED
    BY <2>1, <2>2, <2>3, DeleteWorktreeInherits, DeleteSecondaryInherits, PruneInherits DEF Next
<1>2. QED
  BY <1>1, TreeStaysWellFormed, PTL DEF Spec, SurvivorsKeepNearestAncestor, Inherits

------------------------------------------------------------------------------
(* What a step removes.                                                    *)

Subtree(roots) == roots \cup UNION {SecondaryDescendants(sessions, r) : r \in roots}

(* The claim for one step.                                                 *)
Exact ==
  LET gone == RemovedIn(sessions, sessions')
      goneWorktrees == gone \cap OfType(sessions, "worktree")
      subtree(roots) == roots \cup UNION {SecondaryDescendants(sessions, r) : r \in roots}
  IN  gone # {} =>
        IF goneWorktrees = {}
          THEN \E r \in gone : gone = (IF sessions[r].onDelete = "inherit" THEN {r} ELSE subtree({r}))
          ELSE /\ gone = subtree(goneWorktrees)
               /\ goneWorktrees \subseteq missing \/ Cardinality(goneWorktrees) = 1

(* A step that removes no record is no removal.                            *)
LEMMA NothingRemoved ==
  ASSUME DOMAIN sessions \subseteq DOMAIN sessions'
  PROVE  Exact
BY DEF Exact, RemovedIn

(* A removal that takes some worktrees, and their secondary subtrees.      *)
LEMMA WorktreesRemoved ==
  ASSUME NEW roots, roots \subseteq OfType(sessions, "worktree"),
         RemovedIn(sessions, sessions') = Subtree(roots),
         roots \subseteq missing \/ Cardinality(roots) = 1
  PROVE  Exact
<1>1. \A r \in roots : SecondaryDescendants(sessions, r) \cap OfType(sessions, "worktree") = {}
  BY SecondaryDescendantsClosed DEF OfType
<1>2. Subtree(roots) \cap OfType(sessions, "worktree") = roots
  BY <1>1 DEF Subtree
<1>3. roots = {} => Subtree(roots) = {}
  BY DEF Subtree
<1>4. QED
  BY <1>2, <1>3 DEF Exact, Subtree

(* One session and what is below it.                                       *)
LEMMA SubtreeOfOne ==
  ASSUME NEW r
  PROVE  Subtree({r}) = SecondaryDescendants(sessions, r) \cup {r}
BY DEF Subtree

(* A removal of one secondary, by its policy.                              *)
LEMMA SecondaryRemoved ==
  ASSUME NEW r \in OfType(sessions, "secondary"),
         RemovedIn(sessions, sessions') =
           (IF sessions[r].onDelete = "inherit" THEN {r} ELSE Subtree({r}))
  PROVE  Exact
<1>1. SecondaryDescendants(sessions, r) \subseteq OfType(sessions, "secondary")
  BY SecondaryDescendantsClosed
<1>2. Subtree({r}) \cap OfType(sessions, "worktree") = {}
  BY <1>1, SubtreeOfOne DEF OfType
<1>3. {r} \cap OfType(sessions, "worktree") = {} /\ r \in Subtree({r})
  BY SubtreeOfOne DEF OfType
<1>4. QED
  BY <1>2, <1>3 DEF Exact, Subtree

(* A worktree goes with its secondary subtree.                             *)
LEMMA DeleteWorktreeExact ==
  ASSUME TypeOK, NEW id \in SessionID, DeleteWorktree(id)
  PROVE  Exact
<1> DEFINE plan == PlanWorktreeRemoval(sessions, id)
<1>1. id \in OfType(sessions, "worktree") /\ Carry(plan) /\ plan.ok
  BY DEF DeleteWorktree, Carry
<1>2. plan.delete = SecondaryDescendants(sessions, id) \cup {id}
  BY <1>1 DEF PlanWorktreeRemoval, NoPlan
<1>3. DOMAIN sessions' = DOMAIN sessions \ plan.delete
  BY <1>1, PlanLeaves
<1>4. plan.delete \subseteq DOMAIN sessions
  BY <1>1, <1>2 DEF OfType, SecondaryDescendants
<1> HIDE DEF plan
<1>5. RemovedIn(sessions, sessions') = Subtree({id})
  BY <1>2, <1>3, <1>4, SubtreeOfOne DEF RemovedIn
<1>6. Cardinality({id}) = 1
  BY FS_Singleton
<1>7. QED
  BY <1>1, <1>5, <1>6, WorktreesRemoved

(* A secondary goes alone or with its subtree.                             *)
LEMMA DeleteSecondaryExact ==
  ASSUME TypeOK, NEW id \in SessionID, DeleteSecondary(id)
  PROVE  Exact
<1> DEFINE plan == PlanSecondaryRemoval(sessions, id)
<1>1. id \in OfType(sessions, "secondary") /\ Carry(plan) /\ plan.ok
  BY DEF DeleteSecondary, Carry
<1>2. plan.delete = (IF sessions[id].onDelete = "inherit" THEN {id} ELSE Subtree({id}))
  BY <1>1, SubtreeOfOne DEF PlanSecondaryRemoval, NoPlan
<1>3. DOMAIN sessions' = DOMAIN sessions \ plan.delete
  BY <1>1, PlanLeaves
<1>4. {id} \subseteq DOMAIN sessions /\ Subtree({id}) \subseteq DOMAIN sessions
  <2>1. id \in DOMAIN sessions
    BY <1>1 DEF OfType
  <2>2. SecondaryDescendants(sessions, id) \subseteq DOMAIN sessions
    BY DEF SecondaryDescendants
  <2>3. QED
    BY <2>1, <2>2, SubtreeOfOne
<1> HIDE DEF plan
<1>5. RemovedIn(sessions, sessions') = plan.delete
  BY <1>2, <1>3, <1>4 DEF RemovedIn
<1>6. QED
  BY <1>1, <1>2, <1>5, SecondaryRemoved

(* A prune takes what was missing, with the secondary subtrees.            *)
LEMMA PruneExact ==
  ASSUME TypeOK, WellFormed, NEW pruned \in SUBSET SessionID, Prune(pruned)
  PROVE  Exact
<1> DEFINE plan == PlanWorktreePrune(sessions, pruned)
<1>1. Carry(plan) /\ plan.ok /\ pruned \subseteq missing
  BY DEF Prune, Carry
<1>2. plan.delete = Subtree(pruned)
  BY <1>1 DEF PlanWorktreePrune, NoPlan, Subtree
<1>3. DOMAIN sessions' = DOMAIN sessions \ plan.delete
  BY <1>1, PlanLeaves
<1>4. pruned \subseteq OfType(sessions, "worktree")
  BY <1>1 DEF WellFormed
<1>5. Subtree(pruned) \subseteq DOMAIN sessions
  BY <1>4 DEF Subtree, OfType, SecondaryDescendants
<1> HIDE DEF plan
<1>6. RemovedIn(sessions, sessions') = Subtree(pruned)
  BY <1>2, <1>3, <1>5 DEF RemovedIn
<1>7. QED
  BY <1>1, <1>4, <1>6, WorktreesRemoved

(* A step removes one worktree, or worktrees that are missing, with        *)
(* exactly their secondary subtrees, or a secondary by its policy.         *)
THEOREM RemovalsAreExact == Spec => RemovalIsExact
<1>1. TypeOK /\ WellFormed /\ [Next]_vars => [Exact]_vars
  <2> SUFFICES ASSUME TypeOK, WellFormed, Next
               PROVE  Exact
    OBVIOUS
  <2>1. ASSUME NEW parent, CreateWorktree(parent)
        PROVE  Exact
    BY <2>1, AddingKeepsRecords, NothingRemoved DEF CreateWorktree
  <2>2. ASSUME NEW parent, NEW onDelete, CreateSecondary(parent, onDelete)
        PROVE  Exact
    BY <2>2, AddingKeepsRecords, NothingRemoved DEF CreateSecondary
  <2>3. ASSUME NEW id \in SessionID, DirectoryVanishes(id)
        PROVE  Exact
    BY <2>3, NothingRemoved DEF DirectoryVanishes
  <2>4. QED
    BY <2>1, <2>2, <2>3, DeleteWorktreeExact, DeleteSecondaryExact, PruneExact DEF Next
<1>2. QED
  BY <1>1, TreeStaysWellFormed, PTL DEF Spec, RemovalIsExact, Exact
==============================================================================
