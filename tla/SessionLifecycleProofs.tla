------------------------ MODULE SessionLifecycleProofs ------------------------
(***************************************************************************)
(* However requests and setup goroutines overlap, newTopologyIndex never   *)
(* refuses the records, nothing the Daemon made is left without a record   *)
(* but the worktree a rollback could not remove, and a creation takes back *)
(* only its own worktree: for every number of them, every bound and every  *)
(* choice of what fails or changes outside (but for kills and removals,    *)
(* where the theorem says so).  A plan is made from one snapshot and       *)
(* carried out on another, so that the records alone are not inductive:    *)
(* what keeps them sound is that ids are never issued again and a session  *)
(* changes nothing but its parent, which makes what was read, planned or   *)
(* passed on as a parent good for ever.                                    *)
(*                                                                         *)
(* The last parts are about one request at a time: it implements           *)
(* SessionTree, and its creations are all or nothing beside the setups of  *)
(* earlier ones.                                                           *)
(***************************************************************************)
EXTENDS SessionLifecycle, FiniteSetTheorems, TLAPS

(* The parent of a session, in the records or in a snapshot of them, is    *)
(* older than the session, and the Main Session has none.                  *)
Aged(s) ==
  \A i \in DOMAIN s :
    /\ i \in Int /\ 0 < i /\ i < nextID
    /\ s[i].type \in SessionType
    /\ s[i].parent # NoParent => s[i].parent \in Int /\ s[i].parent < i
    /\ s[i].type = "main" => s[i].parent = NoParent

(* No worktree under a secondary.                                          *)
Upright(s) == \A c \in OfType(s, "worktree") : s[c].parent \notin OfType(s, "secondary")

(* What makes p a parent that session i may be given at any time.          *)
MayHang(i, p) ==
  p # NoParent =>
    /\ p \in Int /\ p < i
    /\ ~ (i \in OfType(sessions, "worktree") /\ p \in OfType(sessions, "secondary"))

Counted == nextID \in Int /\ nextID > MainID
Described == {"type", "parent", "branch", "tmux"}
Fields == \A i \in DOMAIN sessions : Described \subseteq DOMAIN sessions[i]

(* Only its parent changes in a record.                                    *)
Same(old, new) == new.type = old.type /\ new.branch = old.branch /\ new.tmux = old.tmux

(* A snapshot, however stale, agrees with the records on what both hold,   *)
(* but for the parents.                                                    *)
Remembered(snap) ==
  /\ Aged(snap)
  /\ \A i \in DOMAIN snap \cap DOMAIN sessions : Same(snap[i], sessions[i])

(* A plan, however stale, moves sessions under parents they may have, and  *)
(* never the Main Session.                                                 *)
Executable(reparent) ==
  \A i \in DOMAIN reparent :
    /\ i \in Int /\ i < nextID
    /\ MayHang(i, reparent[i])
    /\ i \in DOMAIN sessions => sessions[i].type # "main"

(* What an actor carries from one step to a later one.                     *)
Creating == {"reserve", "check", "add", "tmux", "record"}
Carries(state) ==
  /\ DOMAIN state = DOMAIN Idle
  /\ state.then \in {"idle", "read", "plan"}
  /\ state.parent # NoParent => state.parent \in Int /\ state.parent < nextID
  /\ state.pc \in Creating => state.parent \notin OfType(sessions, "secondary")
  /\ Remembered(state.snap)
  /\ Executable(state.plan.reparent)

Issued(id) == id \in Int /\ id < nextID
Actors == DOMAIN act = Actor /\ \A a \in Actor : Carries(act[a]) /\ Issued(act[a].id)

(* The inductive invariant.                                                *)
Sound == Counted /\ Fields /\ Aged(sessions) /\ Upright(sessions)
IInv == Sound /\ Actors

------------------------------------------------------------------------------
(* The planner's walks, on the records or on a snapshot.                   *)

(* Climbing from id stays inside any set that contains the parents of id   *)
(* and of its own members.                                                 *)
LEMMA AncestorsWithin ==
  ASSUME NEW s, NEW id, NEW C \in SUBSET DOMAIN s, UpClosed(s, id, C)
  PROVE  Ancestors(s, id) \subseteq C
BY DEF Ancestors

(* Nearest answers a member of the set or none.                            *)
LEMMA NearestMember ==
  ASSUME NEW ids
  PROVE  Nearest(ids) \in ids \cup {NoParent}
BY DEF Nearest

(* The climb meets only older sessions, so it never comes back.            *)
LEMMA ClimbAges ==
  ASSUME NEW s, Aged(s), NEW id \in DOMAIN s
  PROVE  Ancestors(s, id) \subseteq {a \in DOMAIN s : a < id}
<1> DEFINE older == {a \in DOMAIN s : a < id}
<1>1. ASSUME NEW x \in older \cup {id}, s[x].parent \in DOMAIN s
      PROVE  s[x].parent \in older
  <2>1. x \in DOMAIN s /\ x \in Int /\ id \in Int /\ x <= id
    BY DEF Aged
  <2>2. s[x].parent # NoParent
    BY <1>1 DEF Aged, NoParent
  <2>3. s[x].parent \in Int /\ s[x].parent < x
    BY <2>1, <2>2 DEF Aged
  <2>4. s[x].parent < id
    BY <2>1, <2>3
  <2>5. QED
    BY <1>1, <2>4
<1>2. UpClosed(s, id, older)
  BY <1>1 DEF UpClosed
<1>3. older \in SUBSET DOMAIN s
  OBVIOUS
<1>4. QED
  BY <1>2, <1>3, AncestorsWithin

(* The climb from a worktree meets no secondary.                           *)
LEMMA ClimbAboveWorktree ==
  ASSUME NEW s, Aged(s), Upright(s), NEW id \in OfType(s, "worktree")
  PROVE  Ancestors(s, id) \subseteq DOMAIN s \ OfType(s, "secondary")
<1> DEFINE roots == DOMAIN s \ OfType(s, "secondary")
<1>1. ASSUME NEW x \in roots \cup {id}, s[x].parent \in DOMAIN s
      PROVE  s[x].parent \in roots
  <2>1. x \in DOMAIN s /\ s[x].type \in SessionType /\ s[x].type # "secondary"
    BY DEF OfType, Aged
  <2>2. s[x].parent # NoParent
    BY <1>1 DEF Aged, NoParent
  <2>3. s[x].type = "worktree"
    BY <2>1, <2>2 DEF Aged, SessionType
  <2>4. QED
    BY <1>1, <2>1, <2>3 DEF Upright, OfType
<1>2. UpClosed(s, id, roots)
  BY <1>1 DEF UpClosed
<1>3. roots \in SUBSET DOMAIN s
  OBVIOUS
<1>4. QED
  BY <1>2, <1>3, AncestorsWithin

(* Sound records are a valid topology.                                     *)
LEMMA SoundIsValid == Sound => TopologyStaysValid
<1> SUFFICES ASSUME Sound PROVE ValidIndex(sessions)
  BY DEF TopologyStaysValid
<1>1. ASSUME NEW i \in DOMAIN sessions PROVE i \notin Ancestors(sessions, i)
  <2>1. i \in Int
    BY DEF Sound, Aged
  <2>2. QED
    BY <2>1, ClimbAges DEF Sound
<1>2. QED
  BY <1>1 DEF ValidIndex, Sound, Upright

------------------------------------------------------------------------------
(* What the three plans may move.                                          *)

(* The plan of a deletion, made from the records as they are.              *)
LEMMA WorktreeRemovalExecutable ==
  ASSUME Sound, NEW id \in OfType(sessions, "worktree")
  PROVE  Executable(PlanWorktreeRemoval(sessions, id).reparent)
<1> DEFINE plan == PlanWorktreeRemoval(sessions, id)
           moved == Children(sessions, id) \cap OfType(sessions, "worktree")
<1>1. CASE plan = NoPlan
  BY <1>1 DEF Executable, NoPlan
<1>2. CASE plan # NoPlan
  <2>1. plan.reparent = [c \in moved |-> sessions[id].parent]
    BY <1>2 DEF PlanWorktreeRemoval
  <2>2. ASSUME NEW c \in moved
        PROVE  /\ c \in Int /\ c < nextID /\ MayHang(c, sessions[id].parent)
               /\ sessions[c].type # "main"
    <3>1. /\ c \in DOMAIN sessions /\ sessions[c].type = "worktree" /\ sessions[c].parent = id
          /\ id \in DOMAIN sessions
      BY DEF Children, OfType
    <3>2. c \in Int /\ c < nextID /\ id \in Int /\ id > 0
      BY <3>1 DEF Sound, Aged
    <3>3. id < c
      BY <3>1, <3>2 DEF Sound, Aged, NoParent
    <3>4. sessions[id].parent # NoParent => sessions[id].parent \in Int /\ sessions[id].parent < id
      BY <3>1 DEF Sound, Aged
    <3>5. sessions[id].parent \notin OfType(sessions, "secondary")
      BY DEF Sound, Upright
    <3>6. QED
      BY <3>1, <3>2, <3>3, <3>4, <3>5 DEF MayHang
  <2>3. QED
    BY <2>1, <2>2 DEF Executable
<1>3. QED
  BY <1>1, <1>2

(* Its secondary counterpart.                                              *)
LEMMA SecondaryRemovalExecutable ==
  ASSUME Sound, NEW id \in OfType(sessions, "secondary")
  PROVE  Executable(PlanSecondaryRemoval(sessions, id).reparent)
<1> DEFINE plan == PlanSecondaryRemoval(sessions, id)
           moved == Children(sessions, id)
<1>1. CASE plan.reparent = <<>>
  BY <1>1 DEF Executable
<1>2. CASE plan.reparent # <<>>
  <2>1. plan.reparent = [c \in moved |-> sessions[id].parent]
    BY <1>2 DEF PlanSecondaryRemoval, NoPlan
  <2>2. ASSUME NEW c \in moved
        PROVE  /\ c \in Int /\ c < nextID /\ MayHang(c, sessions[id].parent)
               /\ sessions[c].type # "main"
    <3>1. c \in DOMAIN sessions /\ sessions[c].parent = id /\ id \in DOMAIN sessions
      BY DEF Children, OfType
    <3>2. c \in Int /\ c < nextID /\ id \in Int /\ id > 0
      BY <3>1 DEF Sound, Aged
    <3>3. id < c /\ sessions[c].type # "main"
      BY <3>1, <3>2 DEF Sound, Aged, NoParent
    <3>4. sessions[id].parent # NoParent => sessions[id].parent \in Int /\ sessions[id].parent < id
      BY <3>1 DEF Sound, Aged
    <3>5. c \notin OfType(sessions, "worktree")
      BY <3>1 DEF Sound, Upright
    <3>6. QED
      BY <3>2, <3>3, <3>4, <3>5 DEF MayHang
  <2>3. QED
    BY <2>1, <2>2 DEF Executable
<1>3. QED
  BY <1>1, <1>2

(* The plan of a prune is made from a snapshot the records have outgrown:  *)
(* the nearest kept ancestor is older, and was no secondary.               *)
LEMMA PruneExecutable ==
  ASSUME NEW snap, Remembered(snap), Sound, NEW pruned
  PROVE  Executable(PlanWorktreePrune(snap, pruned).reparent)
<1> DEFINE plan == PlanWorktreePrune(snap, pruned)
           moved == {w \in OfType(snap, "worktree") \ pruned : snap[w].parent \in pruned}
<1>1. CASE plan = NoPlan
  BY <1>1 DEF Executable, NoPlan
<1>2. CASE plan # NoPlan
  <2>1. plan.reparent = [c \in moved |-> NearestKept(snap, c, pruned)] /\ ValidIndex(snap)
    BY <1>2 DEF PlanWorktreePrune
  <2>2. Aged(snap) /\ Upright(snap)
    BY <2>1 DEF Remembered, ValidIndex, Upright
  <2>3. ASSUME NEW c \in moved
        PROVE  /\ c \in Int /\ c < nextID /\ MayHang(c, NearestKept(snap, c, pruned))
               /\ c \in DOMAIN sessions => sessions[c].type # "main"
    <3> DEFINE p == NearestKept(snap, c, pruned)
    <3>1. c \in OfType(snap, "worktree") /\ c \in DOMAIN snap /\ snap[c].type = "worktree"
      BY DEF OfType
    <3>2. p \in Ancestors(snap, c) \cup {NoParent}
      BY NearestMember DEF NearestKept
    <3>3. p # NoParent => p \in DOMAIN snap /\ p < c /\ p \notin OfType(snap, "secondary")
      BY <2>2, <3>1, <3>2, ClimbAges, ClimbAboveWorktree
    <3>4. p # NoParent => p \in Int /\ p \notin OfType(sessions, "secondary")
      BY <2>2, <3>3 DEF Aged, Remembered, OfType, Same
    <3>5. c \in Int /\ c < nextID
      BY <2>2, <3>1 DEF Aged
    <3>6. c \in DOMAIN sessions => sessions[c].type # "main"
      BY <3>1 DEF Remembered, Same
    <3> HIDE DEF p
    <3>7. MayHang(c, p)
      BY <3>3, <3>4 DEF MayHang
    <3>8. QED
      BY <3>5, <3>6, <3>7 DEF p
  <2>4. QED
    BY <2>1, <2>3 DEF Executable
<1>3. QED
  BY <1>1, <1>2

------------------------------------------------------------------------------
(* What time does to what an actor remembers.                              *)

(* Records only come under new ids and change nothing but their parent.    *)
Later ==
  /\ nextID' \in Int /\ nextID <= nextID'
  /\ \A i \in DOMAIN sessions' : i \in DOMAIN sessions => Same(sessions[i], sessions'[i])
  /\ \A i \in DOMAIN sessions' \ DOMAIN sessions : nextID <= i

(* A parent that may be given to a session may still be given later.       *)
LEMMA MayHangStays ==
  ASSUME Sound, Later, NEW i \in Int, i < nextID, NEW p, MayHang(i, p)
  PROVE  MayHang(i, p)'
<1>1. i \in DOMAIN sessions' => i \in DOMAIN sessions /\ sessions'[i].type = sessions[i].type
  BY DEF Later, Sound, Counted, Same
<1>2. ASSUME p # NoParent, p \in DOMAIN sessions'
      PROVE  p \in DOMAIN sessions /\ sessions'[p].type = sessions[p].type
  BY <1>2 DEF Later, Sound, Counted, MayHang, Same
<1>3. QED
  BY <1>1, <1>2 DEF MayHang, OfType

(* A snapshot goes on agreeing with the records.                           *)
LEMMA RememberedStays ==
  ASSUME Sound, Later, NEW snap, Remembered(snap)
  PROVE  Remembered(snap)'
<1>1. nextID \in Int /\ nextID' \in Int /\ nextID <= nextID'
  BY DEF Later, Sound, Counted
<1>2. Aged(snap)'
  BY <1>1 DEF Remembered, Aged
<1>3. ASSUME NEW i \in DOMAIN snap \cap DOMAIN sessions'
      PROVE  Same(snap[i], sessions'[i])
  <2>1. i \in DOMAIN sessions
    BY <1>1 DEF Remembered, Aged, Later
  <2>2. QED
    BY <2>1 DEF Remembered, Later, Same
<1>4. QED
  BY <1>2, <1>3 DEF Remembered

(* A plan may still be carried out later.                                  *)
LEMMA ExecutableStays ==
  ASSUME Sound, Later, NEW reparent, Executable(reparent)
  PROVE  Executable(reparent)'
<1> SUFFICES ASSUME NEW i \in DOMAIN reparent
             PROVE  /\ i \in Int /\ i < nextID' /\ MayHang(i, reparent[i])'
                    /\ i \in DOMAIN sessions' => sessions'[i].type # "main"
  BY DEF Executable
<1>1. i \in Int /\ i < nextID /\ MayHang(i, reparent[i])
  BY DEF Executable
<1>2. nextID \in Int /\ nextID' \in Int /\ nextID <= nextID'
  BY DEF Later, Sound, Counted
<1>3. MayHang(i, reparent[i])'
  BY <1>1, MayHangStays
<1>4. ASSUME i \in DOMAIN sessions' PROVE sessions'[i].type # "main"
  <2>1. i \in DOMAIN sessions
    BY <1>1, <1>2, <1>4 DEF Later
  <2>2. QED
    BY <1>4, <2>1 DEF Executable, Later, Same
<1>5. QED
  BY <1>1, <1>2, <1>3, <1>4

(* What an actor carries stays good while others work.                     *)
LEMMA CarriesStays ==
  ASSUME Sound, Later, NEW state, Carries(state)
  PROVE  Carries(state)'
<1>1. nextID \in Int /\ nextID' \in Int /\ nextID <= nextID'
  BY DEF Later, Sound, Counted
<1>2. Remembered(state.snap)' /\ Executable(state.plan.reparent)'
  BY RememberedStays, ExecutableStays DEF Carries
<1>3. state.parent # NoParent => state.parent < nextID'
  BY <1>1 DEF Carries
<1>4. state.pc \in Creating => state.parent \notin OfType(sessions', "secondary")
  <2>1. SUFFICES ASSUME state.pc \in Creating, state.parent \in OfType(sessions', "secondary")
                 PROVE  FALSE
    OBVIOUS
  <2>2. state.parent \in DOMAIN sessions'
    BY <2>1 DEF OfType
  <2>3. state.parent \in DOMAIN sessions
    BY <2>1, <2>2, <1>1 DEF Carries, Later, Sound, Counted, NoParent, MainID
  <2>4. QED
    BY <2>1, <2>2, <2>3 DEF Carries, Later, OfType, Same
<1>5. QED
  BY <1>2, <1>3, <1>4 DEF Carries

(* A step in whose eyes every actor's new state is good keeps all of them. *)
LEMMA KeepsActors ==
  ASSUME Sound, Later, DOMAIN act' = Actor,
         \A a \in Actor : Carries(act'[a]) /\ act'[a].id \in Int /\ act'[a].id < nextID'
  PROVE  Actors'
<1>1. ASSUME NEW a \in Actor PROVE Carries(act[a])'
  <2>1. ASSUME NEW state, Carries(state), act'[a] = state PROVE Carries(act[a])'
    <3>1. Carries(state)'
      BY <2>1, CarriesStays
    <3>2. QED
      BY <2>1, <3>1 DEF Carries, Remembered, Executable, MayHang, Aged
  <2>2. QED
    BY <2>1
<1>2. QED
  BY <1>1 DEF Actors, Issued

(* One actor moves on, whatever the step does to the records.              *)
LEMMA Advances ==
  ASSUME IInv, NEW a \in Actor, NEW state, Become(a, state), Carries(state),
         state.id \in Int, state.id < nextID', Sound', Later
  PROVE  IInv'
<1>1. /\ DOMAIN act' = Actor
      /\ \A b \in Actor : act'[b] = IF b = a THEN state ELSE act[b]
  BY DEF IInv, Actors, Become
<1>2. nextID \in Int /\ nextID' \in Int /\ nextID <= nextID'
  BY DEF IInv, Sound, Counted, Later
<1>3. ASSUME NEW b \in Actor
      PROVE  Carries(act'[b]) /\ act'[b].id \in Int /\ act'[b].id < nextID'
  <2>1. Carries(act[b]) /\ act[b].id \in Int /\ act[b].id < nextID
    BY DEF IInv, Actors, Issued
  <2>2. QED
    BY <1>1, <1>2, <2>1
<1>4. QED
  BY <1>1, <1>3, KeepsActors DEF IInv

(* The commonest step: one actor moves on, the records stay.               *)
Still == sessions' = sessions /\ nextID' = nextID
(* A step that leaves the records alone.                                   *)
LEMMA StillIsSound ==
  ASSUME Sound, Still
  PROVE  Sound' /\ Later
BY DEF Still, Sound, Counted, Fields, Aged, Upright, OfType, Later, Same

(* The records stay and one actor moves on.                                *)
LEMMA MovesOn ==
  ASSUME IInv, NEW a \in Actor, NEW state, Become(a, state),
         Carries(state), Issued(state.id), Still
  PROVE  IInv'
BY StillIsSound, Advances DEF IInv, Issued, Still

------------------------------------------------------------------------------
(* The states an actor passes through, each made from the one before.      *)

(* An actor that is idle carries nothing.                                  *)
LEMMA IdleCarries == ASSUME Sound PROVE Carries(Idle) /\ Issued(Idle.id)
<1>1. /\ Idle.then = "idle" /\ Idle.parent = NoParent /\ Idle.pc = "idle"
      /\ Idle.snap = <<>> /\ Idle.plan.reparent = <<>> /\ Idle.id = 0
  BY DEF Idle, NoPlan
<1>2. Remembered(<<>>) /\ Executable(<<>>)
  BY DEF Remembered, Executable, Aged
<1>3. Issued(0)
  BY DEF Issued, Sound, Counted, MainID
<1>4. QED
  BY <1>1, <1>2, <1>3 DEF Carries, Creating

(* Moving on to another place, unless a creation starts there.             *)
LEMMA GotoCarries ==
  ASSUME NEW state, Carries(state), NEW pc, pc \in Creating => state.pc \in Creating
  PROVE  Carries([state EXCEPT !.pc = pc]) /\ [state EXCEPT !.pc = pc].id = state.id
<1> DEFINE new == [state EXCEPT !.pc = pc]
<1>1. /\ DOMAIN new = DOMAIN Idle /\ new.then = state.then /\ new.parent = state.parent
      /\ new.snap = state.snap /\ new.plan = state.plan /\ new.pc = pc /\ new.id = state.id
  BY DEF Carries, Idle
<1> HIDE DEF new
<1>2. QED
  BY <1>1 DEF Carries, new

(* Only what the invariant is about matters of a new state.                *)
LEMMA AlikeCarries ==
  ASSUME NEW state, Carries(state), NEW new, DOMAIN new = DOMAIN Idle,
         new.then \in {"idle", "read", "plan"}, new.parent = state.parent,
         new.pc \in Creating => state.pc \in Creating,
         new.snap \in {state.snap, <<>>},
         new.plan.reparent \in {state.plan.reparent, <<>>}
  PROVE  Carries(new)
<1>1. Remembered(<<>>) /\ Executable(<<>>)
  BY DEF Remembered, Executable, Aged
<1>2. QED
  BY <1>1 DEF Carries

(* Forgetting what a critical section read.                                *)
LEMMA ForgetCarries ==
  ASSUME NEW a, Carries(act[a]), NEW pc, pc \notin Creating
  PROVE  Carries([Forget(a) EXCEPT !.pc = pc]) /\ [Forget(a) EXCEPT !.pc = pc].id = act[a].id
<1> DEFINE new == [Forget(a) EXCEPT !.pc = pc]
<1>1. /\ DOMAIN new = DOMAIN Idle /\ new.then = act[a].then /\ new.parent = act[a].parent
      /\ new.snap = <<>> /\ new.plan = NoPlan /\ new.pc = pc /\ new.id = act[a].id
  BY DEF Carries, Idle, Forget
<1>2. NoPlan.reparent = <<>>
  BY DEF NoPlan
<1> HIDE DEF new
<1>3. QED
  BY <1>1, <1>2, AlikeCarries DEF Carries, new

(* Steps that move one actor and leave the records.                        *)
LEMMA GoesOn ==
  ASSUME IInv, NEW a \in Actor, NEW pc, Goto(a, pc), Still,
         pc \in Creating => act[a].pc \in Creating
  PROVE  IInv'
<1>1. Carries(act[a]) /\ Issued(act[a].id)
  BY DEF IInv, Actors
<1>2. QED
  BY <1>1, GotoCarries, MovesOn DEF Goto, Still

(* An actor that becomes idle keeps the invariant.                         *)
LEMMA GoesIdle ==
  ASSUME IInv, NEW a \in Actor, Become(a, Idle), Still
  PROVE  IInv'
BY IdleCarries, MovesOn DEF IInv, Still

(* An actor that turns to the cleanup keeps it.                            *)
LEMMA Cleans ==
  ASSUME IInv, NEW a \in Actor, CleanUp(a), Still
  PROVE  IInv'
<1> DEFINE new == [act[a] EXCEPT !.pc = "lock", !.force = TRUE, !.undo = TRUE]
<1>1. Carries(act[a]) /\ Issued(act[a].id)
  BY DEF IInv, Actors
<1>2. /\ DOMAIN new = DOMAIN Idle /\ new.then = act[a].then /\ new.parent = act[a].parent
      /\ new.snap = act[a].snap /\ new.plan = act[a].plan /\ new.pc = "lock" /\ new.id = act[a].id
  BY <1>1 DEF Carries, Idle
<1>3. Become(a, new)
  BY DEF CleanUp
<1> HIDE DEF new
<1>4. Carries(new)
  BY <1>1, <1>2, AlikeCarries DEF Carries, Creating
<1>5. QED
  BY <1>1, <1>2, <1>3, <1>4, MovesOn DEF Still

(* A deletion that ends with its write keeps it.                           *)
LEMMA EndsAfterWriting ==
  ASSUME IInv, NEW a \in Actor, EndRemoval(a), Sound', Later, nextID' = nextID
  PROVE  IInv'
<1>1. Sound /\ Carries(act[a]) /\ act[a].id \in Int /\ act[a].id < nextID
  BY DEF IInv, Actors, Issued
<1>2. "branch" \notin Creating
  BY DEF Creating
<1>3. CASE act[a].undo
  <2> DEFINE new == [Forget(a) EXCEPT !.pc = "branch"]
  <2>1. Become(a, new)
    BY <1>3 DEF EndRemoval
  <2>2. Carries(new) /\ new.id = act[a].id
    BY <1>1, <1>2, ForgetCarries
  <2> HIDE DEF new
  <2>3. QED
    BY <1>1, <2>1, <2>2, Advances
<1>4. CASE ~ act[a].undo
  <2>1. Become(a, Idle)
    BY <1>4 DEF EndRemoval
  <2>2. Carries(Idle) /\ Idle.id \in Int /\ Idle.id < nextID
    BY <1>1, IdleCarries DEF Issued
  <2>3. QED
    BY <2>1, <2>2, Advances
<1>5. QED
  BY <1>3, <1>4

(* A deletion that ends without a write keeps it.                          *)
LEMMA Ends ==
  ASSUME IInv, NEW a \in Actor, EndRemoval(a), Still
  PROVE  IInv'
BY StillIsSound, EndsAfterWriting DEF IInv, Still

------------------------------------------------------------------------------
(* What the critical sections write.                                       *)

(* Some records go, some get another parent.                               *)
LEMMA LosesAndMoves ==
  ASSUME Sound, nextID' = nextID, DOMAIN sessions' \subseteq DOMAIN sessions,
         \A i \in DOMAIN sessions' :
           /\ Described \subseteq DOMAIN sessions'[i]
           /\ Same(sessions[i], sessions'[i])
           /\ \/ sessions'[i].parent = sessions[i].parent
              \/ MayHang(i, sessions'[i].parent) /\ sessions[i].type # "main"
  PROVE  Sound' /\ Later
<1>1. Counted' /\ Fields' /\ Later
  BY DEF Sound, Counted, Fields, Later
<1>2. Aged(sessions)'
  BY DEF Sound, Aged, MayHang, Same
<1>3. ASSUME NEW c \in OfType(sessions', "worktree"),
             sessions'[c].parent \in OfType(sessions', "secondary")
      PROVE  FALSE
  <2>1. c \in OfType(sessions, "worktree") /\ sessions'[c].parent \in OfType(sessions, "secondary")
    BY <1>3 DEF OfType, Same
  <2>2. sessions'[c].parent # NoParent
    BY <2>1 DEF Sound, Aged, OfType, NoParent
  <2>3. QED
    BY <1>3, <2>1, <2>2 DEF Sound, Upright, MayHang, OfType, Same
<1>4. QED
  BY <1>1, <1>2, <1>3 DEF Sound, Upright

(* Carrying out an executable plan leaves sound records.                   *)
LEMMA RewriteIsSound ==
  ASSUME Sound, NEW plan, Executable(plan.reparent), Rewrite(plan), nextID' = nextID
  PROVE  Sound' /\ Later
<1> DEFINE done == {i \in DOMAIN plan.reparent : \A b \in Broken(plan) : i < b}
           part == [ok |-> TRUE, delete |-> {}, reparent |-> [i \in done |-> plan.reparent[i]]]
<1>1. PICK p \in {plan, part} : sessions' = Carried(sessions, p)
  BY DEF Rewrite
<1>2. \A i \in DOMAIN p.reparent : i \in DOMAIN plan.reparent /\ p.reparent[i] = plan.reparent[i]
  BY <1>1
<1> HIDE DEF part
<1>3. ASSUME NEW i \in DOMAIN sessions'
      PROVE  /\ i \in DOMAIN sessions
             /\ Described \subseteq DOMAIN sessions'[i]
             /\ Same(sessions[i], sessions'[i])
             /\ \/ sessions'[i].parent = sessions[i].parent
                \/ MayHang(i, sessions'[i].parent) /\ sessions[i].type # "main"
  <2>1. /\ i \in DOMAIN sessions
        /\ sessions'[i] = IF i \in DOMAIN p.reparent
                            THEN [sessions[i] EXCEPT !.parent = p.reparent[i]] ELSE sessions[i]
    BY <1>1 DEF Carried
  <2>2. Described \subseteq DOMAIN sessions[i]
    BY <2>1 DEF Sound, Fields
  <2>3. CASE i \in DOMAIN p.reparent
    <3>1. MayHang(i, p.reparent[i]) /\ sessions[i].type # "main"
      BY <1>2, <2>1, <2>3 DEF Executable
    <3>2. QED
      BY <2>1, <2>2, <2>3, <3>1 DEF Described, Same
  <2>4. CASE i \notin DOMAIN p.reparent
    BY <2>1, <2>2, <2>4 DEF Same
  <2>5. QED
    BY <2>3, <2>4
<1>4. QED
  BY <1>3, LosesAndMoves

(* So does deleting records.                                               *)
LEMMA DeletingIsSound ==
  ASSUME Sound, NEW ids, sessions' = [i \in DOMAIN sessions \ ids |-> sessions[i]],
         nextID' = nextID
  PROVE  Sound' /\ Later
<1>1. \A i \in DOMAIN sessions : Described \subseteq DOMAIN sessions[i]
  BY DEF Sound, Fields
<1>2. QED
  BY <1>1, LosesAndMoves DEF Same

(* A new record under a parent that has been issued.                       *)
LEMMA AddingIsSound ==
  ASSUME Sound, NEW record, AddRecord(record), Described \subseteq DOMAIN record,
         record.type \in {"worktree", "secondary"},
         record.parent # NoParent => record.parent \in Int /\ record.parent < nextID,
         record.type = "worktree" => record.parent \notin OfType(sessions, "secondary")
  PROVE  Sound' /\ Later /\ nextID' = nextID + 1
<1>1. /\ nextID' = nextID + 1 /\ nextID \in Int /\ nextID > MainID
      /\ DOMAIN sessions' = DOMAIN sessions \cup {nextID}
      /\ sessions'[nextID] = record
  BY DEF AddRecord, Sound, Counted
<1>2. nextID \notin DOMAIN sessions
  BY DEF Sound, Counted, Aged
<1>3. \A i \in DOMAIN sessions : sessions'[i] = sessions[i]
  BY <1>2 DEF AddRecord
<1>4. Counted' /\ Fields'
  BY <1>1, <1>3 DEF Sound, Counted, Fields, MainID
<1>5. Later
  BY <1>1, <1>3 DEF Later, Same
<1>6. Aged(sessions)'
  <2>1. SUFFICES ASSUME NEW i \in DOMAIN sessions'
                 PROVE  /\ i \in Int /\ 0 < i /\ i < nextID'
                        /\ sessions'[i].type \in SessionType
                        /\ sessions'[i].parent # NoParent =>
                             sessions'[i].parent \in Int /\ sessions'[i].parent < i
                        /\ sessions'[i].type = "main" => sessions'[i].parent = NoParent
    BY DEF Aged
  <2>2. CASE i = nextID
    BY <1>1, <2>2 DEF MainID, SessionType
  <2>3. CASE i \in DOMAIN sessions
    BY <1>1, <1>3, <2>3 DEF Sound, Aged
  <2>4. QED
    BY <1>1, <2>2, <2>3
<1>7. Upright(sessions)'
  <2>1. SUFFICES ASSUME NEW c \in OfType(sessions', "worktree"),
                        sessions'[c].parent \in OfType(sessions', "secondary")
                 PROVE  FALSE
    BY DEF Upright
  <2>2. sessions'[c].parent # NoParent
    BY <1>6, <2>1 DEF Aged, OfType, NoParent
  <2>3. c \in DOMAIN sessions' /\ c < nextID'
    BY <1>6 DEF OfType, Aged
  <2>4. sessions'[c].parent \in Int /\ sessions'[c].parent < c /\ c \in Int
    BY <1>6, <2>2, <2>3 DEF Aged
  <2>5. sessions'[c].parent # nextID
    BY <1>1, <2>3, <2>4
  <2>6. sessions'[c].parent \in OfType(sessions, "secondary")
    BY <1>1, <1>3, <2>1, <2>5 DEF OfType
  <2>7. CASE c = nextID
    BY <1>1, <2>1, <2>6, <2>7 DEF OfType
  <2>8. CASE c \in DOMAIN sessions
    BY <1>3, <2>1, <2>6, <2>8 DEF Sound, Upright, OfType
  <2>9. QED
    BY <1>1, <2>3, <2>7, <2>8
<1>8. QED
  BY <1>1, <1>4, <1>5, <1>6, <1>7 DEF Sound

------------------------------------------------------------------------------
(* One lemma per action, or per group of actions that only move on.        *)

(* The invariant holds at the start.                                       *)
LEMMA InitSound == Init => IInv
<1> SUFFICES ASSUME Init PROVE IInv
  OBVIOUS
<1>1. /\ DOMAIN sessions = {1} /\ nextID = 2
      /\ Described \subseteq DOMAIN sessions[1]
      /\ sessions[1].type = "main" /\ sessions[1].parent = NoParent
  BY DEF Init, MainID, Described
<1>2. Counted /\ Fields /\ Aged(sessions)
  BY <1>1 DEF Counted, Fields, Aged, MainID, SessionType
<1>3. Upright(sessions)
  BY <1>1 DEF Upright, OfType
<1>4. DOMAIN act = Actor /\ \A a \in Actor : act[a] = Idle
  BY DEF Init
<1>5. QED
  BY <1>2, <1>3, <1>4, IdleCarries DEF IInv, Sound, Actors

(* A request that begins.                                                  *)
LEMMA StartsStep ==
  ASSUME IInv, NEW r \in Request, Starts(r)
  PROVE  IInv'
<1>1. r \in Actor /\ Sound /\ Carries(act[r]) /\ Issued(act[r].id)
  BY DEF Actor, IInv, Actors
<1>2. Remembered(<<>>) /\ Executable(<<>>) /\ Issued(0)
  BY <1>1 DEF Remembered, Executable, Aged, Issued, Sound, Counted, MainID
<1>3. \A i \in DOMAIN sessions : i \in Int /\ i < nextID
  BY <1>1 DEF Sound, Aged
<1>4. ASSUME NEW b \in Branch, NEW mode \in Mode, NEW source \in DOMAIN sessions \cup {NoParent},
             StartWorktree(r, b, mode, source)
      PROVE  IInv'
  <2> DEFINE new == [Idle EXCEPT !.pc = "reconcile", !.then = "read", !.branch = b,
                                 !.mode = mode, !.parent = source]
  <2>1. /\ DOMAIN new = DOMAIN Idle /\ new.then = "read" /\ new.parent = source
        /\ new.pc = "reconcile" /\ new.snap = <<>> /\ new.plan.reparent = <<>> /\ new.id = 0
    BY DEF Idle, NoPlan
  <2>2. Become(r, new) /\ Still
    BY <1>4 DEF StartWorktree, Still, records
  <2> HIDE DEF new
  <2>3. Carries(new)
    BY <1>2, <1>3, <2>1 DEF Carries, Creating
  <2>4. QED
    BY <1>1, <1>2, <2>1, <2>2, <2>3, MovesOn
<1>5. ASSUME NEW parent \in DOMAIN sessions, NEW onDelete \in OnDelete,
             StartSecondary(r, parent, onDelete)
      PROVE  IInv'
  <2> DEFINE new == [Idle EXCEPT !.pc = "nest", !.parent = parent, !.onDelete = onDelete]
  <2>1. /\ DOMAIN new = DOMAIN Idle /\ new.then = "idle" /\ new.parent = parent
        /\ new.pc = "nest" /\ new.snap = <<>> /\ new.plan.reparent = <<>> /\ new.id = 0
    BY DEF Idle, NoPlan
  <2>2. Become(r, new) /\ Still
    BY <1>5 DEF StartSecondary, Still, records
  <2> HIDE DEF new
  <2>3. Carries(new)
    BY <1>2, <1>3, <2>1 DEF Carries, Creating
  <2>4. QED
    BY <1>1, <1>2, <2>1, <2>2, <2>3, MovesOn
<1>6. ASSUME NEW id \in DOMAIN sessions, NEW force \in BOOLEAN, StartDelete(r, id, force)
      PROVE  IInv'
  <2> DEFINE new == [Idle EXCEPT !.pc = "lock", !.id = id, !.force = force]
  <2>1. /\ DOMAIN new = DOMAIN Idle /\ new.then = "idle" /\ new.parent = NoParent
        /\ new.pc = "lock" /\ new.snap = <<>> /\ new.plan.reparent = <<>> /\ new.id = id
    BY DEF Idle, NoPlan
  <2>2. Become(r, new) /\ Still
    BY <1>6 DEF StartDelete, Still, records
  <2> HIDE DEF new
  <2>3. Carries(new) /\ Issued(new.id)
    BY <1>2, <1>3, <2>1 DEF Carries, Creating, Issued
  <2>4. QED
    BY <1>1, <2>2, <2>3, MovesOn
<1>7. ASSUME StartDeleteProject(r) PROVE IInv'
  BY <1>1, <1>7, GoesOn DEF StartDeleteProject, Still, records, Creating
<1>8. QED
  BY <1>4, <1>5, <1>6, <1>7 DEF Starts

(* A snapshot is the records as they are.                                  *)
LEMMA ReconcileReadStep ==
  ASSUME IInv, NEW a \in Actor, ReconcileRead(a)
  PROVE  IInv'
<1> DEFINE new == [act[a] EXCEPT !.pc = "stat", !.snap = sessions]
<1>1. Sound /\ Carries(act[a]) /\ Issued(act[a].id)
  BY DEF IInv, Actors
<1>2. /\ DOMAIN new = DOMAIN Idle /\ new.then = act[a].then /\ new.parent = act[a].parent
      /\ new.pc = "stat" /\ new.snap = sessions /\ new.plan = act[a].plan /\ new.id = act[a].id
  BY <1>1 DEF Carries, Idle
<1>3. Become(a, new) /\ Still
  BY DEF ReconcileRead, Still, records
<1> HIDE DEF new
<1>4. Remembered(sessions)
  BY <1>1 DEF Remembered, Sound, Same
<1>5. Carries(new)
  BY <1>1, <1>2, <1>4 DEF Carries, Creating
<1>6. QED
  BY <1>1, <1>2, <1>3, <1>5, MovesOn

(* The plan of a prune is executable, however old its snapshot.            *)
LEMMA ReconcileStatStep ==
  ASSUME IInv, NEW a \in Actor, ReconcileStat(a)
  PROVE  IInv'
<1> DEFINE snap == act[a].snap
           plan == PlanWorktreePrune(snap, MissingIn(snap))
<1>1. Sound /\ Carries(act[a]) /\ Issued(act[a].id) /\ Remembered(snap)
  BY DEF IInv, Actors, Carries
<1>2. Still
  BY DEF ReconcileStat, Still, records
<1>3. act[a].then \notin Creating
  BY <1>1 DEF Carries, Creating
<1>4. CASE Become(a, [Forget(a) EXCEPT !.pc = act[a].then])
  BY <1>1, <1>2, <1>3, <1>4, ForgetCarries, MovesOn
<1>5. CASE Become(a, [Forget(a) EXCEPT !.pc = "prune-kill", !.plan = plan,
                                       !.names = TmuxNames(snap, plan.delete)])
  <2> DEFINE new == [Forget(a) EXCEPT !.pc = "prune-kill", !.plan = plan,
                                      !.names = TmuxNames(snap, plan.delete)]
  <2>1. Executable(plan.reparent)
    BY <1>1, PruneExecutable
  <2> HIDE DEF plan
  <2>2. /\ DOMAIN new = DOMAIN Idle /\ new.then = act[a].then /\ new.parent = act[a].parent
        /\ new.pc = "prune-kill" /\ new.snap = <<>> /\ new.plan = plan /\ new.id = act[a].id
    BY <1>1 DEF Carries, Idle, Forget
  <2>3. Become(a, new)
    BY <1>5
  <2> HIDE DEF new
  <2>4. Remembered(<<>>)
    BY DEF Remembered, Aged
  <2>5. Carries(new)
    BY <1>1, <2>1, <2>2, <2>4 DEF Carries, Creating
  <2>6. QED
    BY <1>1, <1>2, <2>2, <2>3, <2>5, MovesOn
<1>6. CASE EndRemoval(a)
  BY <1>2, <1>6, Ends
<1>7. QED
  BY <1>4, <1>5, <1>6 DEF ReconcileStat

(* A prune carries out its plan.                                           *)
LEMMA PruneWriteStep ==
  ASSUME IInv, NEW a \in Actor, PruneWrite(a)
  PROVE  IInv'
<1>1. Sound /\ Carries(act[a]) /\ act[a].id \in Int /\ act[a].id < nextID
  BY DEF IInv, Actors, Issued
<1>2. nextID' = nextID /\ Sound' /\ Later
  BY <1>1, RewriteIsSound DEF PruneWrite, Carries
<1>3. act[a].then \notin Creating
  BY <1>1 DEF Carries, Creating
<1>4. CASE Become(a, [Forget(a) EXCEPT !.pc = act[a].then])
  BY <1>1, <1>2, <1>3, <1>4, ForgetCarries, Advances
<1>5. CASE EndRemoval(a)
  BY <1>2, <1>5, EndsAfterWriting
<1>6. QED
  BY <1>4, <1>5 DEF PruneWrite

(* The steps that read nothing and write no record.                        *)
LEMMA PlainSteps ==
  ASSUME IInv, NEW a \in Actor,
         \/ PruneKill(a) \/ Reserve(a) \/ CheckGit(a) \/ AddWorktree(a) \/ CreateTmux(a)
         \/ Rollback(a) \/ Materialize(a) \/ Unwind(a) \/ Undo(a)
         \/ RemoveWorktree(a) \/ Kill(a) \/ DeleteBranch(a) \/ NestTmux(a) \/ ProjectKill(a)
         \/ HookSucceeds(a) \/ HookFails(a) \/ Finalize(a)
  PROVE  IInv'
<1>1. Still
  BY DEF Still, records, PruneKill, Reserve, CheckGit, AddWorktree, CreateTmux, Rollback,
         Materialize, Unwind, Undo, RemoveWorktree, Kill, DeleteBranch, NestTmux, ProjectKill,
         HookSucceeds, HookFails, Finalize
<1>2. CASE PruneKill(a)
  BY <1>1, <1>2, GoesOn, Ends DEF PruneKill, Creating
<1>3. CASE Reserve(a)
  BY <1>1, <1>3, GoesOn, GoesIdle DEF Reserve, At, Creating
<1>4. CASE CheckGit(a)
  <2>1. CASE Goto(a, "tmux") \/ Goto(a, "add")
    BY <1>1, <1>4, <2>1, GoesOn DEF CheckGit, At, Creating
  <2>2. CASE FinishCreation(a)
    BY <1>1, <2>2, GoesIdle DEF FinishCreation
  <2>3. QED
    BY <1>4, <2>1, <2>2 DEF CheckGit
<1>5. CASE AddWorktree(a)
  BY <1>1, <1>5, GoesOn DEF AddWorktree, At, Creating
<1>6. CASE CreateTmux(a)
  BY <1>1, <1>6, GoesOn DEF CreateTmux, At, Creating
<1>7. CASE Rollback(a)
  BY <1>1, <1>7, GoesIdle DEF Rollback, FinishCreation
<1>8. CASE Materialize(a)
  BY <1>1, <1>8, GoesOn, GoesIdle, Cleans DEF Materialize, Abandon, FinishCreation, Creating
<1>9. CASE Unwind(a) \/ Undo(a) \/ Kill(a) \/ HookSucceeds(a)
  BY <1>1, <1>9, GoesOn DEF Unwind, Undo, Kill, HookSucceeds, Creating
<1>10. CASE RemoveWorktree(a)
  BY <1>1, <1>10, GoesOn, Ends DEF RemoveWorktree, Creating
<1>11. CASE DeleteBranch(a)
  BY <1>1, <1>11, GoesIdle DEF DeleteBranch, FinishCreation
<1>12. CASE NestTmux(a) \/ ProjectKill(a)
  BY <1>1, <1>12, GoesOn, GoesIdle DEF NestTmux, ProjectKill, Creating
<1>13. CASE HookFails(a)
  BY <1>1, <1>13, Cleans, GoesIdle DEF HookFails
<1>14. CASE Finalize(a)
  BY <1>1, <1>14, GoesOn, GoesIdle DEF Finalize, Creating
<1>15. QED
  BY <1>2, <1>3, <1>4, <1>5, <1>6, <1>7, <1>8, <1>9, <1>10, <1>11, <1>12, <1>13, <1>14

(* The source of a creation becomes the parent if it is a worktree.        *)
LEMMA ReadStateStep ==
  ASSUME IInv, NEW r \in Actor, ReadState(r)
  PROVE  IInv'
<1>1. Sound /\ Carries(act[r]) /\ Issued(act[r].id) /\ Still
  BY DEF IInv, Actors, ReadState, Still, records
<1>2. CASE Become(r, Idle)
  BY <1>1, <1>2, GoesIdle
<1>3. ASSUME NEW p, p = IF act[r].parent \in OfType(sessions, "worktree") THEN act[r].parent
                        ELSE NoParent,
             Become(r, [act[r] EXCEPT !.pc = "reserve", !.parent = p])
      PROVE  IInv'
  <2> DEFINE new == [act[r] EXCEPT !.pc = "reserve", !.parent = p]
  <2>1. /\ DOMAIN new = DOMAIN Idle /\ new.then = act[r].then /\ new.parent = p
        /\ new.pc = "reserve" /\ new.snap = act[r].snap /\ new.plan = act[r].plan
        /\ new.id = act[r].id
    BY <1>1 DEF Carries, Idle
  <2> HIDE DEF new
  <2>2. p # NoParent => p \in Int /\ p < nextID
    BY <1>1, <1>3 DEF Carries
  <2>3. p \notin OfType(sessions, "secondary")
    BY <1>1, <1>3 DEF OfType, Sound, Aged, NoParent
  <2>4. Carries(new)
    BY <1>1, <2>1, <2>2, <2>3 DEF Carries
  <2>5. QED
    BY <1>1, <1>3, <2>1, <2>4, MovesOn DEF new
<1>4. QED
  BY <1>2, <1>3 DEF ReadState

(* A creation gives its session the id that is next and the parent it      *)
(* chose before git and tmux were asked.                                   *)
LEMMA WriteRecordStep ==
  ASSUME IInv, NEW r \in Actor, WriteRecord(r)
  PROVE  IInv'
<1> DEFINE record == [type |-> "worktree", parent |-> act[r].parent, onDelete |-> "cascade",
                      branch |-> act[r].branch, name |-> 1, tmux |-> <<act[r].branch>>]
           pc == IF act[r].mode = "adopt" THEN "materialize" ELSE "hook"
           new == [act[r] EXCEPT !.id = nextID, !.pc = pc]
<1>1. Sound /\ Carries(act[r]) /\ nextID \in Int
  BY DEF IInv, Actors, Sound, Counted
<1>2. AddRecord(record) /\ Become(r, new) /\ act[r].pc = "record"
  BY DEF WriteRecord, At
<1>3. Sound' /\ Later /\ nextID' = nextID + 1
  <2>1. /\ Described \subseteq DOMAIN record /\ record.type = "worktree"
        /\ record.parent = act[r].parent
    BY DEF Described
  <2>2. /\ act[r].parent # NoParent => act[r].parent \in Int /\ act[r].parent < nextID
        /\ act[r].parent \notin OfType(sessions, "secondary")
    BY <1>1, <1>2 DEF Carries, Creating
  <2> HIDE DEF record
  <2>3. QED
    BY <1>1, <1>2, <2>1, <2>2, AddingIsSound
<1>4. /\ DOMAIN new = DOMAIN Idle /\ new.then = act[r].then /\ new.parent = act[r].parent
      /\ new.pc \notin Creating /\ new.snap = act[r].snap /\ new.plan = act[r].plan
      /\ new.id = nextID
  BY <1>1 DEF Carries, Idle, Creating
<1> HIDE DEF new
<1>5. Carries(new)
  BY <1>1, <1>4, AlikeCarries DEF Carries
<1>6. QED
  BY <1>1, <1>2, <1>3, <1>4, <1>5, Advances

(* The request hands its state to the goroutine that supervises the hook.  *)
LEMMA StartHookStep ==
  ASSUME IInv, NEW r \in Actor, StartHook(r)
  PROVE  IInv'
<1>1. Sound /\ Still
  BY DEF IInv, StartHook, Still, records
<1>2. CASE Goto(r, "materialize")
  BY <1>1, <1>2, GoesOn DEF Creating
<1>3. CASE CleanUp(r)
  BY <1>1, <1>3, Cleans
<1>4. ASSUME NEW w \in Worker,
             act' = [act EXCEPT ![r] = Idle,
                                ![w] = [Forget(r) EXCEPT !.pc = "running", !.then = "idle"]]
      PROVE  IInv'
  <2> DEFINE new == [Forget(r) EXCEPT !.pc = "running", !.then = "idle"]
  <2>1. Carries(act[r]) /\ Issued(act[r].id) /\ DOMAIN act = Actor
    BY DEF IInv, Actors
  <2>2. /\ DOMAIN new = DOMAIN Idle /\ new.then = "idle" /\ new.parent = act[r].parent
        /\ new.pc = "running" /\ new.snap = <<>> /\ new.plan = NoPlan /\ new.id = act[r].id
    BY <2>1 DEF Carries, Idle, Forget
  <2>3. NoPlan.reparent = <<>>
    BY DEF NoPlan
  <2>4. act' = [act EXCEPT ![r] = Idle, ![w] = new]
    BY <1>4
  <2> HIDE DEF new
  <2>5. Carries(new) /\ Issued(new.id)
    BY <2>1, <2>2, <2>3, AlikeCarries DEF Creating
  <2>6. /\ DOMAIN act' = Actor
        /\ \A b \in Actor : act'[b] \in {act[b], Idle, new}
    BY <2>1, <2>4
  <2>7. ASSUME NEW b \in Actor
        PROVE  Carries(act'[b]) /\ act'[b].id \in Int /\ act'[b].id < nextID'
    <3>1. Carries(act[b]) /\ Issued(act[b].id)
      BY DEF IInv, Actors
    <3>2. Carries(Idle) /\ Issued(Idle.id)
      BY <1>1, IdleCarries
    <3>3. Carries(act'[b]) /\ Issued(act'[b].id)
      BY <2>5, <2>6, <3>1, <3>2
    <3>4. QED
      BY <1>1, <3>3 DEF Issued, Still
  <2>8. QED
    BY <1>1, <2>6, <2>7, StillIsSound, KeepsActors DEF IInv
<1>5. QED
  BY <1>2, <1>3, <1>4 DEF StartHook

(* A declared secondary hangs under the session of its setup.              *)
LEMMA DeclareStep ==
  ASSUME IInv, NEW a \in Actor, Declare(a)
  PROVE  IInv'
<1> DEFINE n == Len(act[a].made) + 1
           record == [type |-> "secondary", parent |-> act[a].id, onDelete |-> "cascade",
                      branch |-> NoBranch, name |-> n, tmux |-> DeclaredTmux(a, n)]
           new == [act[a] EXCEPT !.pc = "materialize", !.made = Append(act[a].made, nextID)]
<1>1. Sound /\ Carries(act[a]) /\ act[a].id \in Int /\ act[a].id < nextID /\ nextID \in Int
  BY DEF IInv, Actors, Issued, Sound, Counted
<1>2. AddRecord(record) /\ Become(a, new)
  BY DEF Declare
<1>3. Sound' /\ Later /\ nextID' = nextID + 1
  <2>1. /\ Described \subseteq DOMAIN record /\ record.type = "secondary"
        /\ record.parent = act[a].id
    BY DEF Described
  <2> HIDE DEF record
  <2>2. QED
    BY <1>1, <1>2, <2>1, AddingIsSound
<1>4. /\ DOMAIN new = DOMAIN Idle /\ new.then = act[a].then /\ new.parent = act[a].parent
      /\ new.pc \notin Creating /\ new.snap = act[a].snap /\ new.plan = act[a].plan
      /\ new.id = act[a].id
  BY <1>1 DEF Carries, Idle, Creating
<1> HIDE DEF new
<1>5. Carries(new)
  BY <1>1, <1>4, AlikeCarries DEF Carries
<1>6. QED
  BY <1>1, <1>2, <1>3, <1>4, <1>5, Advances

(* A rollback takes records back.                                          *)
LEMMA UnwindRecordStep ==
  ASSUME IInv, NEW a \in Actor, UnwindRecord(a)
  PROVE  IInv'
<1> DEFINE left == Front(act[a].made)
           last == [act[a] EXCEPT !.made = left]
<1>1. Sound /\ Carries(act[a]) /\ act[a].id \in Int /\ act[a].id < nextID
  BY DEF IInv, Actors, Issued
<1>2. Sound' /\ Later /\ nextID' = nextID
  BY <1>1, DeletingIsSound DEF UnwindRecord, DeleteRecords
<1>3. PICK new : /\ Become(a, new)
                 /\ new \in {[last EXCEPT !.pc = "unwind"], [last EXCEPT !.pc = "undo"],
                             [last EXCEPT !.pc = "lock", !.force = TRUE, !.undo = TRUE]}
  BY DEF UnwindRecord
<1>4. /\ DOMAIN new = DOMAIN Idle /\ new.then = act[a].then /\ new.parent = act[a].parent
      /\ new.pc \notin Creating /\ new.snap = act[a].snap /\ new.plan = act[a].plan
      /\ new.id = act[a].id
  BY <1>1, <1>3 DEF Carries, Idle, Creating
<1>5. Carries(new)
  BY <1>1, <1>4, AlikeCarries DEF Carries
<1>6. QED
  BY <1>1, <1>2, <1>3, <1>4, <1>5, Advances

(* A creation takes back its record.                                       *)
LEMMA UndoRecordStep ==
  ASSUME IInv, NEW r \in Actor, UndoRecord(r)
  PROVE  IInv'
<1>1. Sound /\ Carries(act[r]) /\ act[r].id \in Int /\ act[r].id < nextID
  BY DEF IInv, Actors, Issued
<1>2. Sound' /\ Later /\ nextID' = nextID
  BY <1>1, DeletingIsSound DEF UndoRecord, DeleteRecords
<1>3. Become(r, [act[r] EXCEPT !.pc = "rollback"]) /\ "rollback" \notin Creating
  BY DEF UndoRecord, Goto, Creating
<1>4. QED
  BY <1>1, <1>2, <1>3, GotoCarries, Advances

(* A deletion begins with its reconcile.                                   *)
LEMMA DeleteLocksStep ==
  ASSUME IInv, NEW a \in Actor, DeleteLocks(a)
  PROVE  IInv'
<1> DEFINE new == [act[a] EXCEPT !.pc = "reconcile", !.then = "plan"]
<1>1. Carries(act[a]) /\ Issued(act[a].id) /\ Still /\ Become(a, new)
  BY DEF IInv, Actors, DeleteLocks, Still, records
<1>2. /\ DOMAIN new = DOMAIN Idle /\ new.then = "plan" /\ new.parent = act[a].parent
      /\ new.pc \notin Creating /\ new.snap = act[a].snap /\ new.plan = act[a].plan
      /\ new.id = act[a].id
  BY <1>1 DEF Carries, Idle, Creating
<1> HIDE DEF new
<1>3. Carries(new)
  BY <1>1, <1>2, AlikeCarries
<1>4. QED
  BY <1>1, <1>2, <1>3, MovesOn

(* The plan of a deletion is good when it is made.                         *)
LEMMA DeletePlanStep ==
  ASSUME IInv, NEW a \in Actor, DeletePlan(a)
  PROVE  IInv'
<1> DEFINE id == act[a].id
           type == IF id \in DOMAIN sessions THEN sessions[id].type ELSE "main"
           plan == CASE type = "worktree" -> PlanWorktreeRemoval(sessions, id)
                     [] type = "secondary" -> PlanSecondaryRemoval(sessions, id)
                     [] OTHER -> NoPlan
           branch == IF type = "worktree" THEN sessions[id].branch ELSE act[a].branch
           pc == IF type = "worktree" THEN "remove" ELSE "kill"
           new == [act[a] EXCEPT !.pc = pc, !.plan = plan,
                                 !.names = TmuxNames(sessions, plan.delete), !.branch = branch]
<1>1. Sound /\ Carries(act[a]) /\ Issued(act[a].id) /\ Still
  BY DEF IInv, Actors, DeletePlan, Still, records
<1>2. Executable(plan.reparent)
  <2>1. CASE type = "worktree"
    <3>1. id \in OfType(sessions, "worktree") /\ plan = PlanWorktreeRemoval(sessions, id)
      BY <2>1 DEF OfType
    <3>2. QED
      BY <1>1, <3>1, WorktreeRemovalExecutable
  <2>2. CASE type = "secondary"
    <3>1. id \in OfType(sessions, "secondary") /\ plan = PlanSecondaryRemoval(sessions, id)
      BY <2>2 DEF OfType
    <3>2. QED
      BY <1>1, <3>1, SecondaryRemovalExecutable
  <2>3. CASE type \notin {"worktree", "secondary"}
    <3>1. plan.reparent = <<>>
      BY <2>3 DEF NoPlan
    <3>2. QED
      BY <3>1 DEF Executable
  <2>4. QED
    BY <2>1, <2>2, <2>3
<1>3. Become(a, new) \/ EndRemoval(a)
  BY DEF DeletePlan
<1>4. ASSUME Become(a, new) PROVE IInv'
  <2> HIDE DEF plan
  <2>1. /\ DOMAIN new = DOMAIN Idle /\ new.then = act[a].then /\ new.parent = act[a].parent
        /\ new.pc \notin Creating /\ new.snap = act[a].snap /\ new.plan = plan
        /\ new.id = act[a].id
    BY <1>1 DEF Carries, Idle, Creating
  <2> HIDE DEF new
  <2>2. Carries(new)
    BY <1>1, <1>2, <2>1 DEF Carries
  <2>3. QED
    BY <1>1, <1>4, <2>1, <2>2, MovesOn
<1>5. QED
  BY <1>1, <1>3, <1>4, Ends

(* A deletion carries out its plan.                                        *)
LEMMA WriteStep ==
  ASSUME IInv, NEW a \in Actor, Write(a)
  PROVE  IInv'
<1>1. Sound /\ Executable(act[a].plan.reparent)
  BY DEF IInv, Actors, Carries
<1>2. nextID' = nextID /\ Sound' /\ Later
  BY <1>1, RewriteIsSound DEF Write
<1>3. QED
  BY <1>2, EndsAfterWriting DEF Write

(* A secondary is planned under the parent it was asked for.               *)
LEMMA NestStep ==
  ASSUME IInv, NEW r \in Actor, Nest(r)
  PROVE  IInv'
<1>1. Carries(act[r]) /\ Issued(act[r].id) /\ Still
  BY DEF IInv, Actors, Nest, Still, records
<1>2. ASSUME NEW branch, NEW names,
             Become(r, [act[r] EXCEPT !.pc = "nest-tmux", !.branch = branch, !.names = names])
      PROVE  IInv'
  <2> DEFINE new == [act[r] EXCEPT !.pc = "nest-tmux", !.branch = branch, !.names = names]
  <2>1. /\ DOMAIN new = DOMAIN Idle /\ new.then = act[r].then /\ new.parent = act[r].parent
        /\ new.pc \notin Creating /\ new.snap = act[r].snap /\ new.plan = act[r].plan
        /\ new.id = act[r].id
    BY <1>1 DEF Carries, Idle, Creating
  <2>2. Become(r, new)
    BY <1>2
  <2> HIDE DEF new
  <2>3. Carries(new)
    BY <1>1, <2>1, AlikeCarries DEF Carries
  <2>4. QED
    BY <1>1, <2>1, <2>2, <2>3, MovesOn
<1>3. CASE Become(r, Idle)
  BY <1>1, <1>3, GoesIdle
<1>4. QED
  BY <1>2, <1>3 DEF Nest

(* The parent of a secondary may be gone, or no worktree: it was issued.   *)
LEMMA NestRecordStep ==
  ASSUME IInv, NEW r \in Actor, NestRecord(r)
  PROVE  IInv'
<1>1. Sound /\ Carries(act[r]) /\ nextID \in Int
  BY DEF IInv, Actors, Sound, Counted
<1>2. PICK name \in act[r].names :
        AddRecord([type |-> "secondary", parent |-> act[r].parent, onDelete |-> act[r].onDelete,
                   branch |-> NoBranch, name |-> Last(name), tmux |-> name])
  BY DEF NestRecord
<1> DEFINE record == [type |-> "secondary", parent |-> act[r].parent,
                      onDelete |-> act[r].onDelete,
                      branch |-> NoBranch, name |-> Last(name), tmux |-> name]
<1>3. /\ Described \subseteq DOMAIN record /\ record.type = "secondary"
      /\ record.parent = act[r].parent /\ AddRecord(record)
  BY <1>2 DEF Described
<1>4. act[r].parent # NoParent => act[r].parent \in Int /\ act[r].parent < nextID
  BY <1>1 DEF Carries
<1> HIDE DEF record
<1>5. Sound' /\ Later /\ nextID' = nextID + 1
  BY <1>1, <1>3, <1>4, AddingIsSound
<1>6. Carries(Idle) /\ Idle.id \in Int /\ Idle.id < nextID'
  BY <1>1, <1>5, IdleCarries DEF Issued
<1>7. QED
  BY <1>5, <1>6, Advances DEF NestRecord

(* The plan of a Project deletion moves nothing.                           *)
LEMMA ProjectReadStep ==
  ASSUME IInv, NEW r \in Actor, ProjectRead(r)
  PROVE  IInv'
<1>1. Carries(act[r]) /\ Issued(act[r].id) /\ Still
  BY DEF IInv, Actors, ProjectRead, Still, records
<1>2. CASE Become(r, Idle)
  BY <1>1, <1>2, GoesIdle
<1>3. ASSUME NEW names,
             Become(r, [act[r] EXCEPT !.pc = "project-kill", !.names = names,
                                      !.plan = [NoPlan EXCEPT !.delete = DOMAIN sessions]])
      PROVE  IInv'
  <2> DEFINE all == [NoPlan EXCEPT !.delete = DOMAIN sessions]
             new == [act[r] EXCEPT !.pc = "project-kill", !.names = names, !.plan = all]
  <2>1. all.reparent = <<>>
    BY DEF NoPlan
  <2> HIDE DEF all
  <2>2. /\ DOMAIN new = DOMAIN Idle /\ new.then = act[r].then /\ new.parent = act[r].parent
        /\ new.pc \notin Creating /\ new.snap = act[r].snap /\ new.plan = all
        /\ new.id = act[r].id
    BY <1>1 DEF Carries, Idle, Creating
  <2>3. Become(r, new)
    BY <1>3 DEF all
  <2> HIDE DEF new
  <2>4. Carries(new)
    BY <1>1, <2>1, <2>2, AlikeCarries DEF Carries
  <2>5. QED
    BY <1>1, <2>2, <2>3, <2>4, MovesOn
<1>4. QED
  BY <1>2, <1>3 DEF ProjectRead

(* All the records go.                                                     *)
LEMMA ProjectWriteStep ==
  ASSUME IInv, NEW r \in Actor, ProjectWrite(r)
  PROVE  IInv'
<1>1. Sound /\ nextID' = nextID /\ Become(r, Idle)
  BY DEF IInv, ProjectWrite
<1>2. Sound' /\ Later
  BY <1>1, DeletingIsSound DEF ProjectWrite
<1>3. Carries(Idle) /\ Idle.id \in Int /\ Idle.id < nextID'
  BY <1>1, IdleCarries DEF Issued
<1>4. QED
  BY <1>1, <1>2, <1>3, Advances

------------------------------------------------------------------------------
(* What happens outside, and stuttering.                                   *)
LEMMA OutsideStep ==
  ASSUME IInv, Still, act' = act
  PROVE  IInv'
<1>1. Sound' /\ Later
  BY StillIsSound DEF IInv
<1>2. \A a \in Actor : Carries(act'[a]) /\ act'[a].id \in Int /\ act'[a].id < nextID'
  BY DEF IInv, Actors, Issued, Still
<1>3. QED
  BY <1>1, <1>2, KeepsActors DEF IInv, Actors

(* Every step keeps the inductive invariant.                               *)
LEMMA EveryStep == IInv /\ [Next]_vars => IInv'
<1> SUFFICES ASSUME IInv, [Next]_vars PROVE IInv'
  OBVIOUS
<1>1. Request \subseteq Actor /\ Worker \subseteq Actor
  BY DEF Actor
<1>2. CASE \E r \in Request : Starts(r)
  BY <1>2, StartsStep
<1>3. ASSUME NEW a \in Actor, Steps(a) PROVE IInv'
  BY <1>3, ReconcileReadStep, ReconcileStatStep, PruneWriteStep, PlainSteps, ReadStateStep,
     WriteRecordStep, StartHookStep, DeclareStep, UnwindRecordStep, UndoRecordStep,
     DeletePlanStep, WriteStep, NestStep, NestRecordStep, ProjectReadStep, ProjectWriteStep
     DEF Steps
<1>4. ASSUME NEW a \in Actor, Locks(a) PROVE IInv'
  BY <1>4, DeleteLocksStep, PlainSteps DEF Locks
<1>5. CASE \E w \in Worker : HookSucceeds(w) \/ HookFails(w)
  BY <1>1, <1>5, PlainSteps
<1>6. CASE (\E b \in Branch : DirectoryVanishes(b)) \/ (\E name \in tmux : TmuxExits(name))
  BY <1>6, OutsideStep DEF DirectoryVanishes, TmuxExits, Still, records
<1>7. CASE UNCHANGED vars
  BY <1>7, OutsideStep DEF vars, Still, records
<1>8. QED
  BY <1>2, <1>3, <1>4, <1>5, <1>6, <1>7 DEF Next

(* The inductive invariant, of every run of the Daemon.                    *)
THEOREM Inductive == Spec => []IInv
<1>1. Init => IInv
  BY InitSound
<1>2. IInv /\ [Next]_vars => IInv'
  BY EveryStep
<1>3. QED
  BY <1>1, <1>2, PTL DEF Spec

(* newTopologyIndex never refuses the records: no interleaving of          *)
(* creations, deletions, prunes and rollbacks, each carrying out what it   *)
(* read or planned earlier, makes a cycle or puts a worktree under a       *)
(* secondary.  A broken chain, for which PlanWorktreeRemoval refuses the   *)
(* session below it, it may leave.                                         *)
THEOREM TopologyAlwaysValid == Spec => []TopologyStaysValid
<1>1. IInv => TopologyStaysValid
  BY SoundIsValid DEF IInv
<1>2. QED
  BY <1>1, Inductive, PTL

------------------------------------------------------------------------------
(* A worktree or a tmux session the Daemon made belongs to a record that   *)
(* no actor is about to take away, or to an actor that is about to record  *)
(* it or to take it back.  What an actor is about to do rests on what it   *)
(* remembers of the records, which is another invariant.                   *)

(* Between its record and the end of its setup a creation speaks of one    *)
(* session; while it adds a worktree or waits for a hook it adopts none.   *)
Settling == {"hook", "running", "finalize", "materialize", "declare",
             "unwind", "unwind-record", "undo", "undo-record"}
Adding == {"add", "hook", "running", "finalize"}

(* Killing the tmux sessions of a plan, and what comes before it.          *)
Killing == {"prune-kill", "remove", "kill", "project-kill"}

(* A creation that has declared no secondary yet.                          *)
Beginning(state) ==
  \/ state.pc \in {"read", "reserve", "check", "add", "tmux", "record"}
  \/ state.then = "read" /\ state.pc \in {"reconcile", "stat", "prune-kill", "prune-write"}

(* What an actor remembers of records s, with ids below next.              *)
KnowsPlan(s, next, state) ==
  /\ \A i \in state.plan.delete : i \in Int /\ i < next
  /\ state.pc \in Killing =>
       \A i \in state.plan.delete \cap DOMAIN s : s[i].tmux \in state.names
  /\ state.pc = "remove" =>
       \A i \in state.plan.delete \cap OfType(s, "worktree") : s[i].branch = state.branch

KnowsSession(s, state) ==
  /\ state.pc \in Adding => state.mode # "adopt"
  /\ state.pc \in Settling /\ state.id \in DOMAIN s =>
       s[state.id].branch = state.branch /\ s[state.id].tmux = <<state.branch>>

KnowsMade(s, next, state) ==
  /\ state.made \in Seq(Int)
  /\ \A n \in 1 .. Len(state.made) :
       /\ state.made[n] < next
       /\ state.made[n] \in DOMAIN s =>
            /\ s[state.made[n]].type = "secondary"
            /\ state.pc \in Settling => s[state.made[n]].tmux = <<state.branch, n>>
  /\ Beginning(state) => state.made = <<>>
  /\ state.pc \in {"unwind", "unwind-record"} => state.made # <<>>

KnowsNested(state) ==
  state.pc \in {"nest-tmux", "nest-record"} => \E n \in state.names : state.names = {n}

Knows(s, next, state) ==
  /\ KnowsPlan(s, next, state) /\ KnowsSession(s, state)
  /\ KnowsMade(s, next, state) /\ KnowsNested(state)
Knowing == \A a \in Actor : Knows(sessions, nextID, act[a])

(* The record of worktree i may go with the worktree left there.           *)
Condemns(state, i) ==
  \/ state.pc \in {"prune-kill", "prune-write", "kill", "write"} /\ i \in state.plan.delete
  \/ /\ state.pc \in {"materialize", "declare", "unwind", "unwind-record", "undo", "undo-record"}
     /\ state.mode = "adopt" /\ i = state.id
Making(state, b) ==
  state.pc \in {"tmux", "record", "rollback"} /\ state.mode # "adopt" /\ state.branch = b

Kept(s, acts, b) ==
  \/ \E i \in OfType(s, "worktree") : s[i].branch = b /\ \A a \in Actor : ~ Condemns(acts[a], i)
  \/ \E a \in Actor : Making(acts[a], b)
Owned == project => \A b \in OwnWorktrees : Kept(sessions, act, b)

(* The next step of the actor deletes record i.                            *)
Forgets(state, i) ==
  \/ state.pc \in {"prune-write", "write", "project-write"} /\ i \in state.plan.delete
  \/ state.pc = "undo-record" /\ i = state.id
  \/ state.pc = "unwind-record" /\ i = Last(state.made)
Bears(state, n) ==
  \/ state.pc = "record" /\ n = <<state.branch>>
  \/ state.pc = "declare" /\ n = <<state.branch, Len(state.made) + 1>>
  \/ state.pc = "nest-record" /\ n \in state.names

Known(s, acts, n) ==
  \/ \E i \in DOMAIN s : s[i].tmux = n /\ \A a \in Actor : ~ Forgets(acts[a], i)
  \/ \E a \in Actor : Bears(acts[a], n)
Named == \A n \in tmux : Known(sessions, act, n)

------------------------------------------------------------------------------
(* Every step leaves the records recognisable.                             *)

(* A record is added under an id that no record has had.                   *)
LEMMA AddingRecord ==
  ASSUME Sound, NEW record, AddRecord(record)
  PROVE  /\ nextID' = nextID + 1 /\ nextID \in Int
         /\ DOMAIN sessions' = DOMAIN sessions \cup {nextID} /\ nextID \notin DOMAIN sessions
         /\ sessions'[nextID] = record /\ \A i \in DOMAIN sessions : sessions'[i] = sessions[i]
         /\ Later
<1>1. /\ nextID' = nextID + 1 /\ nextID \in Int
      /\ DOMAIN sessions' = DOMAIN sessions \cup {nextID} /\ sessions'[nextID] = record
  BY DEF AddRecord, Sound, Counted
<1>2. nextID \notin DOMAIN sessions
  BY DEF Sound, Counted, Aged
<1>3. \A i \in DOMAIN sessions : sessions'[i] = sessions[i]
  BY <1>2 DEF AddRecord
<1>4. QED
  BY <1>1, <1>2, <1>3 DEF Later, Same

(* No step changes more of a record than its parent.                       *)
LEMMA StepsAge ==
  ASSUME IInv, NEW a \in Actor, Steps(a)
  PROVE  Later
<1>1. Sound /\ Executable(act[a].plan.reparent)
  BY DEF IInv, Actors, Carries
<1>2. CASE PruneWrite(a) \/ Write(a)
  BY <1>1, <1>2, RewriteIsSound DEF PruneWrite, Write
<1>3. CASE UnwindRecord(a) \/ UndoRecord(a) \/ ProjectWrite(a)
  BY <1>1, <1>3, DeletingIsSound DEF UnwindRecord, UndoRecord, ProjectWrite, DeleteRecords
<1>4. CASE WriteRecord(a) \/ Declare(a) \/ NestRecord(a)
  BY <1>1, <1>4, AddingRecord DEF WriteRecord, Declare, NestRecord
<1>5. CASE ~ (\/ PruneWrite(a) \/ Write(a) \/ UnwindRecord(a) \/ UndoRecord(a)
              \/ ProjectWrite(a) \/ WriteRecord(a) \/ Declare(a) \/ NestRecord(a))
  <2>1. Still
    BY <1>5 DEF Steps, Still, records, ReconcileRead, ReconcileStat, PruneKill, ReadState,
           Reserve, CheckGit, AddWorktree, CreateTmux, Rollback, StartHook, Materialize, Unwind,
           Undo, DeletePlan, RemoveWorktree, Kill, DeleteBranch, Nest, NestTmux, ProjectRead,
           ProjectKill
  <2>2. QED
    BY <1>1, <2>1, StillIsSound
<1>6. QED
  BY <1>2, <1>3, <1>4, <1>5

(* What an actor knows of the records stays true.                          *)
LEMMA KnowsStays ==
  ASSUME Sound, Later, NEW state, Issued(state.id), Knows(sessions, nextID, state)
  PROVE  Knows(sessions', nextID', state)
<1>1. nextID \in Int /\ nextID' \in Int /\ nextID <= nextID'
  BY DEF Later, Sound, Counted
<1>2. \A i \in DOMAIN sessions' :
        i \in Int /\ i < nextID => i \in DOMAIN sessions /\ Same(sessions[i], sessions'[i])
  BY <1>1 DEF Later
<1>3. KnowsPlan(sessions', nextID', state)
  <2>1. \A i \in state.plan.delete : i \in Int /\ i < nextID
    BY DEF Knows, KnowsPlan
  <2>2. \A i \in state.plan.delete \cap DOMAIN sessions' :
          i \in DOMAIN sessions /\ Same(sessions[i], sessions'[i])
    BY <1>2, <2>1
  <2>3. QED
    BY <1>1, <2>1, <2>2 DEF Knows, KnowsPlan, Same, OfType
<1>4. KnowsSession(sessions', state)
  BY <1>2 DEF Knows, KnowsSession, Issued, Same
<1>5. KnowsMade(sessions', nextID', state)
  <2>1. \A n \in 1 .. Len(state.made) : state.made[n] \in Int /\ state.made[n] < nextID
    BY DEF Knows, KnowsMade
  <2>2. ASSUME NEW n \in 1 .. Len(state.made), state.made[n] \in DOMAIN sessions'
        PROVE  /\ state.made[n] \in DOMAIN sessions
               /\ Same(sessions[state.made[n]], sessions'[state.made[n]])
    BY <1>2, <2>1, <2>2
  <2>3. ASSUME NEW n \in 1 .. Len(state.made)
        PROVE  /\ state.made[n] < nextID'
               /\ state.made[n] \in DOMAIN sessions' =>
                    /\ sessions'[state.made[n]].type = "secondary"
                    /\ state.pc \in Settling => sessions'[state.made[n]].tmux = <<state.branch, n>>
    BY <1>1, <2>1, <2>2 DEF Knows, KnowsMade, Same
  <2>4. QED
    BY <2>3 DEF Knows, KnowsMade
<1>6. QED
  BY <1>3, <1>4, <1>5 DEF Knows

(* One actor moves on.                                                     *)
LEMMA LearnsAnew ==
  ASSUME IInv, Knowing, Later, NEW a \in Actor, NEW state, Become(a, state),
         Knows(sessions', nextID', state)
  PROVE  Knowing'
<1>1. \A b \in Actor : act'[b] = IF b = a THEN state ELSE act[b]
  BY DEF IInv, Actors, Become
<1>2. ASSUME NEW b \in Actor PROVE Knows(sessions', nextID', act[b])
  BY KnowsStays DEF IInv, Actors, Knowing
<1>3. ASSUME NEW b \in Actor PROVE Knows(sessions', nextID', act'[b])
  BY <1>1, <1>2
<1>4. QED
  BY <1>3 DEF Knowing

(* One actor moves and knows what it must.                                 *)
LEMMA Learns ==
  ASSUME IInv, Knowing, Later, NEW a \in Actor, NEW state, Become(a, state),
         Knows(sessions, nextID, state), Issued(state.id)
  PROVE  Knowing'
<1>1. Knows(sessions', nextID', state)
  BY KnowsStays DEF IInv
<1>2. QED
  BY <1>1, LearnsAnew

------------------------------------------------------------------------------
(* What is known in the states an actor passes through.                    *)

Plain(pc) == pc \notin Killing \cup Adding \cup Settling \cup {"nest-tmux", "nest-record"}

(* An actor that is idle knows nothing.                                    *)
LEMMA IdleKnows == Knows(sessions, nextID, Idle)
<1>1. /\ Idle.pc = "idle" /\ Idle.then = "idle" /\ Idle.made = <<>> /\ Idle.plan.delete = {}
  BY DEF Idle, NoPlan
<1>2. QED
  BY <1>1 DEF Knows, KnowsPlan, KnowsSession, KnowsMade, KnowsNested, Killing, Adding, Settling,
              Beginning

(* Away from the places where something particular is known.               *)
LEMMA PlainKnows ==
  ASSUME NEW state, Knows(sessions, nextID, state), NEW new, new.made = state.made,
         new.plan.delete \in {state.plan.delete, {}}, Plain(new.pc),
         Beginning(new) => Beginning(state)
  PROVE  Knows(sessions, nextID, new)
<1>1. /\ new.pc \notin Killing /\ new.pc # "remove" /\ new.pc \notin Adding
      /\ new.pc \notin Settling /\ new.pc \notin {"unwind", "unwind-record"}
      /\ new.pc \notin {"nest-tmux", "nest-record"}
  BY DEF Plain, Killing, Settling
<1>2. KnowsPlan(sessions, nextID, new)
  BY <1>1 DEF Knows, KnowsPlan
<1>3. KnowsMade(sessions, nextID, new)
  BY <1>1 DEF Knows, KnowsMade
<1>4. QED
  BY <1>1, <1>2, <1>3 DEF Knows, KnowsSession, KnowsNested

(* Within a setup, or within the rollback of one.                          *)
LEMMA SettlingKnows ==
  ASSUME NEW state, Knows(sessions, nextID, state), state.pc \in Settling,
         NEW new, new.pc \in Settling, new.made = state.made,
         new.plan.delete \in {state.plan.delete, {}},
         new.id = state.id, new.branch = state.branch, new.mode = state.mode,
         new.pc \in Adding => state.pc \in Adding,
         new.pc \in {"unwind", "unwind-record"} => new.made # <<>>
  PROVE  Knows(sessions, nextID, new)
<1>1. /\ new.pc \notin Killing /\ new.pc # "remove" /\ ~ Beginning(new)
      /\ new.pc \notin {"nest-tmux", "nest-record"}
  BY DEF Killing, Settling, Beginning
<1>2. KnowsPlan(sessions, nextID, new)
  BY <1>1 DEF Knows, KnowsPlan
<1>3. KnowsMade(sessions, nextID, new)
  BY <1>1 DEF Knows, KnowsMade
<1>4. KnowsSession(sessions, new)
  BY DEF Knows, KnowsSession
<1>5. QED
  BY <1>1, <1>2, <1>3, <1>4 DEF Knows, KnowsNested

(* The steps that do no more than go somewhere plain, or end.              *)
LEMMA LearnsGoing ==
  ASSUME IInv, Knowing, Later, NEW a \in Actor, NEW pc, Goto(a, pc), Plain(pc),
         Beginning([act[a] EXCEPT !.pc = pc]) => Beginning(act[a])
  PROVE  Knowing'
<1> DEFINE new == [act[a] EXCEPT !.pc = pc]
<1>1. Carries(act[a]) /\ Issued(act[a].id) /\ Knows(sessions, nextID, act[a])
  BY DEF IInv, Actors, Knowing
<1>2. new.made = act[a].made /\ new.plan = act[a].plan /\ new.pc = pc /\ new.id = act[a].id
  BY <1>1 DEF Carries, Idle
<1>3. Become(a, new)
  BY DEF Goto
<1> HIDE DEF new
<1>4. Beginning(new) => Beginning(act[a])
  BY DEF new
<1>5. Knows(sessions, nextID, new)
  BY <1>1, <1>2, <1>4, PlainKnows
<1>6. QED
  BY <1>1, <1>2, <1>3, <1>5, Learns

(* One actor ends.                                                         *)
LEMMA LearnsIdle ==
  ASSUME IInv, Knowing, Later, NEW a \in Actor, Become(a, Idle)
  PROVE  Knowing'
<1>1. Issued(Idle.id)
  BY IdleCarries DEF IInv
<1>2. QED
  BY <1>1, IdleKnows, Learns

(* One actor drops its plan and moves on.                                  *)
LEMMA LearnsForgetting ==
  ASSUME IInv, Knowing, Later, NEW a \in Actor, NEW pc,
         Become(a, [Forget(a) EXCEPT !.pc = pc]), Plain(pc),
         Beginning([Forget(a) EXCEPT !.pc = pc]) => Beginning(act[a])
  PROVE  Knowing'
<1> DEFINE new == [Forget(a) EXCEPT !.pc = pc]
<1>1. Carries(act[a]) /\ Issued(act[a].id) /\ Knows(sessions, nextID, act[a])
  BY DEF IInv, Actors, Knowing
<1>2. new.made = act[a].made /\ new.plan = NoPlan /\ new.pc = pc /\ new.id = act[a].id
  BY <1>1 DEF Carries, Idle, Forget
<1>3. NoPlan.delete = {}
  BY DEF NoPlan
<1> HIDE DEF new
<1>4. Beginning(new) => Beginning(act[a])
  BY DEF new
<1>5. Knows(sessions, nextID, new)
  BY <1>1, <1>2, <1>3, <1>4, PlainKnows
<1>6. QED
  BY <1>1, <1>2, <1>5, Learns DEF new

(* One actor turns to the cleanup.                                         *)
LEMMA LearnsCleaning ==
  ASSUME IInv, Knowing, Later, NEW a \in Actor, CleanUp(a)
  PROVE  Knowing'
<1> DEFINE new == [act[a] EXCEPT !.pc = "lock", !.force = TRUE, !.undo = TRUE]
<1>1. Carries(act[a]) /\ Issued(act[a].id) /\ Knows(sessions, nextID, act[a])
  BY DEF IInv, Actors, Knowing
<1>2. new.made = act[a].made /\ new.plan = act[a].plan /\ new.pc = "lock" /\ new.id = act[a].id
  BY <1>1 DEF Carries, Idle
<1>3. Become(a, new)
  BY DEF CleanUp
<1> HIDE DEF new
<1>4. Knows(sessions, nextID, new)
  BY <1>1, <1>2, PlainKnows DEF Plain, Killing, Adding, Settling, Beginning
<1>5. QED
  BY <1>1, <1>2, <1>3, <1>4, Learns

(* One actor ends a deletion.                                              *)
LEMMA LearnsEnding ==
  ASSUME IInv, Knowing, Later, NEW a \in Actor, EndRemoval(a)
  PROVE  Knowing'
<1>1. Plain("branch")
  BY DEF Plain, Killing, Adding, Settling
<1>2. ~ Beginning([Forget(a) EXCEPT !.pc = "branch"])
  <2>1. [Forget(a) EXCEPT !.pc = "branch"].pc = "branch"
    BY DEF IInv, Actors, Carries, Idle, Forget
  <2>2. QED
    BY <2>1 DEF Beginning
<1>3. QED
  BY <1>1, <1>2, LearnsForgetting, LearnsIdle DEF EndRemoval

(* A setup goes on.                                                        *)
LEMMA LearnsSettling ==
  ASSUME IInv, Knowing, Later, NEW a \in Actor, NEW pc, Goto(a, pc),
         pc \in Settling, act[a].pc \in Settling, pc \in Adding => act[a].pc \in Adding,
         pc \in {"unwind", "unwind-record"} => act[a].made # <<>>
  PROVE  Knowing'
<1> DEFINE new == [act[a] EXCEPT !.pc = pc]
<1>1. Carries(act[a]) /\ Issued(act[a].id) /\ Knows(sessions, nextID, act[a])
  BY DEF IInv, Actors, Knowing
<1>2. /\ new.made = act[a].made /\ new.plan = act[a].plan /\ new.pc = pc /\ new.id = act[a].id
      /\ new.branch = act[a].branch /\ new.mode = act[a].mode
  BY <1>1 DEF Carries, Idle
<1>3. Become(a, new)
  BY DEF Goto
<1> HIDE DEF new
<1>4. Knows(sessions, nextID, new)
  BY <1>1, <1>2, SettlingKnows
<1>5. QED
  BY <1>1, <1>2, <1>3, <1>4, Learns

------------------------------------------------------------------------------
(* What the three plans delete.                                            *)

(* What goes with a session is secondary.                                  *)
LEMMA DescendantsAreSecondary ==
  ASSUME NEW s, NEW id
  PROVE  SecondaryDescendants(s, id) \subseteq OfType(s, "secondary")
<1> DEFINE C == OfType(s, "secondary")
<1>1. C \in SUBSET DOMAIN s
  BY DEF OfType
<1>2. DownClosed(s, id, C)
  BY DEF DownClosed
<1>3. QED
  BY <1>1, <1>2 DEF SecondaryDescendants

(* Deleting a worktree deletes no other worktree.                          *)
LEMMA WorktreeRemovalDeletes ==
  ASSUME NEW s, NEW id
  PROVE  LET plan == PlanWorktreeRemoval(s, id)
         IN  plan.delete \subseteq DOMAIN s /\ plan.delete \cap OfType(s, "worktree") \subseteq {id}
<1>1. SecondaryDescendants(s, id) \subseteq OfType(s, "secondary")
  BY DescendantsAreSecondary
<1>2. PlanWorktreeRemoval(s, id).delete = {} \/
        /\ PlanWorktreeRemoval(s, id).delete = SecondaryDescendants(s, id) \cup {id}
        /\ id \in OfType(s, "worktree")
  BY DEF PlanWorktreeRemoval, NoPlan
<1>3. QED
  BY <1>1, <1>2 DEF OfType

(* Deleting a secondary deletes no worktree.                               *)
LEMMA SecondaryRemovalDeletes ==
  ASSUME NEW s, NEW id
  PROVE  PlanSecondaryRemoval(s, id).delete \subseteq OfType(s, "secondary")
<1>1. SecondaryDescendants(s, id) \subseteq OfType(s, "secondary")
  BY DescendantsAreSecondary
<1>2. PlanSecondaryRemoval(s, id).delete = {} \/
        /\ PlanSecondaryRemoval(s, id).delete \in {{id}, SecondaryDescendants(s, id) \cup {id}}
        /\ id \in OfType(s, "secondary")
  BY DEF PlanSecondaryRemoval, NoPlan
<1>3. QED
  BY <1>1, <1>2

(* A prune deletes no worktree but the missing ones.                       *)
LEMMA PruneDeletes ==
  ASSUME NEW s, NEW pruned
  PROVE  LET plan == PlanWorktreePrune(s, pruned)
         IN  plan.delete \subseteq DOMAIN s /\ plan.delete \cap OfType(s, "worktree") \subseteq pruned
<1>1. \A id \in pruned : SecondaryDescendants(s, id) \subseteq OfType(s, "secondary")
  BY DescendantsAreSecondary
<1>2. UNION {SecondaryDescendants(s, id) : id \in pruned} \subseteq OfType(s, "secondary")
  BY <1>1
<1>3. PlanWorktreePrune(s, pruned).delete = {} \/
        /\ PlanWorktreePrune(s, pruned).delete
             = pruned \cup UNION {SecondaryDescendants(s, id) : id \in pruned}
        /\ pruned \subseteq OfType(s, "worktree")
  BY DEF PlanWorktreePrune, NoPlan
<1>4. QED
  BY <1>2, <1>3 DEF OfType

------------------------------------------------------------------------------
(* The steps that learn something, or keep what has to be kept.            *)

(* A request begins without any knowledge.                                 *)
LEMMA LearnsStart ==
  ASSUME IInv, Knowing, NEW r \in Request, Starts(r)
  PROVE  Knowing'
<1>1. r \in Actor /\ Sound
  BY DEF Actor, IInv
<1>2. Still
  BY DEF Starts, StartWorktree, StartSecondary, StartDelete, StartDeleteProject, Still, records
<1>3. Later
  BY <1>1, <1>2, StillIsSound
<1>4. ASSUME NEW new, Become(r, new), new.plan.delete = {}, new.made = <<>>,
             Plain(new.pc), Issued(new.id)
      PROVE  Knowing'
  <2>1. Knows(sessions, nextID, new)
    BY <1>4 DEF Knows, KnowsPlan, KnowsSession, KnowsMade, KnowsNested, Plain, Killing, Adding,
                Settling
  <2>2. QED
    BY <1>1, <1>3, <1>4, <2>1, Learns
<1>5. Issued(0) /\ \A i \in DOMAIN sessions : Issued(i)
  BY <1>1 DEF Issued, Sound, Counted, MainID, Aged
<1>6. Plain("reconcile") /\ Plain("nest") /\ Plain("lock") /\ Plain("project")
  BY DEF Plain, Killing, Adding, Settling
<1>7. ASSUME NEW b \in Branch, NEW mode \in Mode, NEW source \in DOMAIN sessions \cup {NoParent},
             StartWorktree(r, b, mode, source)
      PROVE  Knowing'
  <2> DEFINE new == [Idle EXCEPT !.pc = "reconcile", !.then = "read", !.branch = b,
                                 !.mode = mode, !.parent = source]
  <2>1. /\ new.plan.delete = {} /\ new.made = <<>> /\ new.pc = "reconcile" /\ new.id = 0
        /\ Become(r, new)
    BY <1>7 DEF Idle, NoPlan, StartWorktree
  <2> HIDE DEF new
  <2>2. QED
    BY <1>4, <1>5, <1>6, <2>1
<1>8. ASSUME NEW parent \in DOMAIN sessions, NEW onDelete \in OnDelete,
             StartSecondary(r, parent, onDelete)
      PROVE  Knowing'
  <2> DEFINE new == [Idle EXCEPT !.pc = "nest", !.parent = parent, !.onDelete = onDelete]
  <2>1. /\ new.plan.delete = {} /\ new.made = <<>> /\ new.pc = "nest" /\ new.id = 0
        /\ Become(r, new)
    BY <1>8 DEF Idle, NoPlan, StartSecondary
  <2> HIDE DEF new
  <2>2. QED
    BY <1>4, <1>5, <1>6, <2>1
<1>9. ASSUME NEW id \in DOMAIN sessions, NEW force \in BOOLEAN, StartDelete(r, id, force)
      PROVE  Knowing'
  <2> DEFINE new == [Idle EXCEPT !.pc = "lock", !.id = id, !.force = force]
  <2>1. /\ new.plan.delete = {} /\ new.made = <<>> /\ new.pc = "lock" /\ new.id = id
        /\ Become(r, new)
    BY <1>9 DEF Idle, NoPlan, StartDelete
  <2> HIDE DEF new
  <2>2. QED
    BY <1>4, <1>5, <1>6, <2>1
<1>10. ASSUME StartDeleteProject(r) PROVE Knowing'
  <2>1. Goto(r, "project") /\ ~ Beginning([act[r] EXCEPT !.pc = "project"])
    <3>1. [act[r] EXCEPT !.pc = "project"].pc = "project"
      BY <1>1 DEF IInv, Actors, Carries, Idle
    <3>2. QED
      BY <1>10, <3>1 DEF Beginning, StartDeleteProject
  <2>2. QED
    BY <1>1, <1>3, <1>6, <2>1, LearnsGoing
<1>11. QED
  BY <1>7, <1>8, <1>9, <1>10 DEF Starts

(* A snapshot is taken.                                                    *)
LEMMA LearnsReconcileRead ==
  ASSUME IInv, Knowing, Later, NEW a \in Actor, ReconcileRead(a)
  PROVE  Knowing'
<1> DEFINE new == [act[a] EXCEPT !.pc = "stat", !.snap = sessions]
<1>1. Carries(act[a]) /\ Issued(act[a].id) /\ Knows(sessions, nextID, act[a])
  BY DEF IInv, Actors, Knowing
<1>2. /\ new.made = act[a].made /\ new.plan = act[a].plan /\ new.pc = "stat" /\ new.id = act[a].id
      /\ new.then = act[a].then
  BY <1>1 DEF Carries, Idle
<1>3. Become(a, new) /\ act[a].pc = "reconcile"
  BY DEF ReconcileRead, At
<1> HIDE DEF new
<1>4. Knows(sessions, nextID, new)
  BY <1>1, <1>2, <1>3, PlainKnows DEF Plain, Killing, Adding, Settling, Beginning
<1>5. QED
  BY <1>1, <1>2, <1>3, <1>4, Learns

(* After the reconcile comes the planning or the creation.                 *)
LEMMA LearnsThen ==
  ASSUME IInv, Knowing, Later, NEW a \in Actor, act[a].pc \in {"stat", "prune-write"},
         Become(a, [Forget(a) EXCEPT !.pc = act[a].then])
  PROVE  Knowing'
<1> DEFINE new == [Forget(a) EXCEPT !.pc = act[a].then]
<1>1. act[a].then \in {"idle", "read", "plan"}
  BY DEF IInv, Actors, Carries
<1>2. new.pc = act[a].then /\ new.then = act[a].then
  BY DEF IInv, Actors, Carries, Idle, Forget
<1>3. Plain(act[a].then)
  BY <1>1 DEF Plain, Killing, Adding, Settling
<1> HIDE DEF new
<1>4. Beginning(new) => Beginning(act[a])
  BY <1>1, <1>2 DEF Beginning
<1>5. QED
  BY <1>3, <1>4, LearnsForgetting DEF new

(* A prune knows the names of what it deletes.                             *)
LEMMA LearnsPrune ==
  ASSUME IInv, Knowing, Later, NEW a \in Actor, ReconcileStat(a)
  PROVE  Knowing'
<1> DEFINE snap == act[a].snap
           plan == PlanWorktreePrune(snap, MissingIn(snap))
           new == [Forget(a) EXCEPT !.pc = "prune-kill", !.plan = plan,
                                    !.names = TmuxNames(snap, plan.delete)]
<1>1. /\ Carries(act[a]) /\ Issued(act[a].id) /\ Knows(sessions, nextID, act[a])
      /\ act[a].pc = "stat"
  BY DEF IInv, Actors, Knowing, ReconcileStat, At
<1>2. CASE Become(a, [Forget(a) EXCEPT !.pc = act[a].then])
  BY <1>1, <1>2, LearnsThen
<1>3. CASE EndRemoval(a)
  BY <1>3, LearnsEnding
<1>4. CASE Become(a, new)
  <2>1. plan.delete \subseteq DOMAIN snap
    BY PruneDeletes
  <2> HIDE DEF plan
  <2>2. /\ new.made = act[a].made /\ new.plan = plan /\ new.pc = "prune-kill"
        /\ new.id = act[a].id /\ new.then = act[a].then
        /\ new.names = TmuxNames(snap, plan.delete)
    BY <1>1 DEF Carries, Idle, Forget
  <2> HIDE DEF new
  <2>3. \A i \in plan.delete : i \in Int /\ i < nextID
    BY <1>1, <2>1 DEF Carries, Remembered, Aged
  <2>4. \A i \in plan.delete \cap DOMAIN sessions : sessions[i].tmux \in new.names
    BY <1>1, <2>1, <2>2 DEF Carries, Remembered, Same, TmuxNames
  <2>5. KnowsPlan(sessions, nextID, new)
    BY <2>2, <2>3, <2>4 DEF KnowsPlan
  <2>6. KnowsMade(sessions, nextID, new)
    BY <1>1, <2>2 DEF Knows, KnowsMade, Beginning, Settling
  <2>7. Knows(sessions, nextID, new)
    BY <2>2, <2>5, <2>6 DEF Knows, KnowsSession, KnowsNested, Adding, Settling
  <2>8. QED
    BY <1>1, <1>4, <2>2, <2>7, Learns
<1>5. QED
  BY <1>2, <1>3, <1>4 DEF ReconcileStat

(* A creation records its session: nothing is declared yet.                *)
LEMMA LearnsRecord ==
  ASSUME IInv, Knowing, NEW r \in Actor, WriteRecord(r)
  PROVE  Knowing'
<1> DEFINE record == [type |-> "worktree", parent |-> act[r].parent, onDelete |-> "cascade",
                      branch |-> act[r].branch, name |-> 1, tmux |-> <<act[r].branch>>]
           pc == IF act[r].mode = "adopt" THEN "materialize" ELSE "hook"
           new == [act[r] EXCEPT !.id = nextID, !.pc = pc]
<1>1. /\ Carries(act[r]) /\ Knows(sessions, nextID, act[r]) /\ Sound
      /\ act[r].pc = "record" /\ AddRecord(record) /\ Become(r, new)
  BY DEF IInv, Actors, Knowing, WriteRecord, At
<1>2. record.branch = act[r].branch /\ record.tmux = <<act[r].branch>>
  OBVIOUS
<1> HIDE DEF record
<1>3. /\ Later /\ nextID' = nextID + 1 /\ nextID \in Int
      /\ sessions'[nextID].branch = act[r].branch /\ sessions'[nextID].tmux = <<act[r].branch>>
  BY <1>1, <1>2, AddingRecord
<1>4. act[r].made = <<>>
  BY <1>1 DEF Knows, KnowsMade, Beginning
<1>5. /\ new.made = <<>> /\ new.plan = act[r].plan /\ new.pc = pc /\ new.id = nextID
      /\ new.branch = act[r].branch /\ new.mode = act[r].mode
  BY <1>1, <1>4 DEF Carries, Idle
<1> HIDE DEF new
<1>6. /\ new.pc \notin Killing /\ new.pc # "remove" /\ ~ Beginning(new)
      /\ new.pc \notin {"nest-tmux", "nest-record"} /\ new.pc \notin {"unwind", "unwind-record"}
  BY <1>5 DEF Killing, Beginning
<1>7. KnowsPlan(sessions', nextID', new)
  BY <1>1, <1>3, <1>5, <1>6 DEF Knows, KnowsPlan
<1>8. KnowsSession(sessions', new)
  BY <1>3, <1>5 DEF KnowsSession, Adding
<1>9. KnowsMade(sessions', nextID', new)
  BY <1>5, <1>6 DEF KnowsMade
<1>10. Knows(sessions', nextID', new)
  BY <1>6, <1>7, <1>8, <1>9 DEF Knows, KnowsNested
<1>11. QED
  BY <1>1, <1>3, <1>10, LearnsAnew

(* One more declared secondary.                                            *)
LEMMA LearnsDeclare ==
  ASSUME IInv, Knowing, NEW a \in Actor, Declare(a)
  PROVE  Knowing'
<1> DEFINE made == act[a].made
           n == Len(made) + 1
           record == [type |-> "secondary", parent |-> act[a].id, onDelete |-> "cascade",
                      branch |-> NoBranch, name |-> n, tmux |-> DeclaredTmux(a, n)]
           more == Append(made, nextID)
           new == [act[a] EXCEPT !.pc = "materialize", !.made = more]
<1>1. /\ Carries(act[a]) /\ Issued(act[a].id) /\ Knows(sessions, nextID, act[a]) /\ Sound
      /\ act[a].pc = "declare" /\ AddRecord(record) /\ Become(a, new)
  BY DEF IInv, Actors, Knowing, Declare, At
<1>2. record.type = "secondary" /\ record.tmux = <<act[a].branch, n>>
  BY DEF DeclaredTmux
<1> HIDE DEF record
<1>3. /\ Later /\ nextID' = nextID + 1 /\ nextID \in Int
      /\ sessions'[nextID].type = "secondary" /\ sessions'[nextID].tmux = <<act[a].branch, n>>
  BY <1>1, <1>2, AddingRecord
<1>4. Knows(sessions', nextID', act[a])
  BY <1>1, <1>3, KnowsStays
<1>5. /\ new.made = more /\ new.plan = act[a].plan /\ new.pc = "materialize" /\ new.id = act[a].id
      /\ new.branch = act[a].branch /\ new.mode = act[a].mode
  BY <1>1 DEF Carries, Idle
<1> HIDE DEF new
<1>6. /\ new.pc \notin Killing /\ new.pc # "remove" /\ ~ Beginning(new) /\ new.pc \notin Adding
      /\ new.pc \notin {"nest-tmux", "nest-record"} /\ new.pc \notin {"unwind", "unwind-record"}
      /\ "declare" \in Settling
  BY <1>5 DEF Killing, Beginning, Adding, Settling
<1>7. KnowsPlan(sessions', nextID', new)
  BY <1>4, <1>5, <1>6 DEF Knows, KnowsPlan
<1>8. KnowsSession(sessions', new)
  BY <1>1, <1>4, <1>5, <1>6 DEF Knows, KnowsSession
<1>9. KnowsMade(sessions', nextID', new)
  <2>1. /\ made \in Seq(Int)
        /\ \A m \in 1 .. Len(made) :
             /\ made[m] < nextID'
             /\ made[m] \in DOMAIN sessions' =>
                  /\ sessions'[made[m]].type = "secondary"
                  /\ sessions'[made[m]].tmux = <<act[a].branch, m>>
    BY <1>1, <1>4, <1>6 DEF Knows, KnowsMade
  <2> HIDE DEF made
  <2>2. /\ more \in Seq(Int) /\ Len(more) = Len(made) + 1 /\ more[n] = nextID
        /\ \A m \in 1 .. Len(made) : more[m] = made[m]
    BY <1>3, <2>1
  <2> HIDE DEF more
  <2>3. ASSUME NEW m \in 1 .. Len(more)
        PROVE  /\ more[m] < nextID'
               /\ more[m] \in DOMAIN sessions' =>
                    /\ sessions'[more[m]].type = "secondary"
                    /\ sessions'[more[m]].tmux = <<act[a].branch, m>>
    <3>1. CASE m \in 1 .. Len(made)
      BY <2>1, <2>2, <3>1
    <3>2. CASE m = n
      BY <1>3, <2>2, <3>2
    <3>3. QED
      BY <2>1, <2>2, <3>1, <3>2
  <2>4. QED
    BY <1>5, <1>6, <2>2, <2>3 DEF KnowsMade
<1>10. Knows(sessions', nextID', new)
  BY <1>6, <1>7, <1>8, <1>9 DEF Knows, KnowsNested
<1>11. QED
  BY <1>1, <1>3, <1>10, LearnsAnew

(* One declared secondary less.                                            *)
LEMMA LearnsUnwinding ==
  ASSUME IInv, Knowing, Later, NEW a \in Actor, UnwindRecord(a)
  PROVE  Knowing'
<1> DEFINE made == act[a].made
           left == Front(made)
           last == [act[a] EXCEPT !.made = left]
<1>1. /\ Carries(act[a]) /\ Issued(act[a].id) /\ Knows(sessions, nextID, act[a])
      /\ act[a].pc = "unwind-record"
  BY DEF IInv, Actors, Knowing, UnwindRecord, At
<1>2. PICK new : /\ Become(a, new)
                 /\ \/ new = [last EXCEPT !.pc = "unwind"] /\ left # <<>>
                    \/ new = [last EXCEPT !.pc = "undo"]
                    \/ new = [last EXCEPT !.pc = "lock", !.force = TRUE, !.undo = TRUE]
  BY DEF UnwindRecord
<1>3. /\ new.made = left /\ new.plan = act[a].plan /\ new.id = act[a].id
      /\ new.branch = act[a].branch /\ new.mode = act[a].mode
      /\ new.pc \in {"unwind", "undo", "lock"}
      /\ new.pc = "unwind" => left # <<>>
  BY <1>1, <1>2 DEF Carries, Idle
<1>4. /\ new.pc \notin Killing /\ new.pc # "remove" /\ ~ Beginning(new) /\ new.pc \notin Adding
      /\ new.pc \notin {"nest-tmux", "nest-record", "unwind-record"}
      /\ act[a].pc \in Settling
  BY <1>1, <1>3 DEF Killing, Beginning, Adding, Settling
<1>5. KnowsPlan(sessions, nextID, new)
  BY <1>1, <1>3, <1>4 DEF Knows, KnowsPlan
<1>6. KnowsSession(sessions, new)
  BY <1>1, <1>3, <1>4 DEF Knows, KnowsSession
<1>7. KnowsMade(sessions, nextID, new)
  <2>1. made \in Seq(Int) /\ made # <<>>
    BY <1>1 DEF Knows, KnowsMade
  <2>2. \A m \in 1 .. Len(made) :
          /\ made[m] < nextID
          /\ made[m] \in DOMAIN sessions =>
               /\ sessions[made[m]].type = "secondary"
               /\ sessions[made[m]].tmux = <<act[a].branch, m>>
    BY <1>1, <1>4 DEF Knows, KnowsMade
  <2> HIDE DEF made
  <2>3. /\ left \in Seq(Int) /\ Len(left) = Len(made) - 1
        /\ \A m \in 1 .. Len(left) : left[m] = made[m]
    BY <2>1 DEF Front
  <2> HIDE DEF left
  <2>4. \A m \in 1 .. Len(left) : m \in 1 .. Len(made)
    BY <2>1, <2>3
  <2>5. QED
    BY <1>3, <1>4, <2>2, <2>3, <2>4 DEF KnowsMade
<1>8. Knows(sessions, nextID, new)
  BY <1>4, <1>5, <1>6, <1>7 DEF Knows, KnowsNested
<1>9. QED
  BY <1>1, <1>2, <1>3, <1>8, Learns

(* The plan of a deletion names the tmux sessions it will kill, and the    *)
(* branch of the only worktree in it.                                      *)
LEMMA LearnsPlan ==
  ASSUME IInv, Knowing, Later, NEW a \in Actor, DeletePlan(a)
  PROVE  Knowing'
<1> DEFINE id == act[a].id
           type == IF id \in DOMAIN sessions THEN sessions[id].type ELSE "main"
           plan == CASE type = "worktree" -> PlanWorktreeRemoval(sessions, id)
                     [] type = "secondary" -> PlanSecondaryRemoval(sessions, id)
                     [] OTHER -> NoPlan
           branch == IF type = "worktree" THEN sessions[id].branch ELSE act[a].branch
           pc == IF type = "worktree" THEN "remove" ELSE "kill"
           new == [act[a] EXCEPT !.pc = pc, !.plan = plan,
                                 !.names = TmuxNames(sessions, plan.delete), !.branch = branch]
<1>1. /\ Sound /\ Carries(act[a]) /\ Issued(act[a].id) /\ Knows(sessions, nextID, act[a])
      /\ Become(a, new) \/ EndRemoval(a)
  BY DEF IInv, Actors, Knowing, DeletePlan
<1>2. /\ plan.delete \subseteq DOMAIN sessions
      /\ type = "worktree" => plan.delete \cap OfType(sessions, "worktree") \subseteq {id}
  <2>1. CASE type = "worktree"
    <3>1. plan = PlanWorktreeRemoval(sessions, id)
      BY <2>1
    <3>2. QED
      BY <3>1, WorktreeRemovalDeletes
  <2>2. CASE type = "secondary"
    <3>1. plan = PlanSecondaryRemoval(sessions, id)
      BY <2>2
    <3>2. QED
      BY <2>2, <3>1, SecondaryRemovalDeletes DEF OfType
  <2>3. CASE type \notin {"worktree", "secondary"}
    BY <2>3 DEF NoPlan
  <2>4. QED
    BY <2>1, <2>2, <2>3
<1>3. ASSUME Become(a, new) PROVE Knowing'
  <2> HIDE DEF plan
  <2>1. /\ new.made = act[a].made /\ new.plan = plan /\ new.pc = pc /\ new.id = id
        /\ new.names = TmuxNames(sessions, plan.delete) /\ new.branch = branch
    BY <1>1 DEF Carries, Idle
  <2> HIDE DEF new
  <2>2. /\ new.pc \notin Adding /\ new.pc \notin Settling /\ ~ Beginning(new)
        /\ new.pc \notin {"nest-tmux", "nest-record"} /\ new.pc \notin {"unwind", "unwind-record"}
    BY <2>1 DEF Adding, Settling, Beginning
  <2>3. \A i \in plan.delete : i \in Int /\ i < nextID
    BY <1>1, <1>2 DEF Sound, Aged
  <2>4. \A i \in plan.delete : sessions[i].tmux \in new.names
    BY <2>1 DEF TmuxNames
  <2>5. new.pc = "remove" =>
          \A i \in plan.delete \cap OfType(sessions, "worktree") : sessions[i].branch = new.branch
    BY <1>2, <2>1
  <2>6. KnowsPlan(sessions, nextID, new)
    BY <2>1, <2>3, <2>4, <2>5 DEF KnowsPlan
  <2>7. KnowsMade(sessions, nextID, new)
    BY <1>1, <2>1, <2>2 DEF Knows, KnowsMade
  <2>8. Knows(sessions, nextID, new)
    BY <2>2, <2>6, <2>7 DEF Knows, KnowsSession, KnowsNested
  <2>9. QED
    BY <1>1, <1>3, <2>1, <2>8, Learns
<1>4. QED
  BY <1>1, <1>3, LearnsEnding

(* The setup goroutine inherits what the request knew.                     *)
LEMMA LearnsStartHook ==
  ASSUME IInv, Knowing, Later, NEW r \in Actor, StartHook(r)
  PROVE  Knowing'
<1>1. /\ Carries(act[r]) /\ Knows(sessions, nextID, act[r]) /\ act[r].pc = "hook"
      /\ DOMAIN act = Actor /\ Still
  BY DEF IInv, Actors, Knowing, StartHook, At, Still, records
<1>2. "hook" \in Settling /\ "materialize" \in Settling /\ "running" \in Settling
      /\ "materialize" \notin Adding /\ "hook" \in Adding
  BY DEF Settling, Adding
<1>3. CASE Goto(r, "materialize")
  BY <1>1, <1>2, <1>3, LearnsSettling
<1>4. CASE CleanUp(r)
  BY <1>4, LearnsCleaning
<1>5. ASSUME NEW w \in Worker,
             act' = [act EXCEPT ![r] = Idle,
                                ![w] = [Forget(r) EXCEPT !.pc = "running", !.then = "idle"]]
      PROVE  Knowing'
  <2> DEFINE new == [Forget(r) EXCEPT !.pc = "running", !.then = "idle"]
  <2>1. /\ new.made = act[r].made /\ new.plan = NoPlan /\ new.pc = "running"
        /\ new.id = act[r].id /\ new.branch = act[r].branch /\ new.mode = act[r].mode
    BY <1>1 DEF Carries, Idle, Forget
  <2>2. NoPlan.delete = {}
    BY DEF NoPlan
  <2>3. act' = [act EXCEPT ![r] = Idle, ![w] = new]
    BY <1>5
  <2> HIDE DEF new
  <2>4. Knows(sessions, nextID, new)
    BY <1>1, <1>2, <2>1, <2>2, SettlingKnows
  <2>5. \A b \in Actor : act'[b] \in {act[b], Idle, new}
    BY <1>1, <2>3
  <2>6. ASSUME NEW b \in Actor PROVE Knows(sessions', nextID', act'[b])
    <3>1. Knows(sessions, nextID, act[b]) /\ Knows(sessions, nextID, Idle)
      BY IdleKnows DEF Knowing
    <3>2. Knows(sessions, nextID, act'[b])
      BY <2>4, <2>5, <3>1
    <3>3. QED
      BY <1>1, <3>2 DEF Still
  <2>7. QED
    BY <2>6 DEF Knowing
<1>6. QED
  BY <1>3, <1>4, <1>5 DEF StartHook

(* The places a step may leave for where something is known because it was *)
(* known there already, or because the step just checked it.               *)
LEMMA LearnsOnTheWay ==
  ASSUME IInv, Knowing, Later, NEW a \in Actor, NEW pc, Goto(a, pc),
         \/ pc = "add" /\ act[a].pc = "check" /\ act[a].mode # "adopt"
         \/ pc = "kill" /\ act[a].pc = "remove"
         \/ pc = "nest-record" /\ act[a].pc = "nest-tmux"
  PROVE  Knowing'
<1> DEFINE new == [act[a] EXCEPT !.pc = pc]
<1>1. Carries(act[a]) /\ Issued(act[a].id) /\ Knows(sessions, nextID, act[a])
  BY DEF IInv, Actors, Knowing
<1>2. /\ new.made = act[a].made /\ new.plan = act[a].plan /\ new.pc = pc /\ new.id = act[a].id
      /\ new.names = act[a].names /\ new.mode = act[a].mode
  BY <1>1 DEF Carries, Idle
<1>3. Become(a, new)
  BY DEF Goto
<1> HIDE DEF new
<1>4. KnowsPlan(sessions, nextID, new)
  BY <1>1, <1>2 DEF Knows, KnowsPlan, Killing
<1>5. KnowsSession(sessions, new)
  BY <1>2 DEF KnowsSession, Adding, Settling
<1>6. KnowsMade(sessions, nextID, new)
  BY <1>1, <1>2 DEF Knows, KnowsMade, Beginning, Settling
<1>7. KnowsNested(new)
  BY <1>1, <1>2 DEF Knows, KnowsNested
<1>8. Knows(sessions, nextID, new)
  BY <1>4, <1>5, <1>6, <1>7 DEF Knows
<1>9. QED
  BY <1>1, <1>2, <1>3, <1>8, Learns

(* A secondary has one name from its plan to its record.                   *)
LEMMA LearnsNest ==
  ASSUME IInv, Knowing, Later, NEW r \in Actor, Nest(r)
  PROVE  Knowing'
<1>1. Carries(act[r]) /\ Issued(act[r].id) /\ Knows(sessions, nextID, act[r])
  BY DEF IInv, Actors, Knowing
<1>2. ASSUME NEW branch, NEW name,
             Become(r, [act[r] EXCEPT !.pc = "nest-tmux", !.branch = branch, !.names = {name}])
      PROVE  Knowing'
  <2> DEFINE new == [act[r] EXCEPT !.pc = "nest-tmux", !.branch = branch, !.names = {name}]
  <2>1. /\ new.made = act[r].made /\ new.plan = act[r].plan /\ new.pc = "nest-tmux"
        /\ new.id = act[r].id /\ new.names = {name}
    BY <1>1 DEF Carries, Idle
  <2>2. Become(r, new)
    BY <1>2
  <2> HIDE DEF new
  <2>3. KnowsPlan(sessions, nextID, new)
    BY <1>1, <2>1 DEF Knows, KnowsPlan, Killing
  <2>4. KnowsSession(sessions, new)
    BY <2>1 DEF KnowsSession, Adding, Settling
  <2>5. KnowsMade(sessions, nextID, new)
    BY <1>1, <2>1 DEF Knows, KnowsMade, Beginning, Settling
  <2>6. KnowsNested(new)
    BY <2>1 DEF KnowsNested
  <2>7. Knows(sessions, nextID, new)
    BY <2>3, <2>4, <2>5, <2>6 DEF Knows
  <2>8. QED
    BY <1>1, <2>1, <2>2, <2>7, Learns
<1>3. CASE Become(r, Idle)
  BY <1>3, LearnsIdle
<1>4. QED
  BY <1>2, <1>3 DEF Nest

(* A Project deletion knows the names of all the records.                  *)
LEMMA LearnsProject ==
  ASSUME IInv, Knowing, Later, NEW r \in Actor, ProjectRead(r)
  PROVE  Knowing'
<1> DEFINE names == TmuxNames(sessions, DOMAIN sessions)
           all == [NoPlan EXCEPT !.delete = DOMAIN sessions]
           new == [act[r] EXCEPT !.pc = "project-kill", !.names = names, !.plan = all]
<1>1. /\ Sound /\ Carries(act[r]) /\ Issued(act[r].id) /\ Knows(sessions, nextID, act[r])
      /\ Become(r, new) \/ Become(r, Idle)
  BY DEF IInv, Actors, Knowing, ProjectRead
<1>2. all.delete = DOMAIN sessions
  BY DEF NoPlan
<1> HIDE DEF all
<1>3. /\ new.made = act[r].made /\ new.plan = all /\ new.pc = "project-kill"
      /\ new.id = act[r].id /\ new.names = names
  BY <1>1 DEF Carries, Idle
<1> HIDE DEF new
<1>4. KnowsPlan(sessions, nextID, new)
  BY <1>1, <1>2, <1>3 DEF KnowsPlan, Sound, Aged, TmuxNames
<1>5. KnowsMade(sessions, nextID, new)
  BY <1>1, <1>3 DEF Knows, KnowsMade, Beginning, Settling
<1>6. Knows(sessions, nextID, new)
  BY <1>3, <1>4, <1>5 DEF Knows, KnowsSession, KnowsNested, Adding, Settling
<1>7. QED
  BY <1>1, <1>3, <1>6, Learns, LearnsIdle

(* A creation reads the records.                                           *)
LEMMA LearnsReading ==
  ASSUME IInv, Knowing, Later, NEW r \in Actor, ReadState(r)
  PROVE  Knowing'
<1>1. /\ Carries(act[r]) /\ Issued(act[r].id) /\ Knows(sessions, nextID, act[r])
      /\ act[r].pc = "read"
  BY DEF IInv, Actors, Knowing, ReadState, At
<1>2. ASSUME NEW p, Become(r, [act[r] EXCEPT !.pc = "reserve", !.parent = p])
      PROVE  Knowing'
  <2> DEFINE new == [act[r] EXCEPT !.pc = "reserve", !.parent = p]
  <2>1. new.made = act[r].made /\ new.plan = act[r].plan /\ new.pc = "reserve" /\ new.id = act[r].id
    BY <1>1 DEF Carries, Idle
  <2>2. Become(r, new)
    BY <1>2
  <2> HIDE DEF new
  <2>3. Knows(sessions, nextID, new)
    BY <1>1, <2>1, PlainKnows DEF Plain, Killing, Adding, Settling, Beginning
  <2>4. QED
    BY <1>1, <2>1, <2>2, <2>3, Learns
<1>3. CASE Become(r, Idle)
  BY <1>3, LearnsIdle
<1>4. QED
  BY <1>2, <1>3 DEF ReadState

(* An actor enters a stripe.                                               *)
LEMMA LearnsLocking ==
  ASSUME IInv, Knowing, Later, NEW a \in Actor, DeleteLocks(a)
  PROVE  Knowing'
<1> DEFINE new == [act[a] EXCEPT !.pc = "reconcile", !.then = "plan"]
<1>1. /\ Carries(act[a]) /\ Issued(act[a].id) /\ Knows(sessions, nextID, act[a])
      /\ Become(a, new)
  BY DEF IInv, Actors, Knowing, DeleteLocks
<1>2. /\ new.made = act[a].made /\ new.plan = act[a].plan /\ new.pc = "reconcile"
      /\ new.id = act[a].id /\ new.then = "plan"
  BY <1>1 DEF Carries, Idle
<1> HIDE DEF new
<1>3. Knows(sessions, nextID, new)
  BY <1>1, <1>2, PlainKnows DEF Plain, Killing, Adding, Settling, Beginning
<1>4. QED
  BY <1>1, <1>2, <1>3, Learns

(* The steps after which an actor knows nothing that it did not before.    *)
LEMMA LearnsElsewhere ==
  ASSUME IInv, Knowing, Later, NEW a \in Actor,
         \/ PruneKill(a) \/ PruneWrite(a) \/ Reserve(a) \/ CheckGit(a) \/ AddWorktree(a)
         \/ CreateTmux(a) \/ Rollback(a) \/ Materialize(a) \/ Unwind(a) \/ Undo(a)
         \/ UndoRecord(a) \/ RemoveWorktree(a) \/ Kill(a) \/ Write(a) \/ DeleteBranch(a)
         \/ NestTmux(a) \/ NestRecord(a) \/ ProjectKill(a) \/ ProjectWrite(a)
         \/ HookSucceeds(a) \/ HookFails(a) \/ Finalize(a)
  PROVE  Knowing'
<1>1. \A pc : [act[a] EXCEPT !.pc = pc].pc = pc /\ [act[a] EXCEPT !.pc = pc].then = act[a].then
  BY DEF IInv, Actors, Carries, Idle
<1>2. /\ Plain("prune-write") /\ Plain("check") /\ Plain("tmux") /\ Plain("record")
      /\ Plain("rollback") /\ Plain("write") /\ Plain("project-write")
  BY DEF Plain, Killing, Adding, Settling
<1>3. CASE PruneKill(a)
  <2>1. Goto(a, "prune-write") \/ EndRemoval(a)
    BY <1>3 DEF PruneKill
  <2>2. Beginning([act[a] EXCEPT !.pc = "prune-write"]) => Beginning(act[a])
    BY <1>1, <1>3 DEF PruneKill, At, Beginning
  <2>3. QED
    BY <1>2, <2>1, <2>2, LearnsGoing, LearnsEnding
<1>4. CASE PruneWrite(a)
  BY <1>4, LearnsThen, LearnsEnding DEF PruneWrite, At
<1>5. CASE Reserve(a)
  <2>1. Goto(a, "check") \/ Become(a, Idle)
    BY <1>5 DEF Reserve
  <2>2. Beginning(act[a])
    BY <1>5 DEF Reserve, At, Beginning
  <2>3. QED
    BY <1>2, <2>1, <2>2, LearnsGoing, LearnsIdle
<1>6. CASE CheckGit(a)
  <2>1. \/ Goto(a, "tmux")
        \/ Goto(a, "add") /\ act[a].mode # "adopt"
        \/ Become(a, Idle)
    BY <1>6 DEF CheckGit, FinishCreation
  <2>2. act[a].pc = "check" /\ Beginning(act[a])
    BY <1>6 DEF CheckGit, At, Beginning
  <2>3. QED
    BY <1>2, <2>1, <2>2, LearnsGoing, LearnsOnTheWay, LearnsIdle
<1>7. CASE AddWorktree(a) \/ CreateTmux(a)
  <2>1. Goto(a, "tmux") \/ Goto(a, "record") \/ Goto(a, "rollback")
    BY <1>7 DEF AddWorktree, CreateTmux
  <2>2. Beginning(act[a])
    BY <1>7 DEF AddWorktree, CreateTmux, At, Beginning
  <2>3. QED
    BY <1>2, <2>1, <2>2, LearnsGoing
<1>8. CASE Rollback(a) \/ DeleteBranch(a) \/ NestRecord(a) \/ ProjectWrite(a)
  BY <1>8, LearnsIdle DEF Rollback, DeleteBranch, NestRecord, ProjectWrite, FinishCreation
<1>9. CASE Materialize(a)
  <2>1. /\ "materialize" \in Settling /\ "declare" \in Settling /\ "unwind" \in Settling
        /\ "undo" \in Settling
        /\ "declare" \notin Adding /\ "unwind" \notin Adding /\ "undo" \notin Adding
    BY DEF Settling, Adding
  <2>2. /\ act[a].pc = "materialize"
        /\ \/ Become(a, Idle) \/ Goto(a, "declare") \/ Goto(a, "undo") \/ CleanUp(a)
           \/ Goto(a, "unwind") /\ act[a].made # <<>>
    BY <1>9 DEF Materialize, At, FinishCreation, Abandon
  <2>3. CASE Goto(a, "declare") \/ Goto(a, "undo")
    BY <2>1, <2>2, <2>3, LearnsSettling
  <2>4. CASE Goto(a, "unwind") /\ act[a].made # <<>>
    BY <2>1, <2>2, <2>4, LearnsSettling
  <2>5. QED
    BY <2>2, <2>3, <2>4, LearnsIdle, LearnsCleaning
<1>10. CASE Unwind(a) \/ Undo(a)
  <2>1. /\ "unwind" \in Settling /\ "unwind-record" \in Settling /\ "undo" \in Settling
        /\ "undo-record" \in Settling /\ "unwind-record" \notin Adding
        /\ "undo-record" \notin Adding
    BY DEF Settling, Adding
  <2>2. act[a].pc = "unwind" => act[a].made # <<>>
    BY DEF Knowing, Knows, KnowsMade
  <2>3. QED
    BY <1>10, <2>1, <2>2, LearnsSettling DEF Unwind, Undo, At
<1>11. CASE UndoRecord(a) \/ Kill(a)
  <2>1. Goto(a, "rollback") \/ Goto(a, "write")
    BY <1>11 DEF UndoRecord, Kill
  <2>2. /\ ~ Beginning([act[a] EXCEPT !.pc = "rollback"])
        /\ ~ Beginning([act[a] EXCEPT !.pc = "write"])
    BY <1>1 DEF Beginning
  <2>3. QED
    BY <1>2, <2>1, <2>2, LearnsGoing
<1>12. CASE RemoveWorktree(a)
  BY <1>12, LearnsOnTheWay, LearnsEnding DEF RemoveWorktree, At
<1>13. CASE Write(a)
  BY <1>13, LearnsEnding DEF Write
<1>14. CASE NestTmux(a)
  BY <1>14, LearnsOnTheWay, LearnsIdle DEF NestTmux, At
<1>15. CASE ProjectKill(a)
  <2>1. Goto(a, "project-write") \/ Become(a, Idle)
    BY <1>15 DEF ProjectKill
  <2>2. ~ Beginning([act[a] EXCEPT !.pc = "project-write"])
    BY <1>1 DEF Beginning
  <2>3. QED
    BY <1>2, <2>1, <2>2, LearnsGoing, LearnsIdle
<1>16. CASE HookSucceeds(a) \/ Finalize(a)
  <2>1. /\ "running" \in Settling /\ "finalize" \in Settling /\ "materialize" \in Settling
        /\ "running" \in Adding /\ "materialize" \notin Adding
    BY DEF Settling, Adding
  <2>2. \/ Goto(a, "finalize") /\ act[a].pc = "running"
        \/ Goto(a, "materialize") /\ act[a].pc = "finalize"
        \/ Become(a, Idle)
    BY <1>16 DEF HookSucceeds, Finalize, At
  <2>3. QED
    BY <2>1, <2>2, LearnsSettling, LearnsIdle
<1>17. CASE HookFails(a)
  BY <1>17, LearnsCleaning, LearnsIdle DEF HookFails
<1>18. QED
  BY <1>3, <1>4, <1>5, <1>6, <1>7, <1>8, <1>9, <1>10, <1>11, <1>12, <1>13, <1>14, <1>15,
     <1>16, <1>17

(* What is known stays known, or is learnt, in every step.                 *)
LEMMA EveryStepLearns == IInv /\ Knowing /\ [Next]_vars => Knowing'
<1> SUFFICES ASSUME IInv, Knowing, [Next]_vars PROVE Knowing'
  OBVIOUS
<1>1. Request \subseteq Actor /\ Worker \subseteq Actor /\ Sound
  BY DEF Actor, IInv
<1>2. CASE \E r \in Request : Starts(r)
  BY <1>2, LearnsStart
<1>3. ASSUME NEW a \in Actor, Steps(a) PROVE Knowing'
  <2>1. Later
    BY <1>3, StepsAge
  <2>2. QED
    BY <1>3, <2>1, LearnsReconcileRead, LearnsPrune, LearnsReading, LearnsRecord,
       LearnsStartHook, LearnsDeclare, LearnsUnwinding, LearnsPlan, LearnsNest, LearnsProject,
       LearnsElsewhere DEF Steps
<1>4. ASSUME NEW a \in Actor, Locks(a) \/ HookSucceeds(a) \/ HookFails(a) PROVE Knowing'
  <2>1. Still
    BY <1>4 DEF Locks, DeleteLocks, Finalize, HookSucceeds, HookFails, Still, records
  <2>2. Later
    BY <1>1, <2>1, StillIsSound
  <2>3. QED
    BY <1>4, <2>2, LearnsLocking, LearnsElsewhere DEF Locks
<1>5. CASE Still /\ act' = act
  BY <1>5 DEF Knowing, Still
<1>6. CASE (\E b \in Branch : DirectoryVanishes(b)) \/ (\E name \in tmux : TmuxExits(name))
  BY <1>5, <1>6 DEF DirectoryVanishes, TmuxExits, Still, records
<1>7. CASE UNCHANGED vars
  BY <1>5, <1>7 DEF vars, Still, records
<1>8. QED
  BY <1>1, <1>2, <1>3, <1>4, <1>6, <1>7 DEF Next

(* What the actors know of the records, in every run.                      *)
LEMMA AlwaysKnowing == Spec => [](IInv /\ Knowing)
<1>1. Init => IInv /\ Knowing
  BY InitSound, IdleKnows DEF Knowing, Init
<1>2. IInv /\ Knowing /\ [Next]_vars => (IInv /\ Knowing)'
  BY EveryStep, EveryStepLearns
<1>3. QED
  BY <1>1, <1>2, PTL DEF Spec

------------------------------------------------------------------------------
(* Where a step leads the actor that takes it.                             *)

Alone(a) == \A b \in Actor : b # a => act'[b] = act[b]

(* The other actors stay where they are.                                   *)
LEMMA BecomeLeads ==
  ASSUME IInv, NEW a \in Actor, NEW state, Become(a, state)
  PROVE  Alone(a) /\ act'[a] = state
BY DEF IInv, Actors, Become, Alone

(* A step that only moves on.                                              *)
LEMMA GotoLeads ==
  ASSUME IInv, NEW a \in Actor, NEW pc, Goto(a, pc)
  PROVE  /\ Alone(a) /\ act'[a].pc = pc /\ act'[a].plan = act[a].plan /\ act'[a].id = act[a].id
         /\ act'[a].mode = act[a].mode /\ act'[a].branch = act[a].branch
         /\ act'[a].made = act[a].made /\ act'[a].names = act[a].names
<1> DEFINE new == [act[a] EXCEPT !.pc = pc]
<1>1. /\ new.pc = pc /\ new.plan = act[a].plan /\ new.id = act[a].id
      /\ new.mode = act[a].mode /\ new.branch = act[a].branch
      /\ new.made = act[a].made /\ new.names = act[a].names
  BY DEF IInv, Actors, Carries, Idle
<1>2. Become(a, new)
  BY DEF Goto
<1> HIDE DEF new
<1>3. QED
  BY <1>1, <1>2, BecomeLeads

(* A step that ends its actor.                                             *)
LEMMA IdleLeads ==
  ASSUME IInv, NEW a \in Actor, Become(a, Idle)
  PROVE  Alone(a) /\ act'[a].pc = "idle"
<1>1. Idle.pc = "idle"
  BY DEF Idle
<1>2. QED
  BY <1>1, BecomeLeads

(* A step that drops the plan.                                             *)
LEMMA ForgettingLeads ==
  ASSUME IInv, NEW a \in Actor, NEW pc, Become(a, [Forget(a) EXCEPT !.pc = pc])
  PROVE  Alone(a) /\ act'[a].pc = pc
<1>1. [Forget(a) EXCEPT !.pc = pc].pc = pc
  BY DEF IInv, Actors, Carries, Idle, Forget
<1>2. QED
  BY <1>1, BecomeLeads

(* A deletion that ends is over, or cleans up the branch.                  *)
LEMMA EndingLeads ==
  ASSUME IInv, NEW a \in Actor, EndRemoval(a)
  PROVE  Alone(a) /\ act'[a].pc \in {"branch", "idle"}
BY ForgettingLeads, IdleLeads DEF EndRemoval

(* A cleanup begins with the lock.                                         *)
LEMMA CleaningLeads ==
  ASSUME IInv, NEW a \in Actor, CleanUp(a)
  PROVE  Alone(a) /\ act'[a].pc = "lock"
<1>1. [act[a] EXCEPT !.pc = "lock", !.force = TRUE, !.undo = TRUE].pc = "lock"
  BY DEF IInv, Actors, Carries, Idle
<1>2. QED
  BY <1>1, BecomeLeads DEF CleanUp

(* The places where nothing is condemned, borne or forgotten.              *)
Harmless == {"idle", "reconcile", "stat", "read", "reserve", "check", "add", "hook",
             "running", "finalize", "lock", "plan", "remove", "branch", "nest", "nest-tmux",
             "project", "project-kill"}

(* The steps that only ever lead there, and write nothing.                 *)
LEMMA LeadsToHarmless ==
  ASSUME IInv, NEW a \in Actor,
         \/ ReconcileRead(a) \/ ReadState(a) \/ Reserve(a) \/ DeleteBranch(a) \/ Nest(a)
         \/ ProjectRead(a) \/ HookSucceeds(a) \/ HookFails(a) \/ DeleteLocks(a)
  PROVE  /\ Alone(a) /\ act[a].pc \in Harmless /\ act'[a].pc \in Harmless
         /\ Still /\ UNCHANGED <<project, registered, onDisk, tmux>>
<1>1. Still /\ UNCHANGED <<project, registered, onDisk, tmux>>
  BY DEF Still, records, git, ReconcileRead, ReadState, Reserve, DeleteBranch, Nest,
         ProjectRead, HookSucceeds, HookFails, DeleteLocks
<1>2. act[a].pc \in Harmless
  BY DEF At, Harmless, ReconcileRead, ReadState, Reserve, DeleteBranch, Nest,
         ProjectRead, HookSucceeds, HookFails, DeleteLocks
<1>3. DOMAIN act[a] = DOMAIN Idle
  BY DEF IInv, Actors, Carries
<1>4. CASE ReconcileRead(a)
  <2>1. [act[a] EXCEPT !.pc = "stat", !.snap = sessions].pc = "stat"
    BY <1>3 DEF Idle
  <2>2. Become(a, [act[a] EXCEPT !.pc = "stat", !.snap = sessions])
    BY <1>4 DEF ReconcileRead
  <2>3. Alone(a) /\ act'[a].pc = "stat"
    BY <2>1, <2>2, BecomeLeads
  <2>4. QED
    BY <1>1, <1>2, <2>3 DEF Harmless
<1>5. CASE ReadState(a)
  <2>1. ASSUME NEW p, Become(a, [act[a] EXCEPT !.pc = "reserve", !.parent = p])
        PROVE  Alone(a) /\ act'[a].pc = "reserve"
    <3>1. [act[a] EXCEPT !.pc = "reserve", !.parent = p].pc = "reserve"
      BY <1>3 DEF Idle
    <3>2. QED
      BY <2>1, <3>1, BecomeLeads
  <2>2. Alone(a) /\ act'[a].pc \in {"reserve", "idle"}
    BY <1>5, <2>1, IdleLeads DEF ReadState
  <2>3. QED
    BY <1>1, <1>2, <2>2 DEF Harmless
<1>6. CASE Nest(a)
  <2>1. ASSUME NEW b, NEW n,
               Become(a, [act[a] EXCEPT !.pc = "nest-tmux", !.branch = b, !.names = {n}])
        PROVE  Alone(a) /\ act'[a].pc = "nest-tmux"
    <3>1. [act[a] EXCEPT !.pc = "nest-tmux", !.branch = b, !.names = {n}].pc = "nest-tmux"
      BY <1>3 DEF Idle
    <3>2. QED
      BY <2>1, <3>1, BecomeLeads
  <2>2. Alone(a) /\ act'[a].pc \in {"nest-tmux", "idle"}
    BY <1>6, <2>1, IdleLeads DEF Nest
  <2>3. QED
    BY <1>1, <1>2, <2>2 DEF Harmless
<1>7. CASE ProjectRead(a)
  <2>1. ASSUME NEW p, NEW n,
               Become(a, [act[a] EXCEPT !.pc = "project-kill", !.names = n, !.plan = p])
        PROVE  Alone(a) /\ act'[a].pc = "project-kill"
    <3>1. [act[a] EXCEPT !.pc = "project-kill", !.names = n, !.plan = p].pc = "project-kill"
      BY <1>3 DEF Idle
    <3>2. QED
      BY <2>1, <3>1, BecomeLeads
  <2>2. Alone(a) /\ act'[a].pc \in {"project-kill", "idle"}
    BY <1>7, <2>1, IdleLeads DEF ProjectRead
  <2>3. QED
    BY <1>1, <1>2, <2>2 DEF Harmless
<1>8. CASE DeleteLocks(a)
  <2>1. [act[a] EXCEPT !.pc = "reconcile", !.then = "plan"].pc = "reconcile"
    BY <1>3 DEF Idle
  <2>2. Alone(a) /\ act'[a].pc = "reconcile"
    BY <1>8, <2>1, BecomeLeads DEF DeleteLocks
  <2>3. QED
    BY <1>1, <1>2, <2>2 DEF Harmless
<1>9. CASE Reserve(a) \/ DeleteBranch(a) \/ HookSucceeds(a) \/ HookFails(a)
  <2>1. Alone(a) /\ act'[a].pc \in {"check", "idle", "finalize", "lock"}
    BY <1>9, GotoLeads, IdleLeads, CleaningLeads
       DEF Reserve, DeleteBranch, FinishCreation, HookSucceeds, HookFails
  <2>2. QED
    BY <1>1, <1>2, <2>1 DEF Harmless
<1>10. QED
  BY <1>4, <1>5, <1>6, <1>7, <1>8, <1>9

(* A request begins at a harmless place.                                   *)
LEMMA StartLeads ==
  ASSUME IInv, NEW r \in Request, Starts(r)
  PROVE  /\ Alone(r) /\ act[r].pc \in Harmless /\ act'[r].pc \in Harmless
         /\ Still /\ UNCHANGED <<project, registered, onDisk, tmux>>
<1>1. r \in Actor
  BY DEF Actor
<1>2. /\ Still /\ UNCHANGED <<project, registered, onDisk, tmux>> /\ act[r].pc \in Harmless
  BY DEF Starts, StartWorktree, StartSecondary, StartDelete, StartDeleteProject, Still, records,
         git, At, Harmless
<1>3. ASSUME NEW new, Become(r, new), new.pc \in {"reconcile", "nest", "lock"}
      PROVE  Alone(r) /\ act'[r].pc \in Harmless
  BY <1>1, <1>3, BecomeLeads DEF Harmless
<1>4. ASSUME NEW b, NEW mode, NEW source, StartWorktree(r, b, mode, source)
      PROVE  Alone(r) /\ act'[r].pc \in Harmless
  <2> DEFINE new == [Idle EXCEPT !.pc = "reconcile", !.then = "read", !.branch = b,
                                 !.mode = mode, !.parent = source]
  <2>1. new.pc = "reconcile" /\ Become(r, new)
    BY <1>4 DEF Idle, StartWorktree
  <2> HIDE DEF new
  <2>2. QED
    BY <1>3, <2>1
<1>5. ASSUME NEW parent, NEW onDelete, StartSecondary(r, parent, onDelete)
      PROVE  Alone(r) /\ act'[r].pc \in Harmless
  <2> DEFINE new == [Idle EXCEPT !.pc = "nest", !.parent = parent, !.onDelete = onDelete]
  <2>1. new.pc = "nest" /\ Become(r, new)
    BY <1>5 DEF Idle, StartSecondary
  <2> HIDE DEF new
  <2>2. QED
    BY <1>3, <2>1
<1>6. ASSUME NEW id, NEW force, StartDelete(r, id, force)
      PROVE  Alone(r) /\ act'[r].pc \in Harmless
  <2> DEFINE new == [Idle EXCEPT !.pc = "lock", !.id = id, !.force = force]
  <2>1. new.pc = "lock" /\ Become(r, new)
    BY <1>6 DEF Idle, StartDelete
  <2> HIDE DEF new
  <2>2. QED
    BY <1>3, <2>1
<1>7. ASSUME StartDeleteProject(r) PROVE Alone(r) /\ act'[r].pc \in Harmless
  BY <1>1, <1>7, GotoLeads DEF StartDeleteProject, Harmless
<1>8. QED
  BY <1>2, <1>4, <1>5, <1>6, <1>7 DEF Starts

------------------------------------------------------------------------------
(* Worktrees on disk.                                                      *)

(* What was given up stays so as long as its worktree is there.            *)
Remains == stray \cap onDisk \subseteq stray' /\ abandoned \cap onDisk \subseteq abandoned'

(* Who writes the history.                                                 *)
LEMMA WritesHistory ==
  ASSUME [Next]_vars
  PROVE  \/ UNCHANGED history
         \/ \E a \in Actor : AddWorktree(a) \/ Rollback(a)
         \/ \E w \in Worker : HookFails(w)
<1>1. ASSUME UNCHANGED git PROVE UNCHANGED history
  BY <1>1 DEF git
<1>2. CASE \E r \in Request : Starts(r)
  BY <1>1, <1>2 DEF Starts, StartWorktree, StartSecondary, StartDelete, StartDeleteProject
<1>3. ASSUME NEW a \in Actor, Steps(a), ~ AddWorktree(a), ~ Rollback(a) PROVE UNCHANGED history
  <2>1. CASE ReconcileRead(a) \/ ReconcileStat(a) \/ PruneKill(a) \/ PruneWrite(a) \/ ReadState(a)
    BY <1>1, <2>1 DEF ReconcileRead, ReconcileStat, PruneKill, PruneWrite, ReadState
  <2>2. CASE Reserve(a) \/ CheckGit(a) \/ CreateTmux(a) \/ WriteRecord(a) \/ StartHook(a)
    BY <1>1, <2>2 DEF Reserve, CheckGit, CreateTmux, WriteRecord, StartHook
  <2>3. CASE \/ Materialize(a) \/ Declare(a) \/ Unwind(a) \/ UnwindRecord(a) \/ Undo(a)
             \/ UndoRecord(a)
    BY <1>1, <2>3 DEF Materialize, Declare, Unwind, UnwindRecord, Undo, UndoRecord
  <2>4. CASE DeletePlan(a) \/ Kill(a) \/ Write(a)
    BY <1>1, <2>4 DEF DeletePlan, Kill, Write
  <2>5. CASE RemoveWorktree(a) \/ DeleteBranch(a)
    BY <1>1, <2>5 DEF RemoveWorktree, DeleteBranch
  <2>6. CASE \/ Nest(a) \/ NestTmux(a) \/ NestRecord(a) \/ ProjectRead(a) \/ ProjectKill(a)
             \/ ProjectWrite(a)
    BY <1>1, <2>6 DEF Nest, NestTmux, NestRecord, ProjectRead, ProjectKill, ProjectWrite
  <2>7. QED
    BY <1>3, <2>1, <2>2, <2>3, <2>4, <2>5, <2>6 DEF Steps
<1>4. ASSUME NEW a \in Actor, Locks(a) PROVE UNCHANGED history
  BY <1>1, <1>4 DEF Locks, DeleteLocks, Finalize
<1>5. ASSUME NEW w \in Worker, HookSucceeds(w) PROVE UNCHANGED history
  BY <1>1, <1>5 DEF HookSucceeds
<1>6. CASE (\E b \in Branch : DirectoryVanishes(b)) \/ (\E name \in tmux : TmuxExits(name))
  BY <1>1, <1>6 DEF DirectoryVanishes, TmuxExits
<1>7. CASE UNCHANGED vars
  BY <1>1, <1>7 DEF vars
<1>8. QED
  BY <1>2, <1>3, <1>4, <1>5, <1>6, <1>7 DEF Next

LEMMA StepRemains == ASSUME [Next]_vars PROVE Remains
<1>1. CASE UNCHANGED history
  BY <1>1 DEF Remains, history
<1>2. ASSUME NEW a \in Actor, AddWorktree(a) PROVE Remains
  BY <1>2 DEF AddWorktree, Remains, git, history
<1>3. ASSUME NEW a \in Actor, Rollback(a) PROVE Remains
  BY <1>3 DEF Rollback, Remains
<1>4. ASSUME NEW w \in Worker, HookFails(w) PROVE Remains
  BY <1>4 DEF HookFails, Remains
<1>5. QED
  BY <1>1, <1>2, <1>3, <1>4, WritesHistory

(* Without failing removals no rollback leaves a worktree.                 *)
NoStray == stray = {}

LEMMA NeverStray == "remove" \notin Failing => (Spec => []NoStray)
<1> SUFFICES ASSUME "remove" \notin Failing PROVE Spec => []NoStray
  OBVIOUS
<1>1. Init => NoStray
  BY DEF Init, NoStray
<1>2. NoStray /\ [Next]_vars => NoStray'
  <2> SUFFICES ASSUME NoStray, [Next]_vars PROVE NoStray'
    OBVIOUS
  <2>1. CASE UNCHANGED history
    BY <2>1 DEF history, NoStray
  <2>2. ASSUME NEW a \in Actor, AddWorktree(a) \/ Rollback(a) PROVE NoStray'
    BY <2>2 DEF AddWorktree, Rollback, git, history, NoStray
  <2>3. ASSUME NEW w \in Worker, HookFails(w) PROVE NoStray'
    BY <2>3 DEF HookFails, NoStray
  <2>4. QED
    BY <2>1, <2>2, <2>3, WritesHistory
<1>3. QED
  BY <1>1, <1>2, PTL DEF Spec

(* It is enough to look at the one actor that moves.                       *)
LEMMA OwnedAfter ==
  ASSUME IInv, Owned, Remains, Later, NEW a \in Actor, Alone(a), project' => project,
         \A b \in onDisk' \ onDisk : Making(act'[a], b),
         \A i \in OfType(sessions, "worktree") :
           sessions[i].branch \in onDisk' /\ ~ Condemns(act[a], i) =>
             \/ i \in DOMAIN sessions' /\ ~ Condemns(act'[a], i)
             \/ Making(act'[a], sessions[i].branch),
         \A b \in onDisk' : Making(act[a], b) => b \in stray' \/ Kept(sessions', act', b)
  PROVE  Owned'
<1> OwnWorktrees' = onDisk' \ (Existing \cup stray')
  BY DEF OwnWorktrees
<1>1. SUFFICES ASSUME project', NEW b \in OwnWorktrees' PROVE Kept(sessions', act', b)
  BY DEF Owned
<1>2. CASE b \notin onDisk
  BY <1>1, <1>2 DEF Kept
<1>3. CASE b \in onDisk
  <2>1. Kept(sessions, act, b)
    BY <1>1, <1>3 DEF Owned, OwnWorktrees, Remains
  <2>2. ASSUME NEW i \in OfType(sessions, "worktree"), sessions[i].branch = b,
               \A c \in Actor : ~ Condemns(act[c], i)
        PROVE  Kept(sessions', act', b)
    <3>1. CASE Making(act'[a], b)
      BY <3>1 DEF Kept
    <3>2. CASE i \in DOMAIN sessions' /\ ~ Condemns(act'[a], i)
      <4>1. i \in OfType(sessions', "worktree") /\ sessions'[i].branch = b
        BY <2>2, <3>2 DEF Later, Same, OfType
      <4>2. \A c \in Actor : ~ Condemns(act'[c], i)
        BY <2>2, <3>2 DEF Alone
      <4>3. QED
        BY <4>1, <4>2 DEF Kept
    <3>3. QED
      BY <1>1, <2>2, <3>1, <3>2
  <2>3. ASSUME NEW c \in Actor, Making(act[c], b) PROVE Kept(sessions', act', b)
    <3>1. CASE c = a
      BY <1>1, <2>3, <3>1
    <3>2. CASE c # a
      BY <2>3, <3>2 DEF Alone, Kept
    <3>3. QED
      BY <3>1, <3>2
  <2>4. QED
    BY <2>1, <2>2, <2>3 DEF Kept
<1>4. QED
  BY <1>2, <1>3

(* Nobody starts or stops making a worktree, nobody condemns a record, and *)
(* only a condemned one goes.                                              *)
LEMMA OwnedCalmly ==
  ASSUME IInv, Owned, Remains, Later, NEW a \in Actor, Alone(a), project' => project,
         onDisk' \subseteq onDisk, act[a].pc \notin {"tmux", "record", "rollback"},
         \A i \in OfType(sessions, "worktree") \ DOMAIN sessions' : Condemns(act[a], i),
         \A i \in OfType(sessions, "worktree") : Condemns(act'[a], i) => Condemns(act[a], i)
  PROVE  Owned'
<1>1. \A b : ~ Making(act[a], b)
  BY DEF Making
<1>2. OfType(sessions, "worktree") \subseteq DOMAIN sessions
  BY DEF OfType
<1>3. QED
  BY <1>1, <1>2, OwnedAfter

(* There no record is condemned.                                           *)
LEMMA HarmlessCondemnsNone ==
  ASSUME NEW state, state.pc \in Harmless \cup {"tmux", "record", "rollback"}
  PROVE  \A i : ~ Condemns(state, i)
BY DEF Harmless, Condemns

(* A step from one such place to another.                                  *)
LEMMA OwnedHarmlessly ==
  ASSUME IInv, Owned, Remains, NEW a \in Actor, Alone(a), act[a].pc \in Harmless, act'[a].pc \in Harmless,
         Still, UNCHANGED <<project, onDisk>>
  PROVE  Owned'
<1>1. Later
  BY StillIsSound DEF IInv
<1>2. act[a].pc \notin {"tmux", "record", "rollback"}
  BY DEF Harmless
<1>3. OfType(sessions, "worktree") \subseteq DOMAIN sessions'
  BY DEF OfType, Still
<1>4. QED
  BY <1>1, <1>2, <1>3, HarmlessCondemnsNone, OwnedCalmly

(* Creation.                                                               *)
LEMMA OwnedCreating ==
  ASSUME IInv, Knowing, Owned, Remains, NEW r \in Actor,
         CheckGit(r) \/ AddWorktree(r) \/ CreateTmux(r) \/ Rollback(r)
  PROVE  Owned'
<1>1. Still /\ Later /\ project' = project
  BY StillIsSound
     DEF IInv, CheckGit, AddWorktree, CreateTmux, Rollback, Still, records
<1>2. OfType(sessions, "worktree") \subseteq DOMAIN sessions'
  BY <1>1 DEF OfType, Still
<1>3. act'[r].pc \in {"add", "tmux", "record", "rollback", "idle"} /\ Alone(r)
  <2>1. CASE CheckGit(r)
    <3>1. Goto(r, "tmux") \/ Goto(r, "add") \/ Become(r, Idle)
      BY <2>1 DEF CheckGit, FinishCreation
    <3>2. QED
      BY <3>1, GotoLeads, IdleLeads
  <2>2. CASE AddWorktree(r) \/ CreateTmux(r)
    BY <2>2, GotoLeads DEF AddWorktree, CreateTmux
  <2>3. CASE Rollback(r)
    BY <2>3, IdleLeads DEF Rollback, FinishCreation
  <2>4. QED
    BY <2>1, <2>2, <2>3
<1>4. \A i : ~ Condemns(act'[r], i)
  BY <1>3 DEF Condemns
<1>5. CASE CheckGit(r)
  <2>1. onDisk' = onDisk /\ act[r].pc \notin {"tmux", "record", "rollback"}
    BY <1>5 DEF CheckGit, git, At
  <2>2. QED
    BY <1>1, <1>2, <1>3, <1>4, <2>1, OwnedCalmly
<1>6. CASE AddWorktree(r)
  <2>1. act[r].pc = "add" /\ act[r].mode # "adopt"
    BY <1>6 DEF AddWorktree, At, Knowing, Knows, KnowsSession, Adding
  <2>2. \A b \in onDisk' \ onDisk : Making(act'[r], b)
    <3>1. CASE onDisk' = onDisk
      BY <3>1
    <3>2. CASE onDisk' = onDisk \cup {act[r].branch} /\ Goto(r, "tmux")
      BY <2>1, <3>2, GotoLeads DEF Making
    <3>3. QED
      BY <1>6, <3>1, <3>2 DEF AddWorktree, git
  <2>3. \A b : ~ Making(act[r], b)
    BY <2>1 DEF Making
  <2>4. QED
    BY <1>1, <1>2, <1>3, <1>4, <2>2, <2>3, OwnedAfter
<1>7. CASE CreateTmux(r)
  <2>1. onDisk' = onDisk /\ act[r].pc = "tmux" /\ (Goto(r, "record") \/ Goto(r, "rollback"))
    BY <1>7 DEF CreateTmux, git, At
  <2>2. \A b : Making(act[r], b) => Making(act'[r], b)
    BY <2>1, GotoLeads DEF Making
  <2>3. QED
    BY <1>1, <1>2, <1>3, <1>4, <2>1, <2>2, OwnedAfter DEF Kept
<1>8. CASE Rollback(r)
  <2>1. /\ onDisk' \subseteq onDisk
        /\ act[r].mode # "adopt" => act[r].branch \notin onDisk' \ stray'
    BY <1>8 DEF Rollback, WithoutWorktree
  <2>2. \A b \in onDisk' : Making(act[r], b) => b \in stray'
    BY <2>1 DEF Making
  <2>3. QED
    BY <1>1, <1>2, <1>3, <1>4, <2>1, <2>2, OwnedAfter
<1>9. QED
  BY <1>5, <1>6, <1>7, <1>8

(* The record takes over from the creation that made the worktree; nobody  *)
(* condemns an id that has just been issued.                               *)
LEMMA OwnedRecording ==
  ASSUME IInv, Knowing, Owned, Remains, NEW r \in Actor, WriteRecord(r)
  PROVE  Owned'
<1> DEFINE record == [type |-> "worktree", parent |-> act[r].parent, onDelete |-> "cascade",
                      branch |-> act[r].branch, name |-> 1, tmux |-> <<act[r].branch>>]
           pc == IF act[r].mode = "adopt" THEN "materialize" ELSE "hook"
           new == [act[r] EXCEPT !.id = nextID, !.pc = pc]
<1>1. /\ Sound /\ AddRecord(record) /\ Become(r, new) /\ act[r].pc = "record"
      /\ onDisk' = onDisk /\ project' = project
  BY DEF IInv, WriteRecord, At, AddRecord, git
<1>2. record.type = "worktree" /\ record.branch = act[r].branch
  OBVIOUS
<1> HIDE DEF record
<1>3. /\ Later /\ nextID \in Int /\ DOMAIN sessions' = DOMAIN sessions \cup {nextID}
      /\ nextID \notin DOMAIN sessions /\ sessions'[nextID] = record
  BY <1>1, AddingRecord
<1>4. new.pc = pc /\ new.id = nextID /\ new.mode = act[r].mode
  BY DEF IInv, Actors, Carries, Idle
<1> HIDE DEF new
<1>5. Alone(r) /\ act'[r] = new
  BY <1>1, BecomeLeads
<1>6. \A i : Condemns(new, i) => i = nextID /\ act[r].mode = "adopt"
  BY <1>4 DEF Condemns
<1>7. ASSUME NEW b, Making(act[r], b) PROVE Kept(sessions', act', b)
  <2>1. act[r].mode # "adopt" /\ act[r].branch = b
    BY <1>7 DEF Making
  <2>2. nextID \in OfType(sessions', "worktree") /\ sessions'[nextID].branch = b
    BY <1>2, <1>3, <2>1 DEF OfType
  <2>3. ASSUME NEW c \in Actor, Condemns(act'[c], nextID) PROVE FALSE
    <3>1. CASE c = r
      BY <1>5, <1>6, <2>1, <2>3, <3>1
    <3>2. CASE c # r
      <4>1. act'[c] = act[c] /\ Issued(act[c].id) /\ KnowsPlan(sessions, nextID, act[c])
        BY <1>5, <3>2 DEF Alone, IInv, Actors, Knowing, Knows
      <4>2. QED
        BY <1>3, <2>3, <4>1 DEF Condemns, Issued, KnowsPlan
    <3>3. QED
      BY <3>1, <3>2
  <2>4. QED
    BY <2>2, <2>3 DEF Kept
<1>8. \A i \in OfType(sessions, "worktree") : i \in DOMAIN sessions' /\ ~ Condemns(act'[r], i)
  BY <1>3, <1>5, <1>6 DEF OfType
<1>9. QED
  BY <1>1, <1>3, <1>5, <1>7, <1>8, OwnedAfter

(* Setup, until it starts to take records back.                            *)
LEMMA OwnedSettling ==
  ASSUME IInv, Knowing, Owned, Remains, Later, NEW a \in Actor,
         \/ Finalize(a) \/ Materialize(a) \/ Declare(a) \/ Unwind(a) \/ Undo(a)
         \/ UnwindRecord(a)
  PROVE  Owned'
<1>1. /\ project' = project /\ onDisk' = onDisk
      /\ act[a].pc \in {"finalize", "materialize", "declare", "unwind", "undo", "unwind-record"}
  BY DEF Finalize, Materialize, Declare, Unwind, Undo, UnwindRecord, AddRecord, DeleteRecords,
         records, git, At
<1>2. act[a].pc = "finalize" => act[a].mode # "adopt"
  BY DEF Knowing, Knows, KnowsSession, Adding
<1>3. Alone(a) /\ (\/ act'[a].pc \in {"idle", "lock"}
                   \/ /\ act'[a].pc \in {"materialize", "declare", "unwind", "undo",
                                         "unwind-record", "undo-record"}
                      /\ act'[a].mode = act[a].mode /\ act'[a].id = act[a].id)
  <2>1. ASSUME NEW pc \in {"materialize", "declare", "unwind", "undo", "unwind-record",
                           "undo-record"}, Goto(a, pc)
        PROVE  /\ Alone(a) /\ act'[a].pc = pc
               /\ act'[a].mode = act[a].mode /\ act'[a].id = act[a].id
    BY <2>1, GotoLeads
  <2>2. CASE Finalize(a)
    BY <2>1, <2>2, IdleLeads DEF Finalize
  <2>3. CASE Materialize(a)
    BY <2>1, <2>3, IdleLeads, CleaningLeads DEF Materialize, FinishCreation, Abandon
  <2>4. CASE Declare(a)
    <3> DEFINE new == [act[a] EXCEPT !.pc = "materialize", !.made = Append(act[a].made, nextID)]
    <3>1. new.pc = "materialize" /\ new.mode = act[a].mode /\ new.id = act[a].id
      BY DEF IInv, Actors, Carries, Idle
    <3>2. Become(a, new)
      BY <2>4 DEF Declare
    <3> HIDE DEF new
    <3>3. QED
      BY <3>1, <3>2, BecomeLeads
  <2>5. CASE Unwind(a) \/ Undo(a)
    BY <2>1, <2>5 DEF Unwind, Undo
  <2>6. CASE UnwindRecord(a)
    <3> DEFINE last == [act[a] EXCEPT !.made = Front(act[a].made)]
    <3>1. PICK new : /\ Become(a, new)
                     /\ new \in {[last EXCEPT !.pc = "unwind"], [last EXCEPT !.pc = "undo"],
                                 [last EXCEPT !.pc = "lock", !.force = TRUE, !.undo = TRUE]}
      BY <2>6 DEF UnwindRecord
    <3>2. new.pc \in {"unwind", "undo", "lock"} /\ new.mode = act[a].mode /\ new.id = act[a].id
      BY <3>1 DEF IInv, Actors, Carries, Idle
    <3>3. QED
      BY <3>1, <3>2, BecomeLeads
  <2>7. QED
    BY <2>2, <2>3, <2>4, <2>5, <2>6
<1>4. \A i : Condemns(act'[a], i) => Condemns(act[a], i)
  BY <1>1, <1>2, <1>3 DEF Condemns
<1>5. OfType(sessions, "worktree") \subseteq DOMAIN sessions'
  <2>1. CASE Finalize(a) \/ Materialize(a) \/ Unwind(a) \/ Undo(a)
    BY <2>1 DEF Finalize, Materialize, Unwind, Undo, records, OfType
  <2>2. CASE Declare(a)
    BY <2>2 DEF Declare, AddRecord, OfType
  <2>3. CASE UnwindRecord(a)
    <3> DEFINE made == act[a].made
    <3>1. sessions' = [i \in DOMAIN sessions \ {Last(made)} |-> sessions[i]]
      BY <2>3 DEF UnwindRecord, DeleteRecords
    <3>2. /\ made \in Seq(Int) /\ made # <<>>
          /\ \A n \in 1 .. Len(made) :
               made[n] \in DOMAIN sessions => sessions[made[n]].type = "secondary"
      BY <2>3 DEF UnwindRecord, At, Knowing, Knows, KnowsMade
    <3> HIDE DEF made
    <3>3. Last(made) \in DOMAIN sessions => sessions[Last(made)].type = "secondary"
      BY <3>2 DEF Last
    <3>4. QED
      BY <3>1, <3>3 DEF OfType
  <2>4. QED
    BY <2>1, <2>2, <2>3
<1>6. QED
  BY <1>1, <1>3, <1>4, <1>5, OwnedCalmly

(* Before a rollback forgets a session it has its worktree in hand, unless *)
(* the creation adopted it.                                                *)
LEMMA OwnedUndoing ==
  ASSUME IInv, Knowing, Owned, Remains, Later, NEW r \in Actor, UndoRecord(r)
  PROVE  Owned'
<1>1. /\ act[r].pc = "undo-record" /\ Goto(r, "rollback") /\ project' = project
      /\ onDisk' = onDisk /\ sessions' = [i \in DOMAIN sessions \ {act[r].id} |-> sessions[i]]
  BY DEF UndoRecord, At, DeleteRecords, git
<1>2. /\ Alone(r) /\ act'[r].pc = "rollback" /\ act'[r].mode = act[r].mode
      /\ act'[r].branch = act[r].branch
  BY <1>1, GotoLeads
<1>3. act[r].id \in DOMAIN sessions => sessions[act[r].id].branch = act[r].branch
  BY <1>1 DEF Knowing, Knows, KnowsSession, Settling
<1>4. ASSUME NEW i \in OfType(sessions, "worktree"), ~ Condemns(act[r], i)
      PROVE  \/ i \in DOMAIN sessions' /\ ~ Condemns(act'[r], i)
             \/ Making(act'[r], sessions[i].branch)
  <2>1. i \in DOMAIN sessions /\ ~ Condemns(act'[r], i)
    BY <1>2 DEF OfType, Condemns
  <2>2. CASE i # act[r].id
    BY <1>1, <2>1, <2>2
  <2>3. CASE i = act[r].id
    BY <1>1, <1>2, <1>3, <1>4, <2>1, <2>3 DEF Condemns, Making
  <2>4. QED
    BY <2>2, <2>3
<1>5. \A b : ~ Making(act[r], b)
  BY <1>1 DEF Making
<1>6. QED
  BY <1>1, <1>2, <1>4, <1>5, OwnedAfter

(* The request hands its session over to the setup goroutine.              *)
LEMMA OwnedHooking ==
  ASSUME IInv, Knowing, Owned, Remains, NEW r \in Actor, StartHook(r)
  PROVE  Owned'
<1>1. /\ Still /\ Later /\ project' = project /\ UNCHANGED git /\ onDisk' = onDisk /\ act[r].pc = "hook"
      /\ act[r].mode # "adopt" /\ DOMAIN act[r] = DOMAIN Idle
  BY StillIsSound DEF IInv, Actors, Carries, StartHook, Still, records, git, At, Knowing, Knows,
                      KnowsSession, Adding
<1>2. OfType(sessions, "worktree") \subseteq DOMAIN sessions'
  BY <1>1 DEF OfType, Still
<1>3. CASE Goto(r, "materialize")
  <2>1. Alone(r) /\ act'[r].pc = "materialize" /\ act'[r].mode # "adopt"
    BY <1>1, <1>3, GotoLeads
  <2>2. \A i : ~ Condemns(act'[r], i)
    BY <2>1 DEF Condemns
  <2>3. QED
    BY <1>1, <1>2, <2>1, <2>2, OwnedCalmly
<1>4. CASE CleanUp(r)
  BY <1>1, <1>4, CleaningLeads, OwnedHarmlessly DEF Harmless
<1>5. ASSUME NEW w \in Worker, act[w].pc = "idle",
             act' = [act EXCEPT ![r] = Idle,
                                ![w] = [Forget(r) EXCEPT !.pc = "running", !.then = "idle"]]
      PROVE  Owned'
  <2> DEFINE new == [Forget(r) EXCEPT !.pc = "running", !.then = "idle"]
  <2>1. new.pc = "running" /\ Idle.pc = "idle"
    BY <1>1 DEF Idle, Forget
  <2>2. act' = [act EXCEPT ![r] = Idle, ![w] = new] /\ DOMAIN act = Actor /\ w \in Actor
    BY <1>5 DEF IInv, Actors, Actor
  <2> HIDE DEF new
  <2>3. \A c \in Actor : \/ act'[c] = act[c] /\ c # r
                         \/ act'[c].pc \in {"idle", "running"}
    BY <2>1, <2>2
  <2>4. ASSUME NEW b \in OwnWorktrees, project PROVE Kept(sessions', act', b)
    <3>1. Kept(sessions, act, b)
      BY <2>4 DEF Owned
    <3>2. ASSUME NEW i \in OfType(sessions, "worktree"), sessions[i].branch = b,
                 \A c \in Actor : ~ Condemns(act[c], i)
          PROVE  Kept(sessions', act', b)
      <4>1. \A c \in Actor : ~ Condemns(act'[c], i)
        BY <2>3, <3>2 DEF Condemns
      <4>2. i \in OfType(sessions', "worktree") /\ sessions'[i].branch = b
        BY <1>1, <3>2 DEF Still, OfType
      <4>3. QED
        BY <4>1, <4>2 DEF Kept
    <3>3. ASSUME NEW c \in Actor, Making(act[c], b) PROVE Kept(sessions', act', b)
      <4>1. c # r /\ c # w
        BY <1>1, <1>5, <3>3 DEF Making
      <4>2. act'[c] = act[c]
        BY <2>2, <4>1
      <4>3. QED
        BY <3>3, <4>2 DEF Kept
    <3>4. QED
      BY <3>1, <3>2, <3>3 DEF Kept
  <2>5. project' = project /\ OwnWorktrees' = OwnWorktrees
    BY <1>1 DEF OwnWorktrees, git, history
  <2>6. QED
    BY <2>4, <2>5 DEF Owned
<1>6. QED
  BY <1>3, <1>4, <1>5 DEF StartHook, At

(* A prune condemns worktrees whose directory is gone.                     *)
LEMMA OwnedPruning ==
  ASSUME IInv, Owned, Remains, NEW a \in Actor, ReconcileStat(a)
  PROVE  Owned'
<1> DEFINE snap == act[a].snap
           plan == PlanWorktreePrune(snap, MissingIn(snap))
           new == [Forget(a) EXCEPT !.pc = "prune-kill", !.plan = plan,
                                    !.names = TmuxNames(snap, plan.delete)]
<1>1. /\ Sound /\ Carries(act[a]) /\ act[a].pc = "stat" /\ Still /\ Later
      /\ project' = project /\ onDisk' = onDisk
  BY StillIsSound DEF IInv, Actors, ReconcileStat, At, Still, records, git
<1>2. act[a].then \in {"idle", "read", "plan"}
  BY <1>1 DEF Carries
<1>3. OfType(sessions, "worktree") \subseteq DOMAIN sessions'
  BY <1>1 DEF OfType, Still
<1>4. CASE Become(a, [Forget(a) EXCEPT !.pc = act[a].then]) \/ EndRemoval(a)
  <2>1. Alone(a) /\ act'[a].pc \in {"idle", "read", "plan", "branch"}
    BY <1>2, <1>4, ForgettingLeads, EndingLeads
  <2>2. QED
    BY <1>1, <2>1, OwnedHarmlessly DEF Harmless
<1>5. CASE Become(a, new)
  <2>1. plan.delete \cap OfType(snap, "worktree") \subseteq MissingIn(snap)
        /\ plan.delete \subseteq DOMAIN snap
    BY PruneDeletes
  <2> HIDE DEF plan
  <2>2. new.pc = "prune-kill" /\ new.plan = plan
    BY <1>1 DEF Carries, Idle, Forget
  <2> HIDE DEF new
  <2>3. Alone(a) /\ act'[a] = new
    BY <1>5, BecomeLeads
  <2>4. ASSUME NEW i \in OfType(sessions, "worktree"), sessions[i].branch \in onDisk',
               Condemns(new, i)
        PROVE  FALSE
    <3>1. i \in DOMAIN snap /\ i \in plan.delete /\ i \in DOMAIN sessions
      BY <2>1, <2>2, <2>4 DEF Condemns, OfType
    <3>2. Same(snap[i], sessions[i])
      BY <1>1, <3>1 DEF Carries, Remembered
    <3>3. i \in MissingIn(snap)
      BY <2>1, <2>4, <3>1, <3>2 DEF Same, OfType
    <3>4. QED
      BY <1>1, <2>4, <3>2, <3>3 DEF MissingIn, Same
  <2>5. \A b : ~ Making(act[a], b)
    BY <1>1 DEF Making
  <2>6. QED
    BY <1>1, <1>3, <2>3, <2>4, <2>5, OwnedAfter
<1>6. QED
  BY <1>4, <1>5 DEF ReconcileStat

(* Carrying out a plan deletes records of the plan only.                   *)
LEMMA RewriteSpares ==
  ASSUME NEW plan, Rewrite(plan)
  PROVE  DOMAIN sessions \ plan.delete \subseteq DOMAIN sessions'
BY DEF Rewrite, Carried

(* A removal or prune goes on: the records it forgets were condemned.      *)
LEMMA OwnedRemoving ==
  ASSUME IInv, Owned, Remains, Later, NEW a \in Actor,
         PruneKill(a) \/ PruneWrite(a) \/ Kill(a) \/ Write(a)
  PROVE  Owned'
<1>1. /\ project' = project /\ onDisk' = onDisk
      /\ act[a].pc \in {"prune-kill", "prune-write", "kill", "write"}
  BY DEF PruneKill, PruneWrite, Kill, Write, records, git, At
<1>2. act[a].then \in {"idle", "read", "plan"}
  BY DEF IInv, Actors, Carries
<1>3. /\ Alone(a)
      /\ \/ act'[a].pc \in {"prune-write", "write"} /\ act'[a].plan = act[a].plan
         \/ act'[a].pc \in {"idle", "read", "plan", "branch"}
  <2>1. CASE PruneKill(a) \/ Kill(a)
    BY <2>1, GotoLeads, EndingLeads DEF PruneKill, Kill
  <2>2. CASE PruneWrite(a) \/ Write(a)
    BY <1>2, <2>2, ForgettingLeads, EndingLeads DEF PruneWrite, Write
  <2>3. QED
    BY <2>1, <2>2
<1>4. \A i : Condemns(act'[a], i) => Condemns(act[a], i)
  BY <1>1, <1>3 DEF Condemns
<1>5. \A i \in OfType(sessions, "worktree") \ DOMAIN sessions' : Condemns(act[a], i)
  <2>1. CASE PruneKill(a) \/ Kill(a)
    BY <2>1 DEF PruneKill, Kill, records, OfType
  <2>2. CASE PruneWrite(a) \/ Write(a)
    <3>1. DOMAIN sessions \ act[a].plan.delete \subseteq DOMAIN sessions'
      BY <2>2, RewriteSpares DEF PruneWrite, Write
    <3>2. QED
      BY <1>1, <3>1 DEF OfType, Condemns
  <2>3. QED
    BY <2>1, <2>2
<1>6. QED
  BY <1>1, <1>3, <1>4, <1>5, OwnedCalmly

(* The deletion of a secondary condemns no worktree; that of a worktree    *)
(* condemns it when it has removed it.                                     *)
LEMMA OwnedPlanning ==
  ASSUME IInv, Owned, Remains, NEW a \in Actor, DeletePlan(a)
  PROVE  Owned'
<1> DEFINE id == act[a].id
           type == IF id \in DOMAIN sessions THEN sessions[id].type ELSE "main"
           plan == CASE type = "worktree" -> PlanWorktreeRemoval(sessions, id)
                     [] type = "secondary" -> PlanSecondaryRemoval(sessions, id)
                     [] OTHER -> NoPlan
           branch == IF type = "worktree" THEN sessions[id].branch ELSE act[a].branch
           pc == IF type = "worktree" THEN "remove" ELSE "kill"
           new == [act[a] EXCEPT !.pc = pc, !.plan = plan,
                                 !.names = TmuxNames(sessions, plan.delete), !.branch = branch]
<1>1. /\ Carries(act[a]) /\ act[a].pc = "plan" /\ Still /\ Later
      /\ project' = project /\ onDisk' = onDisk /\ (Become(a, new) \/ EndRemoval(a))
  BY StillIsSound DEF IInv, Actors, DeletePlan, At, Still, records, git
<1>2. OfType(sessions, "worktree") \subseteq DOMAIN sessions'
  BY <1>1 DEF OfType, Still
<1>3. pc = "kill" => plan.delete \cap OfType(sessions, "worktree") = {}
  <2>1. CASE type = "worktree"
    BY <2>1
  <2>2. CASE type = "secondary"
    <3>1. plan = PlanSecondaryRemoval(sessions, id)
      BY <2>2
    <3>2. QED
      BY <3>1, SecondaryRemovalDeletes DEF OfType
  <2>3. CASE type \notin {"worktree", "secondary"}
    BY <2>3 DEF NoPlan
  <2>4. QED
    BY <2>1, <2>2, <2>3
<1>4. CASE EndRemoval(a)
  BY <1>1, <1>4, EndingLeads, OwnedHarmlessly DEF Harmless
<1>5. CASE Become(a, new)
  <2> HIDE DEF plan
  <2>1. new.pc = pc /\ new.plan = plan
    BY <1>1 DEF Carries, Idle
  <2> HIDE DEF new
  <2>2. Alone(a) /\ act'[a] = new
    BY <1>5, BecomeLeads
  <2>3. \A i \in OfType(sessions, "worktree") : ~ Condemns(act'[a], i)
    BY <1>3, <2>1, <2>2 DEF Condemns
  <2>4. act[a].pc \notin {"tmux", "record", "rollback"}
    BY <1>1
  <2>5. QED
    BY <1>1, <1>2, <2>2, <2>3, <2>4, OwnedCalmly
<1>6. QED
  BY <1>1, <1>4, <1>5

(* A deletion condemns a record once the worktree is gone.                 *)
LEMMA OwnedRemovingWorktree ==
  ASSUME IInv, Knowing, Owned, Remains, NEW a \in Actor, RemoveWorktree(a)
  PROVE  Owned'
<1>1. /\ act[a].pc = "remove" /\ Still /\ Later /\ project' = project
      /\ \/ /\ Goto(a, "kill") /\ onDisk' = onDisk \ {act[a].branch}
         \/ EndRemoval(a) /\ onDisk' = onDisk
  BY StillIsSound DEF IInv, RemoveWorktree, WithoutWorktree, At, Still, records, git
<1>2. OfType(sessions, "worktree") \subseteq DOMAIN sessions'
  BY <1>1 DEF OfType, Still
<1>3. \A i \in act[a].plan.delete \cap OfType(sessions, "worktree") :
        sessions[i].branch = act[a].branch
  BY <1>1 DEF Knowing, Knows, KnowsPlan
<1>4. CASE EndRemoval(a) /\ onDisk' = onDisk
  BY <1>1, <1>4, EndingLeads, OwnedHarmlessly DEF Harmless
<1>5. CASE Goto(a, "kill") /\ onDisk' = onDisk \ {act[a].branch}
  <2>1. Alone(a) /\ act'[a].pc = "kill" /\ act'[a].plan = act[a].plan
    BY <1>5, GotoLeads
  <2>2. \A i \in OfType(sessions, "worktree") :
          sessions[i].branch \in onDisk' => ~ Condemns(act'[a], i)
    BY <1>3, <1>5, <2>1 DEF Condemns
  <2>3. \A b : ~ Making(act[a], b)
    BY <1>1 DEF Making
  <2>4. QED
    BY <1>1, <1>2, <1>5, <2>1, <2>2, <2>3, OwnedAfter
<1>6. QED
  BY <1>1, <1>4, <1>5

(* Secondaries, and the end of the Project, which owns no worktree.        *)
LEMMA OwnedElsewhere ==
  ASSUME IInv, Owned, Remains, Later, NEW a \in Actor,
         NestTmux(a) \/ NestRecord(a) \/ ProjectKill(a) \/ ProjectWrite(a)
  PROVE  Owned'
<1>1. CASE ProjectWrite(a)
  BY <1>1 DEF ProjectWrite, Owned
<1>2. CASE NestTmux(a) \/ NestRecord(a) \/ ProjectKill(a)
  <2>1. /\ project' = project /\ onDisk' = onDisk
        /\ act[a].pc \in {"nest-tmux", "nest-record", "project-kill"}
    BY <1>2 DEF NestTmux, NestRecord, ProjectKill, AddRecord, records, git, At
  <2>2. Alone(a) /\ act'[a].pc \in {"nest-record", "idle", "project-write"}
    BY <1>2, GotoLeads, IdleLeads DEF NestTmux, NestRecord, ProjectKill
  <2>3. \A i : ~ Condemns(act'[a], i)
    BY <2>2 DEF Condemns
  <2>4. OfType(sessions, "worktree") \subseteq DOMAIN sessions'
    BY <1>2 DEF NestTmux, NestRecord, ProjectKill, AddRecord, records, OfType
  <2>5. act[a].pc \notin {"tmux", "record", "rollback"}
    BY <2>1
  <2>6. QED
    BY <2>1, <2>2, <2>3, <2>4, <2>5, OwnedCalmly
<1>3. QED
  BY <1>1, <1>2

(* Every step keeps the worktrees owned.                                   *)
LEMMA EveryStepOwns == IInv /\ Knowing /\ Owned /\ [Next]_vars => Owned'
<1> SUFFICES ASSUME IInv, Knowing, Owned, [Next]_vars PROVE Owned'
  OBVIOUS
<1> Remains
  BY StepRemains
<1>1. Request \subseteq Actor /\ Worker \subseteq Actor /\ Sound
  BY DEF Actor, IInv
<1>2. CASE \E r \in Request : Starts(r)
  BY <1>1, <1>2, StartLeads, OwnedHarmlessly
<1>3. ASSUME NEW a \in Actor, Steps(a) PROVE Owned'
  <2>1. Later
    BY <1>3, StepsAge
  <2>2. CASE \/ ReconcileRead(a) \/ ReadState(a) \/ Reserve(a) \/ DeleteBranch(a) \/ Nest(a)
             \/ ProjectRead(a)
    BY <2>2, LeadsToHarmless, OwnedHarmlessly
  <2>3. CASE \/ CheckGit(a) \/ AddWorktree(a) \/ CreateTmux(a) \/ Rollback(a) \/ WriteRecord(a)
             \/ StartHook(a)
    BY <2>3, OwnedCreating, OwnedRecording, OwnedHooking
  <2>4. CASE \/ Materialize(a) \/ Declare(a) \/ Unwind(a) \/ UnwindRecord(a) \/ Undo(a)
             \/ UndoRecord(a)
    BY <2>1, <2>4, OwnedSettling, OwnedUndoing
  <2>5. CASE \/ ReconcileStat(a) \/ PruneKill(a) \/ PruneWrite(a) \/ DeletePlan(a)
             \/ RemoveWorktree(a) \/ Kill(a) \/ Write(a)
    BY <2>1, <2>5, OwnedPruning, OwnedRemoving, OwnedPlanning, OwnedRemovingWorktree
  <2>6. CASE NestTmux(a) \/ NestRecord(a) \/ ProjectKill(a) \/ ProjectWrite(a)
    BY <2>1, <2>6, OwnedElsewhere
  <2>7. QED
    BY <1>3, <2>2, <2>3, <2>4, <2>5, <2>6 DEF Steps
<1>4. ASSUME NEW a \in Actor, Locks(a) PROVE Owned'
  <2>1. CASE DeleteLocks(a)
    BY <2>1, LeadsToHarmless, OwnedHarmlessly
  <2>2. CASE Finalize(a)
    BY <1>1, <2>2, StillIsSound, OwnedSettling DEF Finalize, Still, records
  <2>3. QED
    BY <1>4, <2>1, <2>2 DEF Locks
<1>5. CASE \E w \in Worker : HookSucceeds(w) \/ HookFails(w)
  BY <1>1, <1>5, LeadsToHarmless, OwnedHarmlessly
<1>6. CASE UNCHANGED <<project, sessions, act>> /\ onDisk' \subseteq onDisk
  <2>1. OwnWorktrees' \subseteq OwnWorktrees
    BY <1>6 DEF OwnWorktrees, Remains
  <2>2. QED
    BY <1>6, <2>1 DEF Owned, Kept
<1>7. CASE (\E b \in Branch : DirectoryVanishes(b)) \/ (\E name \in tmux : TmuxExits(name))
  BY <1>6, <1>7 DEF DirectoryVanishes, TmuxExits, records, git
<1>8. CASE UNCHANGED vars
  BY <1>6, <1>8 DEF vars, records, git
<1>9. QED
  BY <1>2, <1>3, <1>4, <1>5, <1>7, <1>8 DEF Next

(* While nothing is in flight nobody condemns a record and nobody is about *)
(* to record a worktree.                                                   *)
LEMMA OwnedIsRecorded == Owned => WorktreesStayRecorded
<1> SUFFICES ASSUME Owned, Quiet, project, NEW b \in OwnWorktrees PROVE b \in Recorded
  BY DEF WorktreesStayRecorded
<1>1. \A a \in Actor : act[a].pc = "idle"
  BY DEF Quiet, Idle
<1>2. \A a \in Actor : ~ Making(act[a], b)
  BY <1>1 DEF Making
<1>3. QED
  BY <1>2 DEF Owned, Kept, Recorded

(* Every worktree the Daemon added has an owner, in every run.             *)
LEMMA AlwaysOwned == Spec => []Owned
<1>1. Init => Owned
  BY DEF Init, Owned, OwnWorktrees
<1>2. IInv /\ Knowing /\ Owned /\ [Next]_vars => Owned'
  BY EveryStepOwns
<1>3. QED
  BY <1>1, <1>2, AlwaysKnowing, PTL DEF Spec

(* A worktree the Daemon added belongs to a record when nothing is in      *)
(* flight, as long as the Project does, unless the rollback of a failed    *)
(* creation could not remove it: for every number of requests and setups,  *)
(* and whatever fails or vanishes.  No deletion, cleanup or prune leaves   *)
(* one behind.                                                             *)
THEOREM WorktreesAlwaysRecorded == Spec => []WorktreesStayRecorded
BY AlwaysOwned, OwnedIsRecorded, PTL

------------------------------------------------------------------------------
(* Sessions on the tmux server.                                            *)

(* It is enough to look at the one actor that moves.                       *)
LEMMA NamedAfter ==
  ASSUME IInv, Named, Later, NEW a \in Actor, Alone(a),
         \A n \in tmux' \ tmux : Bears(act'[a], n),
         \A i \in DOMAIN sessions :
           sessions[i].tmux \in tmux' /\ ~ Forgets(act[a], i) =>
             i \in DOMAIN sessions' /\ ~ Forgets(act'[a], i),
         \A n \in tmux' : Bears(act[a], n) => Known(sessions', act', n)
  PROVE  Named'
<1>1. SUFFICES ASSUME NEW n \in tmux' PROVE Known(sessions', act', n)
  BY DEF Named
<1>2. CASE n \notin tmux
  BY <1>1, <1>2 DEF Known
<1>3. CASE n \in tmux
  <2>1. Known(sessions, act, n)
    BY <1>3 DEF Named
  <2>2. ASSUME NEW i \in DOMAIN sessions, sessions[i].tmux = n,
               \A c \in Actor : ~ Forgets(act[c], i)
        PROVE  Known(sessions', act', n)
    <3>1. i \in DOMAIN sessions' /\ ~ Forgets(act'[a], i)
      BY <1>1, <2>2
    <3>2. sessions'[i].tmux = n
      BY <2>2, <3>1 DEF Later, Same
    <3>3. \A c \in Actor : ~ Forgets(act'[c], i)
      BY <2>2, <3>1 DEF Alone
    <3>4. QED
      BY <3>1, <3>2, <3>3 DEF Known
  <2>3. ASSUME NEW c \in Actor, Bears(act[c], n) PROVE Known(sessions', act', n)
    <3>1. CASE c = a
      BY <1>1, <2>3, <3>1
    <3>2. CASE c # a
      BY <2>3, <3>2 DEF Alone, Known
    <3>3. QED
      BY <3>1, <3>2
  <2>4. QED
    BY <2>1, <2>2, <2>3 DEF Known
<1>4. QED
  BY <1>2, <1>3

(* The places where a tmux session is borne or a record forgotten.         *)
Telling == {"prune-write", "write", "project-write", "undo-record", "unwind-record",
            "record", "declare", "nest-record"}

(* Elsewhere nothing is forgotten or borne.                                *)
LEMMA SilentTellsNone ==
  ASSUME NEW state, state.pc \notin Telling
  PROVE  (\A i : ~ Forgets(state, i)) /\ (\A n : ~ Bears(state, n))
BY DEF Telling, Forgets, Bears

(* A step between such places.                                             *)
LEMMA NamedSilently ==
  ASSUME IInv, Named, NEW a \in Actor, Alone(a), act[a].pc \notin Telling,
         act'[a].pc \notin Telling, Still, tmux' \subseteq tmux
  PROVE  Named'
<1>1. Later
  BY StillIsSound DEF IInv
<1>2. QED
  BY <1>1, SilentTellsNone, NamedAfter DEF Still

(* A step from one harmless place to another.                              *)
LEMMA HarmlessIsSilent ==
  ASSUME IInv, Named, NEW a \in Actor, Alone(a), act[a].pc \in Harmless, act'[a].pc \in Harmless,
         Still, tmux' = tmux
  PROVE  Named'
<1>1. Harmless \cap Telling = {}
  BY DEF Harmless, Telling
<1>2. QED
  BY <1>1, NamedSilently

(* These steps leave and reach no other.                                   *)
LEMMA LeadsSilently ==
  ASSUME IInv, NEW a \in Actor,
         \/ ReconcileStat(a) \/ CheckGit(a) \/ AddWorktree(a) \/ Rollback(a) \/ DeletePlan(a)
         \/ RemoveWorktree(a) \/ Finalize(a)
  PROVE  Alone(a) /\ act[a].pc \notin Telling /\ act'[a].pc \notin Telling /\ Still /\ tmux' = tmux
<1>1. Still /\ tmux' = tmux
  BY DEF Still, records, ReconcileStat, CheckGit, AddWorktree, Rollback, DeletePlan,
         RemoveWorktree, Finalize
<1>2. act[a].pc \notin Telling
  BY DEF At, Telling, ReconcileStat, CheckGit, AddWorktree, Rollback, DeletePlan,
         RemoveWorktree, Finalize
<1>3. DOMAIN act[a] = DOMAIN Idle /\ act[a].then \in {"idle", "read", "plan"}
  BY DEF IInv, Actors, Carries
<1>4. CASE ReconcileStat(a)
  <2>1. ASSUME NEW p, NEW n,
               Become(a, [Forget(a) EXCEPT !.pc = "prune-kill", !.plan = p, !.names = n])
        PROVE  Alone(a) /\ act'[a].pc = "prune-kill"
    <3>1. [Forget(a) EXCEPT !.pc = "prune-kill", !.plan = p, !.names = n].pc = "prune-kill"
      BY <1>3 DEF Idle, Forget
    <3>2. QED
      BY <2>1, <3>1, BecomeLeads
  <2>2. Alone(a) /\ act'[a].pc \in {"idle", "read", "plan", "prune-kill", "branch"}
    BY <1>3, <1>4, <2>1, ForgettingLeads, EndingLeads DEF ReconcileStat
  <2>3. QED
    BY <1>1, <1>2, <2>2 DEF Telling
<1>5. CASE DeletePlan(a)
  <2>1. ASSUME NEW p, NEW n, NEW b, NEW pc \in {"remove", "kill"},
               Become(a, [act[a] EXCEPT !.pc = pc, !.plan = p, !.names = n, !.branch = b])
        PROVE  Alone(a) /\ act'[a].pc = pc
    <3>1. [act[a] EXCEPT !.pc = pc, !.plan = p, !.names = n, !.branch = b].pc = pc
      BY <1>3 DEF Idle
    <3>2. QED
      BY <2>1, <3>1, BecomeLeads
  <2>2. Alone(a) /\ act'[a].pc \in {"remove", "kill", "branch", "idle"}
    BY <1>5, <2>1, EndingLeads DEF DeletePlan
  <2>3. QED
    BY <1>1, <1>2, <2>2 DEF Telling
<1>6. CASE CheckGit(a)
  <2>1. Goto(a, "tmux") \/ Goto(a, "add") \/ Become(a, Idle)
    BY <1>6 DEF CheckGit, FinishCreation
  <2>2. Alone(a) /\ act'[a].pc \in {"tmux", "add", "idle"}
    BY <2>1, GotoLeads, IdleLeads
  <2>3. QED
    BY <1>1, <1>2, <2>2 DEF Telling
<1>7. CASE AddWorktree(a) \/ RemoveWorktree(a) \/ Rollback(a) \/ Finalize(a)
  <2>1. Alone(a) /\ act'[a].pc \in {"tmux", "rollback", "kill", "branch", "idle", "materialize"}
    BY <1>7, GotoLeads, IdleLeads, EndingLeads
       DEF AddWorktree, RemoveWorktree, Rollback, Finalize, FinishCreation
  <2>2. QED
    BY <1>1, <1>2, <2>1 DEF Telling
<1>8. QED
  BY <1>4, <1>5, <1>6, <1>7

(* What is killed is gone.                                                 *)
LEMMA KilledGo ==
  ASSUME NEW names
  PROVE  Killed(names) \subseteq tmux \ names
BY DEF Killed

(* A record is forgotten after its tmux session was killed, unless kills   *)
(* fail.                                                                   *)
LEMMA NamedKilling ==
  ASSUME IInv, Knowing, Named, "kill" \notin Failing, NEW a \in Actor,
         PruneKill(a) \/ Kill(a) \/ ProjectKill(a) \/ Undo(a) \/ Unwind(a)
  PROVE  Named'
<1>1. Still /\ Later
  BY StillIsSound DEF IInv, PruneKill, Kill, ProjectKill, Undo, Unwind, Still, records
<1>2. act[a].pc \notin Telling
  BY DEF At, Telling, PruneKill, Kill, ProjectKill, Undo, Unwind
<1>3. Knows(sessions, nextID, act[a])
  BY DEF Knowing
<1>4. ASSUME NEW names, tmux' = Killed(names), Alone(a),
             \A i \in DOMAIN sessions : Forgets(act'[a], i) => sessions[i].tmux \in names
      PROVE  Named'
  <2>1. tmux' \subseteq tmux \ names
    BY <1>4, KilledGo
  <2>2. QED
    BY <1>1, <1>2, <1>4, <2>1, SilentTellsNone, NamedAfter DEF Still
<1>5. CASE PruneKill(a) \/ Kill(a) \/ ProjectKill(a)
  <2>1. /\ tmux' = Killed(act[a].names) /\ act[a].pc \in Killing
        /\ Goto(a, "prune-write") \/ Goto(a, "write") \/ Goto(a, "project-write")
    BY <1>5 DEF PruneKill, Kill, ProjectKill, KillBestEffort, KillsSome, At, Killing
  <2>2. /\ Alone(a) /\ act'[a].pc \in {"prune-write", "write", "project-write"}
        /\ act'[a].plan = act[a].plan
    BY <2>1, GotoLeads
  <2>3. \A i \in act[a].plan.delete \cap DOMAIN sessions : sessions[i].tmux \in act[a].names
    BY <1>3, <2>1 DEF Knows, KnowsPlan
  <2>4. QED
    BY <1>4, <2>1, <2>2, <2>3 DEF Forgets
<1>6. CASE Undo(a)
  <2>1. tmux' = Killed({<<act[a].branch>>}) /\ Goto(a, "undo-record") /\ act[a].pc = "undo"
    BY <1>6 DEF Undo, KillBestEffort, KillsSome, At
  <2>2. Alone(a) /\ act'[a].pc = "undo-record" /\ act'[a].id = act[a].id
    BY <2>1, GotoLeads
  <2>3. act[a].id \in DOMAIN sessions => sessions[act[a].id].tmux = <<act[a].branch>>
    BY <1>3, <2>1 DEF Knows, KnowsSession, Settling
  <2>4. QED
    BY <1>4, <2>1, <2>2, <2>3 DEF Forgets
<1>7. CASE Unwind(a)
  <2> DEFINE made == act[a].made
             name == <<act[a].branch, Len(made)>>
  <2>1. tmux' = Killed({name}) /\ Goto(a, "unwind-record") /\ act[a].pc = "unwind"
    BY <1>7 DEF Unwind, KillBestEffort, KillsSome, At, DeclaredTmux
  <2>2. Alone(a) /\ act'[a].pc = "unwind-record" /\ act'[a].made = made
    BY <2>1, GotoLeads
  <2>3. /\ made \in Seq(Int) /\ made # <<>>
        /\ \A n \in 1 .. Len(made) :
             made[n] \in DOMAIN sessions => sessions[made[n]].tmux = <<act[a].branch, n>>
    BY <1>3, <2>1 DEF Knows, KnowsMade, Settling
  <2> HIDE DEF made
  <2>4. Last(made) \in DOMAIN sessions => sessions[Last(made)].tmux = name
    BY <2>3 DEF Last
  <2> HIDE DEF name
  <2>5. \A i \in DOMAIN sessions : Forgets(act'[a], i) => sessions[i].tmux \in {name}
    BY <2>2, <2>4 DEF Forgets
  <2>6. QED
    BY <1>4, <2>1, <2>2, <2>5
<1>8. QED
  BY <1>5, <1>6, <1>7

(* Then only what was to be forgotten is.                                  *)
LEMMA NamedForgetting ==
  ASSUME IInv, Named, Later, NEW a \in Actor,
         \/ PruneWrite(a) \/ Write(a) \/ ProjectWrite(a) \/ UndoRecord(a) \/ UnwindRecord(a)
  PROVE  Named'
<1>1. /\ tmux' = tmux
      /\ act[a].pc \in {"prune-write", "write", "project-write", "undo-record", "unwind-record"}
  BY DEF PruneWrite, Write, ProjectWrite, UndoRecord, UnwindRecord, At
<1>2. \A n : ~ Bears(act[a], n)
  BY <1>1 DEF Bears
<1>3. act[a].then \in {"idle", "read", "plan"} /\ DOMAIN act[a] = DOMAIN Idle
  BY DEF IInv, Actors, Carries
<1>4. Alone(a) /\ act'[a].pc \notin Telling
  <2>1. CASE PruneWrite(a) \/ Write(a) \/ ProjectWrite(a) \/ UndoRecord(a)
    <3>1. Alone(a) /\ act'[a].pc \in {"idle", "read", "plan", "branch", "rollback"}
      BY <1>3, <2>1, ForgettingLeads, EndingLeads, IdleLeads, GotoLeads
         DEF PruneWrite, Write, ProjectWrite, UndoRecord
    <3>2. QED
      BY <3>1 DEF Telling
  <2>2. CASE UnwindRecord(a)
    <3> DEFINE last == [act[a] EXCEPT !.made = Front(act[a].made)]
    <3>1. PICK new : /\ Become(a, new)
                     /\ new \in {[last EXCEPT !.pc = "unwind"], [last EXCEPT !.pc = "undo"],
                                 [last EXCEPT !.pc = "lock", !.force = TRUE, !.undo = TRUE]}
      BY <2>2 DEF UnwindRecord
    <3>2. new.pc \in {"unwind", "undo", "lock"}
      BY <1>3, <3>1 DEF Idle
    <3>3. QED
      BY <3>1, <3>2, BecomeLeads DEF Telling
  <2>3. QED
    BY <2>1, <2>2
<1>5. \A i \in DOMAIN sessions \ DOMAIN sessions' : Forgets(act[a], i)
  <2>1. CASE PruneWrite(a) \/ Write(a)
    <3>1. DOMAIN sessions \ act[a].plan.delete \subseteq DOMAIN sessions'
      BY <2>1, RewriteSpares DEF PruneWrite, Write
    <3>2. act[a].pc \in {"prune-write", "write"}
      BY <2>1 DEF PruneWrite, Write, At
    <3>3. QED
      BY <3>1, <3>2 DEF Forgets
  <2>2. CASE ProjectWrite(a)
    BY <2>2 DEF ProjectWrite, At, Forgets
  <2>3. CASE UndoRecord(a)
    BY <2>3 DEF UndoRecord, DeleteRecords, At, Forgets
  <2>4. CASE UnwindRecord(a)
    BY <2>4 DEF UnwindRecord, DeleteRecords, At, Forgets
  <2>5. QED
    BY <2>1, <2>2, <2>3, <2>4
<1>6. \A i : ~ Forgets(act'[a], i)
  BY <1>4, SilentTellsNone
<1>7. QED
  BY <1>1, <1>2, <1>4, <1>5, <1>6, NamedAfter

(* A tmux session is made by an actor that will record it next.            *)
LEMMA NamedBearing ==
  ASSUME IInv, Named, NEW a \in Actor, CreateTmux(a) \/ Materialize(a) \/ NestTmux(a)
  PROVE  Named'
<1>1. Still /\ Later
  BY StillIsSound DEF IInv, CreateTmux, Materialize, NestTmux, Still, records
<1>2. act[a].pc \in {"tmux", "materialize", "nest-tmux"}
  BY DEF At, CreateTmux, Materialize, NestTmux
<1>3. act[a].pc \notin Telling
  BY <1>2 DEF Telling
<1>4. CASE Alone(a) /\ act'[a].pc \notin Telling /\ tmux' = tmux
  BY <1>1, <1>3, <1>4, NamedSilently
<1>5. ASSUME Alone(a), act'[a].pc \in {"record", "declare", "nest-record"},
             NEW names, tmux' = tmux \cup names, \A n \in names : Bears(act'[a], n)
      PROVE  Named'
  <2>1. \A i : ~ Forgets(act'[a], i)
    BY <1>5 DEF Forgets
  <2>2. QED
    BY <1>1, <1>3, <1>5, <2>1, SilentTellsNone, NamedAfter DEF Still
<1>6. CASE CreateTmux(a)
  <2>1. \/ tmux' = tmux \cup {<<act[a].branch>>} /\ Goto(a, "record")
        \/ tmux' = tmux /\ Goto(a, "rollback")
    BY <1>6 DEF CreateTmux
  <2>2. CASE tmux' = tmux \cup {<<act[a].branch>>} /\ Goto(a, "record")
    <3>1. Alone(a) /\ act'[a].pc = "record" /\ act'[a].branch = act[a].branch
      BY <2>2, GotoLeads
    <3> DEFINE names == {<<act[a].branch>>}
    <3>2. (\A n \in names : Bears(act'[a], n)) /\ tmux' = tmux \cup names
      BY <2>2, <3>1 DEF Bears
    <3> HIDE DEF names
    <3>3. QED
      BY <1>5, <3>1, <3>2
  <2>3. CASE tmux' = tmux /\ Goto(a, "rollback")
    BY <1>4, <2>3, GotoLeads DEF Telling
  <2>4. QED
    BY <2>1, <2>2, <2>3
<1>7. CASE Materialize(a)
  <2> DEFINE name == DeclaredTmux(a, Len(act[a].made) + 1)
  <2>1. \/ tmux' = tmux \cup {name} /\ Goto(a, "declare")
        \/ tmux' = tmux /\ (\/ Become(a, Idle) \/ Goto(a, "undo") \/ Goto(a, "unwind")
                            \/ CleanUp(a))
    BY <1>7 DEF Materialize, FinishCreation, Abandon
  <2>2. CASE tmux' = tmux \cup {name} /\ Goto(a, "declare")
    <3>1. /\ Alone(a) /\ act'[a].pc = "declare" /\ act'[a].branch = act[a].branch
          /\ act'[a].made = act[a].made
      BY <2>2, GotoLeads
    <3> DEFINE names == {name}
    <3>2. (\A n \in names : Bears(act'[a], n)) /\ tmux' = tmux \cup names
      BY <2>2, <3>1 DEF Bears, DeclaredTmux
    <3> HIDE DEF names
    <3>3. QED
      BY <1>5, <3>1, <3>2
  <2>3. CASE tmux' = tmux /\ (\/ Become(a, Idle) \/ Goto(a, "undo") \/ Goto(a, "unwind")
                              \/ CleanUp(a))
    <3>1. Alone(a) /\ act'[a].pc \in {"idle", "undo", "unwind", "lock"}
      BY <2>3, IdleLeads, GotoLeads, CleaningLeads
    <3>2. QED
      BY <1>4, <2>3, <3>1 DEF Telling
  <2>4. QED
    BY <2>1, <2>2, <2>3
<1>8. CASE NestTmux(a)
  <2>1. \/ tmux' = tmux \cup act[a].names /\ Goto(a, "nest-record")
        \/ tmux' = tmux /\ Become(a, Idle)
    BY <1>8 DEF NestTmux
  <2>2. CASE tmux' = tmux \cup act[a].names /\ Goto(a, "nest-record")
    <3>1. Alone(a) /\ act'[a].pc = "nest-record" /\ act'[a].names = act[a].names
      BY <2>2, GotoLeads
    <3>2. \A n \in act[a].names : Bears(act'[a], n)
      BY <3>1 DEF Bears
    <3>3. QED
      BY <1>5, <2>2, <3>1, <3>2
  <2>3. CASE tmux' = tmux /\ Become(a, Idle)
    BY <1>4, <2>3, IdleLeads DEF Telling
  <2>4. QED
    BY <2>1, <2>2, <2>3
<1>9. QED
  BY <1>6, <1>7, <1>8

(* Nobody forgets an id that has just been issued.                         *)
LEMMA NewIsNotForgotten ==
  ASSUME IInv, Knowing, NEW c \in Actor
  PROVE  ~ Forgets(act[c], nextID)
<1>1. nextID \in Int /\ Issued(act[c].id) /\ Knows(sessions, nextID, act[c])
  BY DEF IInv, Actors, Sound, Counted, Knowing
<1>2. \A i \in act[c].plan.delete : i < nextID
  BY <1>1 DEF Knows, KnowsPlan
<1>3. act[c].pc = "unwind-record" => Last(act[c].made) < nextID
  <2> DEFINE made == act[c].made
  <2>1. SUFFICES ASSUME act[c].pc = "unwind-record" PROVE Last(made) < nextID
    OBVIOUS
  <2>2. /\ made \in Seq(Int) /\ made # <<>>
        /\ \A n \in 1 .. Len(made) : made[n] < nextID
    BY <1>1, <2>1 DEF Knows, KnowsMade
  <2> HIDE DEF made
  <2>3. QED
    BY <2>2 DEF Last
<1>4. QED
  BY <1>1, <1>2, <1>3 DEF Forgets, Issued

(* The record bears the name from then on.                                 *)
LEMMA NamedRecording ==
  ASSUME IInv, Knowing, Named, NEW a \in Actor, Alone(a), act'[a].pc \notin Telling, tmux' = tmux,
         NEW record, AddRecord(record), \A n : Bears(act[a], n) => n = record.tmux
  PROVE  Named'
<1>1. /\ Later /\ DOMAIN sessions' = DOMAIN sessions \cup {nextID}
      /\ sessions'[nextID] = record
  BY AddingRecord DEF IInv
<1>2. \A i : ~ Forgets(act'[a], i)
  BY SilentTellsNone
<1>3. \A c \in Actor : ~ Forgets(act'[c], nextID)
  BY <1>2, NewIsNotForgotten DEF Alone
<1>4. \A n \in tmux' : Bears(act[a], n) => Known(sessions', act', n)
  BY <1>1, <1>3 DEF Known
<1>5. QED
  BY <1>1, <1>2, <1>4, NamedAfter

(* The records of what an actor bore.                                      *)
LEMMA NamedWriting ==
  ASSUME IInv, Knowing, Named, NEW a \in Actor, WriteRecord(a) \/ Declare(a) \/ NestRecord(a)
  PROVE  Named'
<1>1. tmux' = tmux /\ DOMAIN act[a] = DOMAIN Idle
  BY DEF IInv, Actors, Carries, WriteRecord, Declare, NestRecord
<1>2. CASE WriteRecord(a)
  <2> DEFINE record == [type |-> "worktree", parent |-> act[a].parent, onDelete |-> "cascade",
                        branch |-> act[a].branch, name |-> 1, tmux |-> <<act[a].branch>>]
             pc == IF act[a].mode = "adopt" THEN "materialize" ELSE "hook"
             new == [act[a] EXCEPT !.id = nextID, !.pc = pc]
  <2>1. AddRecord(record) /\ act[a].pc = "record" /\ Become(a, new)
    BY <1>2 DEF WriteRecord, At
  <2>2. new.pc \in {"materialize", "hook"}
    BY <1>1 DEF Idle
  <2> HIDE DEF new
  <2>3. Alone(a) /\ act'[a].pc \notin Telling
    BY <2>1, <2>2, BecomeLeads DEF Telling
  <2>4. \A n : Bears(act[a], n) => n = record.tmux
    BY <2>1 DEF Bears
  <2> HIDE DEF record
  <2>5. QED
    BY <1>1, <2>1, <2>3, <2>4, NamedRecording
<1>3. CASE Declare(a)
  <2> DEFINE m == Len(act[a].made) + 1
             record == [type |-> "secondary", parent |-> act[a].id, onDelete |-> "cascade",
                        branch |-> NoBranch, name |-> m, tmux |-> DeclaredTmux(a, m)]
             new == [act[a] EXCEPT !.pc = "materialize", !.made = Append(act[a].made, nextID)]
  <2>1. AddRecord(record) /\ act[a].pc = "declare" /\ Become(a, new)
    BY <1>3 DEF Declare, At
  <2>2. new.pc = "materialize"
    BY <1>1 DEF Idle
  <2> HIDE DEF new
  <2>3. Alone(a) /\ act'[a].pc \notin Telling
    BY <2>1, <2>2, BecomeLeads DEF Telling
  <2>4. \A n : Bears(act[a], n) => n = record.tmux
    BY <2>1 DEF Bears, DeclaredTmux
  <2> HIDE DEF record
  <2>5. QED
    BY <1>1, <2>1, <2>3, <2>4, NamedRecording
<1>4. CASE NestRecord(a)
  <2>1. PICK name \in act[a].names :
          AddRecord([type |-> "secondary", parent |-> act[a].parent, onDelete |-> act[a].onDelete,
                     branch |-> NoBranch, name |-> Last(name), tmux |-> name])
    BY <1>4 DEF NestRecord
  <2> DEFINE record == [type |-> "secondary", parent |-> act[a].parent,
                        onDelete |-> act[a].onDelete,
                        branch |-> NoBranch, name |-> Last(name), tmux |-> name]
  <2>2. act[a].pc = "nest-record" /\ Alone(a) /\ act'[a].pc \notin Telling
    BY <1>4, IdleLeads DEF NestRecord, At, Telling
  <2>3. \A n \in act[a].names : n = name
    BY <2>1, <2>2 DEF Knowing, Knows, KnowsNested
  <2>4. \A n : Bears(act[a], n) => n = record.tmux
    BY <2>2, <2>3 DEF Bears
  <2>5. AddRecord(record)
    BY <2>1
  <2> HIDE DEF record
  <2>6. QED
    BY <1>1, <2>2, <2>4, <2>5, NamedRecording
<1>5. QED
  BY <1>2, <1>3, <1>4

(* The hand-over to the setup goroutine names nothing anew.                *)
LEMMA NamedHooking ==
  ASSUME IInv, Named, NEW r \in Actor, StartHook(r)
  PROVE  Named'
<1>1. Still /\ tmux' = tmux /\ act[r].pc = "hook" /\ DOMAIN act[r] = DOMAIN Idle
  BY DEF IInv, Actors, Carries, StartHook, Still, records, At
<1>2. CASE Goto(r, "materialize") \/ CleanUp(r)
  <2>1. Alone(r) /\ act'[r].pc \in {"materialize", "lock"}
    BY <1>2, GotoLeads, CleaningLeads
  <2>2. act[r].pc \notin Telling /\ act'[r].pc \notin Telling
    BY <1>1, <2>1 DEF Telling
  <2>3. QED
    BY <1>1, <2>1, <2>2, NamedSilently
<1>3. ASSUME NEW w \in Worker, act[w].pc = "idle",
             act' = [act EXCEPT ![r] = Idle,
                                ![w] = [Forget(r) EXCEPT !.pc = "running", !.then = "idle"]]
      PROVE  Named'
  <2> DEFINE new == [Forget(r) EXCEPT !.pc = "running", !.then = "idle"]
  <2>1. new.pc = "running" /\ Idle.pc = "idle"
    BY <1>1 DEF Idle, Forget
  <2>2. act' = [act EXCEPT ![r] = Idle, ![w] = new] /\ DOMAIN act = Actor /\ w \in Actor
    BY <1>3 DEF IInv, Actors, Actor
  <2> HIDE DEF new
  <2>3. act[r].pc \notin Telling /\ act[w].pc \notin Telling
    BY <1>1, <1>3 DEF Telling
  <2>4. \A c \in Actor : \/ act'[c] = act[c] /\ c # r /\ c # w
                         \/ act'[c].pc \notin Telling
    BY <2>1, <2>2 DEF Telling
  <2>5. ASSUME NEW n \in tmux PROVE Known(sessions', act', n)
    <3>1. Known(sessions, act, n)
      BY DEF Named
    <3>2. \A i : \A c \in Actor : Forgets(act'[c], i) => Forgets(act[c], i)
      BY <2>4, SilentTellsNone
    <3>3. \A c \in Actor : Bears(act[c], n) => act'[c] = act[c]
      BY <2>2, <2>3, SilentTellsNone
    <3>4. QED
      BY <1>1, <3>1, <3>2, <3>3 DEF Known, Still
  <2>6. QED
    BY <1>1, <2>5 DEF Named
<1>4. QED
  BY <1>2, <1>3 DEF StartHook, At

(* Where kills do not fail, every step keeps tmux sessions named.          *)
LEMMA EveryStepNames ==
  "kill" \notin Failing /\ IInv /\ Knowing /\ Named /\ [Next]_vars => Named'
<1> SUFFICES ASSUME "kill" \notin Failing, IInv, Knowing, Named, [Next]_vars PROVE Named'
  OBVIOUS
<1>1. Request \subseteq Actor /\ Worker \subseteq Actor
  BY DEF Actor
<1>2. CASE \E r \in Request : Starts(r)
  BY <1>1, <1>2, StartLeads, HarmlessIsSilent
<1>3. ASSUME NEW a \in Actor, Steps(a) PROVE Named'
  <2>1. Later
    BY <1>3, StepsAge
  <2>2. CASE \/ ReconcileRead(a) \/ ReadState(a) \/ Reserve(a) \/ DeleteBranch(a) \/ Nest(a)
             \/ ProjectRead(a)
    BY <2>2, LeadsToHarmless, HarmlessIsSilent
  <2>3. CASE \/ ReconcileStat(a) \/ CheckGit(a) \/ AddWorktree(a) \/ Rollback(a)
             \/ DeletePlan(a) \/ RemoveWorktree(a)
    <3>1. Alone(a) /\ act[a].pc \notin Telling /\ act'[a].pc \notin Telling /\ Still
          /\ tmux' = tmux
      BY <2>3, LeadsSilently
    <3>2. QED
      BY <3>1, NamedSilently
  <2>4. CASE PruneKill(a) \/ Kill(a) \/ ProjectKill(a) \/ Undo(a) \/ Unwind(a)
    BY <2>4, NamedKilling
  <2>5. CASE PruneWrite(a) \/ Write(a) \/ ProjectWrite(a) \/ UndoRecord(a) \/ UnwindRecord(a)
    BY <2>1, <2>5, NamedForgetting
  <2>6. CASE CreateTmux(a) \/ Materialize(a) \/ NestTmux(a)
    BY <2>6, NamedBearing
  <2>7. CASE WriteRecord(a) \/ Declare(a) \/ NestRecord(a) \/ StartHook(a)
    BY <2>7, NamedWriting, NamedHooking
  <2>8. QED
    BY <1>3, <2>2, <2>3, <2>4, <2>5, <2>6, <2>7 DEF Steps
<1>4. ASSUME NEW a \in Actor, Locks(a) PROVE Named'
  <2>1. CASE DeleteLocks(a)
    BY <2>1, LeadsToHarmless, HarmlessIsSilent
  <2>2. CASE Finalize(a)
    <3>1. Alone(a) /\ act[a].pc \notin Telling /\ act'[a].pc \notin Telling /\ Still
          /\ tmux' = tmux
      BY <2>2, LeadsSilently
    <3>2. QED
      BY <3>1, NamedSilently
  <2>3. QED
    BY <1>4, <2>1, <2>2 DEF Locks
<1>5. CASE \E w \in Worker : HookSucceeds(w) \/ HookFails(w)
  BY <1>1, <1>5, LeadsToHarmless, HarmlessIsSilent
<1>6. CASE UNCHANGED <<sessions, act>> /\ tmux' \subseteq tmux
  BY <1>6 DEF Named, Known
<1>7. CASE (\E b \in Branch : DirectoryVanishes(b)) \/ (\E name \in tmux : TmuxExits(name))
  BY <1>6, <1>7 DEF DirectoryVanishes, TmuxExits, records
<1>8. CASE UNCHANGED vars
  BY <1>6, <1>8 DEF vars, records
<1>9. QED
  BY <1>2, <1>3, <1>4, <1>5, <1>7, <1>8 DEF Next

(* At the start there is the Main Session.                                 *)
LEMMA InitNamed == Init => Named
<1> SUFFICES ASSUME Init, NEW n \in tmux PROVE Known(sessions, act, n)
  BY DEF Named
<1>1. MainID \in DOMAIN sessions /\ sessions[MainID].tmux = n
  BY DEF Init
<1>2. \A a \in Actor : act[a].pc = "idle"
  BY DEF Init, Idle
<1>3. \A a \in Actor : ~ Forgets(act[a], MainID)
  BY <1>2 DEF Forgets
<1>4. QED
  BY <1>1, <1>3 DEF Known

(* While nothing is in flight nothing is borne or forgotten.               *)
LEMMA NamedIsRecorded == Named => (Quiet => tmux \subseteq RecordedTmux)
<1> SUFFICES ASSUME Named, Quiet, NEW n \in tmux PROVE n \in RecordedTmux
  OBVIOUS
<1>1. \A a \in Actor : act[a].pc = "idle"
  BY DEF Quiet, Idle
<1>2. \A a \in Actor : ~ Bears(act[a], n)
  BY <1>1 DEF Bears
<1>3. QED
  BY <1>2 DEF Named, Known, RecordedTmux, TmuxNames

(* Every tmux session has a name that is known, where kills do not fail.   *)
LEMMA AlwaysNamed == "kill" \notin Failing => (Spec => []Named)
<1> SUFFICES ASSUME "kill" \notin Failing PROVE Spec => []Named
  OBVIOUS
<1>1. IInv /\ Knowing /\ Named /\ [Next]_vars => Named'
  BY EveryStepNames
<1>2. QED
  BY <1>1, InitNamed, AlwaysKnowing, PTL DEF Spec

(* When nothing is in flight, as long as the Project is there and kills do *)
(* not fail, no tmux session is without a record and no worktree the       *)
(* Daemon added but one a rollback could not remove: removals, creations   *)
(* and setups may fail at any step, and directories and tmux sessions may  *)
(* go by themselves.                                                       *)
THEOREM NothingLeftStray == "kill" \notin Failing => (Spec => [](project => NothingStray))
<1> SUFFICES ASSUME "kill" \notin Failing PROVE Spec => [](project => NothingStray)
  OBVIOUS
<1>1. Spec => []Named
  BY AlwaysNamed
<1>2. Named /\ WorktreesStayRecorded => (project => NothingStray)
  BY NamedIsRecorded DEF WorktreesStayRecorded, NothingStray
<1>3. QED
  BY <1>1, <1>2, WorktreesAlwaysRecorded, PTL

(* Where removals do not fail either there is no exception: every worktree *)
(* the Daemon added and every tmux session belongs to a record.            *)
THEOREM NothingLeftAtAll ==
  ASSUME {"kill", "remove"} \cap Failing = {}
  PROVE  Spec => [](project /\ Quiet => onDisk \ Existing \subseteq Recorded /\ tmux \subseteq RecordedTmux)
<1>1. Spec => [](project => NothingStray)
  BY NothingLeftStray
<1>2. Spec => []NoStray
  BY NeverStray
<1>3. (project => NothingStray) /\ NoStray
      => (project /\ Quiet => onDisk \ Existing \subseteq Recorded /\ tmux \subseteq RecordedTmux)
  BY DEF NothingStray, OwnWorktrees, NoStray
<1>4. QED
  BY <1>1, <1>2, <1>3, PTL

------------------------------------------------------------------------------
(* Creations of one branch.                                                *)

(* A request has its branch reserved from reserveCreate to the end of its  *)
(* last rollback, or of the cleanup of a setup that could not start.       *)
Reserved == {"check", "add", "tmux", "record", "hook", "finalize", "materialize", "declare",
             "unwind", "unwind-record", "undo", "undo-record", "rollback", "branch"}
Holds(state) == state.undo \/ state.pc \in Reserved

(* What a request knows while it does.  The deletion that cleans up is of  *)
(* the session it recorded, so that the branch stays the reserved one.     *)
Sure(s, disk, state) ==
  /\ state.mode \in Mode
  /\ state.pc = "add" => state.branch \notin disk
  /\ state.undo => state.pc # "nest"
  /\ state.undo /\ state.id \in OfType(s, "worktree") => s[state.id].branch = state.branch

(* A setup goroutine creates no worktree.                                  *)
Asking == {"read", "reserve", "check", "add"}
SetsUp(state) == state.then # "read" /\ state.pc \notin Asking

Apart ==
  /\ \A r \in Request : Sure(sessions, onDisk, act[r])
  /\ \A w \in Worker : SetsUp(act[w])
  /\ \A r \in Request : Holds(act[r]) => act[r].branch \in creating
  /\ \A q, r \in Request : q # r /\ Holds(act[q]) /\ Holds(act[r]) => act[q].branch # act[r].branch

(* What of an actor's state matters here.                                  *)
Steady(a) ==
  /\ act'[a].mode = act[a].mode /\ act'[a].branch = act[a].branch
  /\ act'[a].undo = act[a].undo /\ act'[a].id = act[a].id

(* A request stays sure while others work, unless they make its worktree.  *)
LEMMA SureStays ==
  ASSUME Sound, Later, NEW state, Issued(state.id), Sure(sessions, onDisk, state),
         state.pc = "add" => state.branch \notin onDisk'
  PROVE  Sure(sessions', onDisk', state)
<1>1. ASSUME state.undo, state.id \in OfType(sessions', "worktree")
      PROVE  sessions'[state.id].branch = state.branch
  <2>1. state.id \in DOMAIN sessions' /\ sessions'[state.id].type = "worktree"
    BY <1>1 DEF OfType
  <2>2. state.id \in DOMAIN sessions
    BY <2>1 DEF Later, Issued, Sound, Counted
  <2>3. Same(sessions[state.id], sessions'[state.id])
    BY <2>1, <2>2 DEF Later
  <2>4. state.id \in OfType(sessions, "worktree")
    BY <2>1, <2>2, <2>3 DEF OfType, Same
  <2>5. QED
    BY <1>1, <2>3, <2>4 DEF Sure, Same
<1>2. QED
  BY <1>1 DEF Sure

(* It is enough to look at the one request that moves: it takes a branch   *)
(* that nobody has reserved, gives back its own, and makes no other's      *)
(* worktree.                                                               *)
LEMMA ApartAfter ==
  ASSUME IInv, Apart, Later, NEW a \in Actor,
         \A q \in Request \ {a} : act'[q] = act[q],
         \A w \in Worker : SetsUp(act'[w]),
         a \in Request => Sure(sessions', onDisk', act'[a]),
         a \in Request /\ Holds(act'[a]) =>
           /\ act'[a].branch \in creating'
           /\ IF Holds(act[a]) THEN act'[a].branch = act[a].branch
                               ELSE act'[a].branch \notin creating,
         \A b \in creating \ creating' :
           a \in Request /\ Holds(act[a]) /\ ~ Holds(act'[a]) /\ b = act[a].branch,
         \A b \in onDisk' \ onDisk : a \in Request /\ Holds(act[a]) /\ b = act[a].branch
  PROVE  Apart'
<1>1. Sound /\ Request \subseteq Actor /\ \A q \in Request : Issued(act[q].id)
  BY DEF IInv, Actors, Actor
<1>2. ASSUME NEW q \in Request \ {a} PROVE Sure(sessions', onDisk', act'[q])
  <2>1. act[q].pc = "add" => act[q].branch \notin onDisk'
    <3>1. SUFFICES ASSUME act[q].pc = "add", act[q].branch \in onDisk' PROVE FALSE
      OBVIOUS
    <3>2. Holds(act[q]) /\ act[q].branch \notin onDisk
      BY <3>1 DEF Apart, Sure, Holds, Reserved
    <3>3. a \in Request /\ Holds(act[a]) /\ act[q].branch = act[a].branch
      BY <3>1, <3>2
    <3>4. QED
      BY <3>2, <3>3 DEF Apart
  <2>2. QED
    BY <1>1, <2>1, SureStays DEF Apart
<1>3. ASSUME NEW q \in Request \ {a}, Holds(act[q])
      PROVE  act[q].branch \in creating /\ act[q].branch \in creating'
  BY <1>3 DEF Apart
<1>4. ASSUME NEW q \in Request \ {a}, Holds(act'[q]), a \in Request, Holds(act'[a])
      PROVE  act'[q].branch # act'[a].branch
  BY <1>3, <1>4 DEF Apart
<1>5. \A r \in Request : Sure(sessions', onDisk', act'[r])
  BY <1>2
<1>6. \A r \in Request : Holds(act'[r]) => act'[r].branch \in creating'
  BY <1>3
<1>7. ASSUME NEW q \in Request, NEW r \in Request, q # r, Holds(act'[q]), Holds(act'[r])
      PROVE  act'[q].branch # act'[r].branch
  BY <1>4, <1>7 DEF Apart
<1>8. QED
  BY <1>5, <1>6, <1>7 DEF Apart

(* A step that neither reserves nor releases and adds no worktree.         *)
LEMMA ApartMoving ==
  ASSUME IInv, Apart, Later, NEW a \in Actor, Alone(a), Steady(a),
         act'[a].then \in {act[a].then, "plan"},
         act'[a].pc \notin {"add", "nest"}, act'[a].pc \in Asking => a \notin Worker,
         act'[a].pc \in Reserved => Holds(act[a]),
         creating' = creating, onDisk' \subseteq onDisk
  PROVE  Apart'
<1>1. Sound /\ Issued(act[a].id) /\ Request \subseteq Actor /\ Worker \subseteq Actor
  BY DEF IInv, Actors, Actor
<1>2. ASSUME NEW w \in Worker PROVE SetsUp(act'[w])
  BY <1>1 DEF Apart, Alone, SetsUp
<1>3. ASSUME a \in Request PROVE Sure(sessions', onDisk', act'[a])
  <2>1. Sure(sessions, onDisk, act'[a])
    BY <1>3 DEF Apart, Sure, Steady
  <2>2. QED
    BY <1>1, <2>1, SureStays DEF Steady
<1>4. ASSUME a \in Request, Holds(act'[a])
      PROVE  Holds(act[a]) /\ act'[a].branch = act[a].branch /\ act'[a].branch \in creating'
  BY <1>4 DEF Apart, Steady, Holds
<1>5. \A q \in Request \ {a} : act'[q] = act[q]
  BY <1>1 DEF Alone
<1>6. QED
  BY <1>2, <1>3, <1>4, <1>5, ApartAfter

(* An actor has ended, and given back what it had reserved.                *)
LEMMA ApartIdle ==
  ASSUME IInv, Apart, Later, NEW a \in Actor, Become(a, Idle),
         creating' = creating \/ (Release(a) /\ Holds(act[a])),
         onDisk' \subseteq onDisk
  PROVE  Apart'
<1>1. Sound /\ Request \subseteq Actor /\ Worker \subseteq Actor
  BY DEF IInv, Actors, Actor
<1>2. Alone(a) /\ act'[a] = Idle
  BY BecomeLeads
<1>3. /\ Idle.pc = "idle" /\ Idle.undo = FALSE /\ Idle.mode \in Mode /\ Idle.then = "idle"
  BY DEF Idle, Mode
<1>4. Sure(sessions', onDisk', Idle) /\ SetsUp(Idle) /\ ~ Holds(Idle)
  BY <1>3 DEF Sure, SetsUp, Asking, Holds, Reserved
<1>5. ASSUME NEW w \in Worker PROVE SetsUp(act'[w])
  BY <1>1, <1>2, <1>4 DEF Apart, Alone
<1>6. \A q \in Request \ {a} : act'[q] = act[q]
  BY <1>1, <1>2 DEF Alone
<1>7. ASSUME NEW b \in creating \ creating'
      PROVE  a \in Request /\ Holds(act[a]) /\ b = act[a].branch
  BY <1>7 DEF Release
<1>8. QED
  BY <1>2, <1>4, <1>5, <1>6, <1>7, ApartAfter

(* A creation ends and releases its branch.                                *)
LEMMA ApartFinishing ==
  ASSUME IInv, Apart, Later, NEW a \in Actor, FinishCreation(a), act[a].pc \in Reserved,
         onDisk' \subseteq onDisk
  PROVE  Apart'
BY ApartIdle DEF FinishCreation, Holds

(* A step that only moves on, its plan dropped or not.                     *)
LEMMA GoesSteadily ==
  ASSUME IInv, NEW a \in Actor, NEW pc,
         Goto(a, pc) \/ Become(a, [Forget(a) EXCEPT !.pc = pc])
  PROVE  Alone(a) /\ Steady(a) /\ act'[a].then = act[a].then /\ act'[a].pc = pc
<1>1. DOMAIN act[a] = DOMAIN Idle
  BY DEF IInv, Actors, Carries
<1>2. CASE Goto(a, pc)
  <2> DEFINE new == [act[a] EXCEPT !.pc = pc]
  <2>1. /\ new.mode = act[a].mode /\ new.branch = act[a].branch /\ new.undo = act[a].undo
        /\ new.id = act[a].id /\ new.then = act[a].then /\ new.pc = pc /\ Become(a, new)
    BY <1>1, <1>2 DEF Goto, Idle
  <2> HIDE DEF new
  <2>2. QED
    BY <2>1, BecomeLeads DEF Steady
<1>3. CASE Become(a, [Forget(a) EXCEPT !.pc = pc])
  <2> DEFINE new == [Forget(a) EXCEPT !.pc = pc]
  <2>1. /\ new.mode = act[a].mode /\ new.branch = act[a].branch /\ new.undo = act[a].undo
        /\ new.id = act[a].id /\ new.then = act[a].then /\ new.pc = pc /\ Become(a, new)
    BY <1>1, <1>3 DEF Forget, Idle
  <2> HIDE DEF new
  <2>2. QED
    BY <2>1, BecomeLeads DEF Steady
<1>4. QED
  BY <1>2, <1>3

(* Such a step reserves nothing and releases nothing.                      *)
LEMMA ApartGoing ==
  ASSUME IInv, Apart, Later, NEW a \in Actor, NEW pc,
         Goto(a, pc) \/ Become(a, [Forget(a) EXCEPT !.pc = pc]),
         pc \notin {"add", "nest"}, pc \in Asking => a \notin Worker,
         pc \in Reserved => Holds(act[a]), creating' = creating, onDisk' \subseteq onDisk
  PROVE  Apart'
BY GoesSteadily, ApartMoving

(* A deletion ends, or goes on to the reserved branch.                     *)
LEMMA ApartEnding ==
  ASSUME IInv, Apart, Later, NEW a \in Actor, EndRemoval(a), onDisk' \subseteq onDisk
  PROVE  Apart'
<1>1. creating' = creating
  BY DEF EndRemoval
<1>2. CASE act[a].undo
  <2>1. Become(a, [Forget(a) EXCEPT !.pc = "branch"]) /\ Holds(act[a])
    BY <1>2 DEF EndRemoval, Holds
  <2>2. QED
    BY <1>1, <2>1, ApartGoing DEF Asking
<1>3. CASE ~ act[a].undo
  <2>1. Become(a, Idle)
    BY <1>3 DEF EndRemoval
  <2>2. QED
    BY <1>1, <2>1, ApartIdle
<1>4. QED
  BY <1>2, <1>3

(* The cleanup of a setup goroutine, which has nothing reserved.           *)
LEMMA ApartCleaning ==
  ASSUME IInv, Apart, Later, NEW a \in Actor, a \notin Request, NEW new, Become(a, new),
         new.pc = "lock", new.then = act[a].then,
         creating' = creating, onDisk' \subseteq onDisk
  PROVE  Apart'
<1>1. Worker \subseteq Actor /\ Alone(a) /\ act'[a] = new
  BY BecomeLeads DEF Actor
<1>2. ASSUME NEW w \in Worker PROVE SetsUp(act'[w])
  BY <1>1 DEF Apart, Alone, SetsUp, Asking
<1>3. \A q \in Request \ {a} : act'[q] = act[q]
  BY <1>1 DEF Alone, Actor
<1>4. QED
  BY <1>2, <1>3, ApartAfter

(* Pruning, deleting and what goes on beside the worktrees.                *)
LEMMA ApartRemoving ==
  ASSUME IInv, Apart, Later, NEW a \in Actor,
         \/ ReconcileStat(a) \/ PruneKill(a) \/ PruneWrite(a) \/ RemoveWorktree(a) \/ Kill(a)
         \/ Write(a) \/ NestTmux(a) \/ NestRecord(a) \/ ProjectKill(a) \/ ProjectWrite(a)
  PROVE  Apart'
<1>1. onDisk' \subseteq onDisk
  BY DEF ReconcileStat, PruneKill, PruneWrite, RemoveWorktree, Kill, Write, NestTmux, NestRecord,
         ProjectKill, ProjectWrite, WithoutWorktree, git
<1>2. creating' = creating
  BY DEF ReconcileStat, PruneKill, PruneWrite, RemoveWorktree, Kill, Write, NestTmux, NestRecord,
         ProjectKill, ProjectWrite, EndRemoval, locks
<1>3. /\ act[a].then \in {"idle", "read", "plan"}
      /\ act[a].then \in Asking => a \notin Worker
  BY DEF IInv, Actors, Carries, Apart, SetsUp, Asking
<1>4. /\ act[a].then \notin Reserved /\ act[a].then \notin {"add", "nest"}
  BY <1>3 DEF Reserved
<1>5. CASE \/ EndRemoval(a) \/ Become(a, Idle)
  BY <1>1, <1>2, <1>5, ApartEnding, ApartIdle
<1>6. ASSUME NEW pc, Goto(a, pc) \/ Become(a, [Forget(a) EXCEPT !.pc = pc]),
             pc \notin {"add", "nest"}, pc \in Asking => a \notin Worker, pc \notin Reserved
      PROVE  Apart'
  BY <1>1, <1>2, <1>6, ApartGoing
<1>7. CASE ReconcileStat(a)
  <2>1. ASSUME NEW plan, NEW names,
               Become(a, [Forget(a) EXCEPT !.pc = "prune-kill", !.plan = plan, !.names = names])
        PROVE  Apart'
    <3> DEFINE new == [Forget(a) EXCEPT !.pc = "prune-kill", !.plan = plan, !.names = names]
    <3>1. /\ new.mode = act[a].mode /\ new.branch = act[a].branch /\ new.undo = act[a].undo
          /\ new.id = act[a].id /\ new.then = act[a].then /\ new.pc = "prune-kill"
      BY DEF IInv, Actors, Carries, Forget, Idle
    <3>2. Become(a, new)
      BY <2>1
    <3> HIDE DEF new
    <3>3. Alone(a) /\ Steady(a) /\ act'[a].then = act[a].then /\ act'[a].pc = "prune-kill"
      BY <3>1, <3>2, BecomeLeads DEF Steady
    <3>4. QED
      BY <1>1, <1>2, <3>3, ApartMoving DEF Asking, Reserved
  <2>2. QED
    BY <1>3, <1>4, <1>5, <1>6, <1>7, <2>1 DEF ReconcileStat
<1>8. CASE PruneKill(a) \/ RemoveWorktree(a) \/ Kill(a) \/ NestTmux(a) \/ ProjectKill(a)
  <2>1. \/ EndRemoval(a) \/ Become(a, Idle)
        \/ \E pc \in {"prune-write", "kill", "write", "nest-record", "project-write"} : Goto(a, pc)
    BY <1>8 DEF PruneKill, RemoveWorktree, Kill, NestTmux, ProjectKill
  <2>2. QED
    BY <1>5, <1>6, <2>1 DEF Asking, Reserved
<1>9. CASE PruneWrite(a)
  BY <1>3, <1>4, <1>5, <1>6, <1>9 DEF PruneWrite
<1>10. CASE Write(a) \/ NestRecord(a) \/ ProjectWrite(a)
  BY <1>5, <1>10 DEF Write, NestRecord, ProjectWrite
<1>11. QED
  BY <1>7, <1>8, <1>9, <1>10

(* A creation up to its record.                                            *)
LEMMA ApartCreating ==
  ASSUME IInv, Apart, Later, NEW a \in Actor,
         ReadState(a) \/ Reserve(a) \/ CheckGit(a) \/ AddWorktree(a)
  PROVE  Apart'
<1>1. /\ a \in Request /\ a \notin Worker /\ Request \subseteq Actor /\ Worker \subseteq Actor
      /\ Sound /\ Issued(act[a].id) /\ DOMAIN act[a] = DOMAIN Idle
  BY DEF Apart, SetsUp, Asking, ReadState, Reserve, CheckGit, AddWorktree, At, Actor, IInv,
         Actors, Carries
<1>2. Sure(sessions, onDisk, act[a])
  BY <1>1 DEF Apart
<1>3. ASSUME NEW pc \in {"tmux", "rollback"}, Goto(a, pc), Holds(act[a]), creating' = creating,
             onDisk' = onDisk
      PROVE  Apart'
  <2>1. pc \notin {"add", "nest"}
    OBVIOUS
  <2>2. QED
    BY <1>1, <1>3, <2>1, ApartGoing
<1>4. CASE ReadState(a)
  <2>1. onDisk' = onDisk /\ creating' = creating
    BY <1>4 DEF ReadState, git, locks
  <2>2. ASSUME NEW p, Become(a, [act[a] EXCEPT !.pc = "reserve", !.parent = p])
        PROVE  Apart'
    <3> DEFINE new == [act[a] EXCEPT !.pc = "reserve", !.parent = p]
    <3>1. /\ new.mode = act[a].mode /\ new.branch = act[a].branch /\ new.undo = act[a].undo
          /\ new.id = act[a].id /\ new.then = act[a].then /\ new.pc = "reserve"
      BY <1>1 DEF Idle
    <3>2. Become(a, new)
      BY <2>2
    <3> HIDE DEF new
    <3>3. Alone(a) /\ Steady(a) /\ act'[a].then = act[a].then /\ act'[a].pc = "reserve"
      BY <3>1, <3>2, BecomeLeads DEF Steady
    <3>4. QED
      BY <1>1, <2>1, <3>3, ApartMoving DEF Reserved
  <2>3. QED
    BY <1>4, <2>1, <2>2, ApartIdle DEF ReadState
<1>5. CASE Reserve(a)
  <2>1. onDisk' = onDisk
    BY <1>5 DEF Reserve, git
  <2>2. CASE act[a].branch \in creating
    BY <1>5, <2>1, <2>2, ApartIdle DEF Reserve
  <2>3. CASE act[a].branch \notin creating
    <3>1. Goto(a, "check") /\ creating' = creating \cup {act[a].branch}
      BY <1>5, <2>3 DEF Reserve
    <3>2. Alone(a) /\ Steady(a) /\ act'[a].then = act[a].then /\ act'[a].pc = "check"
      BY <1>1, <3>1, GoesSteadily
    <3>3. Sure(sessions', onDisk', act'[a])
      BY <1>1, <1>2, <2>1, <3>2, SureStays DEF Sure, Steady
    <3>4. ~ Holds(act[a])
      BY <1>1, <2>3 DEF Apart
    <3>5. ASSUME NEW w \in Worker PROVE SetsUp(act'[w])
      BY <1>1, <3>2 DEF Apart, Alone
    <3>6. QED
      BY <1>1, <2>1, <2>3, <3>1, <3>2, <3>3, <3>4, <3>5, ApartAfter DEF Alone, Steady
  <2>4. QED
    BY <2>2, <2>3
<1>6. CASE CheckGit(a)
  <2>1. onDisk' = onDisk /\ act[a].pc \in Reserved /\ Holds(act[a])
    BY <1>6 DEF CheckGit, git, At, Reserved, Holds
  <2>2. CASE FinishCreation(a)
    BY <2>1, <2>2, ApartFinishing
  <2>3. CASE Goto(a, "tmux") /\ UNCHANGED locks
    BY <2>1, <2>3, <1>3 DEF locks
  <2>4. CASE Goto(a, "add") /\ UNCHANGED locks /\ act[a].branch \notin onDisk
    <3>1. Alone(a) /\ Steady(a) /\ act'[a].then = act[a].then /\ act'[a].pc = "add"
      BY <1>1, <2>4, GoesSteadily
    <3>2. Sure(sessions, onDisk, act'[a])
      BY <1>2, <2>4, <3>1 DEF Sure, Steady
    <3>3. Sure(sessions', onDisk', act'[a])
      BY <1>1, <2>1, <2>4, <3>1, <3>2, SureStays DEF Steady
    <3>4. ASSUME NEW w \in Worker PROVE SetsUp(act'[w])
      BY <1>1, <3>1 DEF Apart, Alone
    <3>5. act'[a].branch = act[a].branch /\ act[a].branch \in creating /\ creating' = creating
      BY <1>1, <2>1, <2>4, <3>1 DEF Apart, Steady, locks
    <3>6. QED
      BY <1>1, <2>1, <3>1, <3>3, <3>4, <3>5, ApartAfter DEF Alone
  <2>5. QED
    BY <1>2, <1>6, <2>2, <2>3, <2>4 DEF CheckGit, Sure, Mode
<1>7. CASE AddWorktree(a)
  <2>1. act[a].pc \in Reserved /\ Holds(act[a]) /\ creating' = creating
    BY <1>7 DEF AddWorktree, locks, At, Reserved, Holds
  <2>2. CASE Goto(a, "rollback") /\ UNCHANGED git
    BY <2>1, <2>2, <1>3 DEF git
  <2>3. CASE Goto(a, "tmux") /\ onDisk' = onDisk \cup {act[a].branch}
    <3>1. Alone(a) /\ Steady(a) /\ act'[a].then = act[a].then /\ act'[a].pc = "tmux"
      BY <1>1, <2>3, GoesSteadily
    <3>2. Sure(sessions, onDisk, act'[a])
      BY <1>2, <3>1 DEF Sure, Steady
    <3>3. Sure(sessions', onDisk', act'[a])
      BY <1>1, <3>1, <3>2, SureStays DEF Steady
    <3>4. ASSUME NEW w \in Worker PROVE SetsUp(act'[w])
      BY <1>1, <3>1 DEF Apart, Alone
    <3>5. act'[a].branch = act[a].branch /\ act[a].branch \in creating
      BY <1>1, <2>1, <3>1 DEF Apart, Steady
    <3>6. QED
      BY <1>1, <2>1, <2>3, <3>1, <3>3, <3>4, <3>5, ApartAfter DEF Alone
  <2>4. QED
    BY <1>7, <2>2, <2>3 DEF AddWorktree
<1>8. QED
  BY <1>4, <1>5, <1>6, <1>7

(* A creation while and after it is recorded, with its rollbacks.          *)
LEMMA ApartBuilding ==
  ASSUME IInv, Apart, Later, NEW a \in Actor,
         \/ CreateTmux(a) \/ Rollback(a) \/ Materialize(a) \/ Unwind(a) \/ UnwindRecord(a)
         \/ Undo(a) \/ UndoRecord(a) \/ DeleteBranch(a) \/ Finalize(a)
  PROVE  Apart'
<1>1. act[a].pc \in Reserved /\ Holds(act[a]) /\ DOMAIN act[a] = DOMAIN Idle
  BY DEF CreateTmux, Rollback, Materialize, Unwind, UnwindRecord, Undo, UndoRecord, DeleteBranch,
         Finalize, At, Reserved, Holds, IInv, Actors, Carries
<1>2. onDisk' \subseteq onDisk
  BY DEF CreateTmux, Rollback, Materialize, Unwind, UnwindRecord, Undo, UndoRecord, DeleteBranch,
         Finalize, WithoutWorktree, git
<1>3. ASSUME NEW pc \in {"record", "rollback", "materialize", "declare", "unwind",
                         "unwind-record", "undo", "undo-record"},
             Goto(a, pc), creating' = creating
      PROVE  Apart'
  <2>1. pc \notin {"add", "nest"} /\ pc \notin Asking
    BY DEF Asking
  <2>2. QED
    BY <1>1, <1>2, <1>3, <2>1, ApartGoing
<1>4. ASSUME a \notin Request, CleanUp(a), creating' = creating PROVE Apart'
  <2> DEFINE new == [act[a] EXCEPT !.pc = "lock", !.force = TRUE, !.undo = TRUE]
  <2>1. Become(a, new) /\ new.pc = "lock" /\ new.then = act[a].then
    BY <1>1, <1>4 DEF CleanUp, Idle
  <2> HIDE DEF new
  <2>2. QED
    BY <1>2, <1>4, <2>1, ApartCleaning
<1>5. CASE Rollback(a) \/ DeleteBranch(a)
  BY <1>1, <1>2, <1>5, ApartFinishing DEF Rollback, DeleteBranch
<1>6. CASE CreateTmux(a) \/ Unwind(a) \/ Undo(a) \/ UndoRecord(a)
  BY <1>3, <1>6 DEF CreateTmux, Unwind, Undo, UndoRecord, locks
<1>7. CASE Finalize(a)
  <2>1. CASE Goto(a, "materialize")
    BY <1>3, <1>7, <2>1 DEF Finalize
  <2>2. CASE Become(a, Idle)
    BY <1>2, <1>7, <2>2, ApartIdle DEF Finalize
  <2>3. QED
    BY <1>7, <2>1, <2>2 DEF Finalize
<1>8. CASE Materialize(a)
  <2>1. \/ FinishCreation(a)
        \/ Abandon(a)
        \/ Goto(a, "declare") /\ creating' = creating
        \/ Goto(a, "unwind") /\ creating' = creating
    BY <1>8 DEF Materialize, locks
  <2>2. Abandon(a) => \/ Goto(a, "undo") /\ creating' = creating
                      \/ a \notin Request /\ CleanUp(a) /\ creating' = creating
    BY DEF Abandon, locks
  <2>3. QED
    BY <1>1, <1>2, <1>3, <1>4, <2>1, <2>2, ApartFinishing
<1>9. CASE UnwindRecord(a)
  <2> DEFINE last == [act[a] EXCEPT !.made = Front(act[a].made)]
  <2>1. ASSUME NEW pc \in {"unwind", "undo"}, Become(a, [last EXCEPT !.pc = pc]),
               creating' = creating
        PROVE  Apart'
    <3> DEFINE new == [last EXCEPT !.pc = pc]
    <3>1. /\ new.mode = act[a].mode /\ new.branch = act[a].branch /\ new.undo = act[a].undo
          /\ new.id = act[a].id /\ new.then = act[a].then /\ new.pc = pc
      BY <1>1 DEF Idle
    <3>2. Become(a, new)
      BY <2>1
    <3> HIDE DEF new
    <3>3. Alone(a) /\ Steady(a) /\ act'[a].then = act[a].then /\ act'[a].pc = pc
      BY <3>1, <3>2, BecomeLeads DEF Steady
    <3>4. pc \notin {"add", "nest"} /\ pc \notin Asking
      BY DEF Asking
    <3>5. QED
      BY <1>1, <1>2, <2>1, <3>3, <3>4, ApartMoving
  <2>2. ASSUME Become(a, [last EXCEPT !.pc = "lock", !.force = TRUE, !.undo = TRUE]),
               a \notin Request, creating' = creating
        PROVE  Apart'
    <3> DEFINE new == [last EXCEPT !.pc = "lock", !.force = TRUE, !.undo = TRUE]
    <3>1. Become(a, new) /\ new.pc = "lock" /\ new.then = act[a].then
      BY <1>1, <2>2 DEF Idle
    <3> HIDE DEF new
    <3>2. QED
      BY <1>2, <2>2, <3>1, ApartCleaning
  <2>3. QED
    BY <1>9, <2>1, <2>2 DEF UnwindRecord, locks
<1>10. QED
  BY <1>5, <1>6, <1>7, <1>8, <1>9

(* The two steps of a setup that add a record.                             *)
LEMMA ApartRecording ==
  ASSUME IInv, Apart, NEW a \in Actor, WriteRecord(a) \/ Declare(a)
  PROVE  Apart'
<1>1. act[a].pc \in Reserved /\ Holds(act[a]) /\ DOMAIN act[a] = DOMAIN Idle /\ Sound
  BY DEF WriteRecord, Declare, At, Reserved, Holds, IInv, Actors, Carries
<1>2. onDisk' = onDisk /\ creating' = creating
  BY DEF WriteRecord, Declare, git, locks
<1>3. CASE Declare(a)
  <2> DEFINE new == [act[a] EXCEPT !.pc = "materialize", !.made = Append(act[a].made, nextID)]
  <2>1. /\ new.mode = act[a].mode /\ new.branch = act[a].branch /\ new.undo = act[a].undo
        /\ new.id = act[a].id /\ new.then = act[a].then /\ new.pc = "materialize"
    BY <1>1 DEF Idle
  <2>2. Become(a, new)
    BY <1>3 DEF Declare
  <2> HIDE DEF new
  <2>3. Alone(a) /\ Steady(a) /\ act'[a].then = act[a].then /\ act'[a].pc = "materialize"
    BY <2>1, <2>2, BecomeLeads DEF Steady
  <2>4. Later
    BY <1>1, <1>3, AddingRecord DEF Declare
  <2>5. QED
    BY <1>1, <1>2, <2>3, <2>4, ApartMoving DEF Asking
<1>4. CASE WriteRecord(a)
  <2> DEFINE record == [type |-> "worktree", parent |-> act[a].parent, onDelete |-> "cascade",
                        branch |-> act[a].branch, name |-> 1, tmux |-> <<act[a].branch>>]
             next == IF act[a].mode = "adopt" THEN "materialize" ELSE "hook"
             new == [act[a] EXCEPT !.id = nextID, !.pc = next]
  <2>1. /\ new.mode = act[a].mode /\ new.branch = act[a].branch /\ new.undo = act[a].undo
        /\ new.id = nextID /\ new.then = act[a].then /\ new.pc = next
    BY <1>1 DEF Idle
  <2>2. Become(a, new) /\ AddRecord(record) /\ record.branch = act[a].branch
    BY <1>4 DEF WriteRecord
  <2>3. next \in {"materialize", "hook"}
    OBVIOUS
  <2> HIDE DEF new, record, next
  <2>4. Alone(a) /\ act'[a] = new
    BY <2>2, BecomeLeads
  <2>5. Later /\ sessions'[nextID] = record
    BY <1>1, <2>2, AddingRecord
  <2>6. ASSUME a \in Request PROVE Sure(sessions', onDisk', act'[a])
    <3>1. act[a].mode \in Mode
      BY <2>6 DEF Apart, Sure
    <3>2. QED
      BY <2>1, <2>2, <2>3, <2>4, <2>5, <3>1 DEF Sure
  <2>7. ASSUME NEW w \in Worker PROVE SetsUp(act'[w])
    BY <2>1, <2>3, <2>4 DEF Alone, Actor, Apart, SetsUp, Asking
  <2>8. a \in Request => act[a].branch \in creating
    BY <1>1 DEF Apart
  <2>9. Holds(act'[a])
    BY <2>1, <2>3, <2>4 DEF Holds, Reserved
  <2>10. \A q \in Request \ {a} : act'[q] = act[q]
    BY <2>4 DEF Alone, Actor
  <2>11. QED
    BY <1>1, <1>2, <2>1, <2>4, <2>5, <2>6, <2>7, <2>8, <2>9, <2>10, ApartAfter
<1>5. QED
  BY <1>3, <1>4

(* The hook starts, or the creation is cleaned up: a deletion of its own   *)
(* session, and so of the branch it has reserved.                          *)
LEMMA ApartHooking ==
  ASSUME IInv, Knowing, Apart, Later, NEW a \in Actor, StartHook(a)
  PROVE  Apart'
<1>1. /\ act[a].pc = "hook" /\ act[a].pc \in Reserved /\ Holds(act[a])
      /\ DOMAIN act[a] = DOMAIN Idle /\ Sound /\ Issued(act[a].id)
  BY DEF StartHook, At, Reserved, Holds, IInv, Actors, Carries
<1>2. onDisk' = onDisk
  BY DEF StartHook, git
<1>3. CASE Goto(a, "materialize") /\ UNCHANGED locks
  <2>1. "materialize" \notin {"add", "nest"} /\ "materialize" \notin Asking
    BY DEF Asking
  <2>2. QED
    BY <1>1, <1>2, <1>3, <2>1, ApartGoing DEF locks
<1>4. ASSUME NEW w \in Worker, Release(a),
             act' = [act EXCEPT ![a] = Idle, ![w] = [Forget(a) EXCEPT !.pc = "running",
                                                                      !.then = "idle"]]
      PROVE  Apart'
  <2> DEFINE new == [Forget(a) EXCEPT !.pc = "running", !.then = "idle"]
  <2>1. new.pc = "running" /\ new.then = "idle"
    BY <1>1 DEF Forget, Idle
  <2>2. act' = [act EXCEPT ![a] = Idle, ![w] = new]
    BY <1>4
  <2> HIDE DEF new
  <2>3. /\ Request \subseteq Actor /\ Worker \subseteq Actor /\ DOMAIN act = Actor
        /\ \A r \in Request : r \notin Worker
    BY SessionLifecycleAssumption DEF Actor, IInv, Actors
  <2>4. /\ \A q \in Request \ {a} : act'[q] = act[q]
        /\ a \in Request => act'[a] = Idle
    BY <2>2, <2>3
  <2>5. /\ Idle.pc = "idle" /\ Idle.undo = FALSE /\ Idle.mode \in Mode /\ Idle.then = "idle"
    BY DEF Idle, Mode
  <2>6. Sure(sessions', onDisk', Idle) /\ SetsUp(Idle) /\ ~ Holds(Idle) /\ SetsUp(new)
    BY <2>1, <2>5 DEF Sure, SetsUp, Asking, Holds, Reserved
  <2>7. ASSUME NEW v \in Worker PROVE SetsUp(act'[v])
    <3>1. act'[v] \in {act[v], Idle, new}
      BY <2>2, <2>3
    <3>2. QED
      BY <2>6, <3>1 DEF Apart
  <2>8. ASSUME NEW b \in creating \ creating'
        PROVE  a \in Request /\ b = act[a].branch
    BY <1>4, <2>8 DEF Release
  <2>9. QED
    BY <1>1, <1>2, <2>4, <2>6, <2>7, <2>8, ApartAfter
<1>5. CASE CleanUp(a) /\ UNCHANGED locks
  <2> DEFINE new == [act[a] EXCEPT !.pc = "lock", !.force = TRUE, !.undo = TRUE]
  <2>1. /\ new.pc = "lock" /\ new.then = act[a].then /\ new.mode = act[a].mode
        /\ new.branch = act[a].branch /\ new.id = act[a].id /\ new.undo = TRUE /\ Become(a, new)
    BY <1>1, <1>5 DEF CleanUp, Idle
  <2> HIDE DEF new
  <2>2. Alone(a) /\ act'[a] = new /\ creating' = creating
    BY <1>5, <2>1, BecomeLeads DEF locks
  <2>3. act[a].id \in DOMAIN sessions => sessions[act[a].id].branch = act[a].branch
    BY <1>1 DEF Knowing, Knows, KnowsSession, Settling
  <2>4. ASSUME a \in Request PROVE Sure(sessions', onDisk', new)
    <3>1. Sure(sessions, onDisk, new)
      BY <2>1, <2>3, <2>4 DEF Sure, Apart, OfType
    <3>2. QED
      BY <1>1, <2>1, <3>1, SureStays
  <2>5. ASSUME NEW w \in Worker PROVE SetsUp(act'[w])
    BY <2>1, <2>2 DEF Alone, Actor, Apart, SetsUp, Asking
  <2>6. \A q \in Request \ {a} : act'[q] = act[q]
    BY <2>2 DEF Alone, Actor
  <2>7. a \in Request => act[a].branch \in creating
    BY <1>1 DEF Apart
  <2>8. QED
    BY <1>1, <1>2, <2>1, <2>2, <2>4, <2>5, <2>6, <2>7, ApartAfter
<1>6. QED
  BY <1>3, <1>4, <1>5 DEF StartHook

(* A deletion takes the branch of its session: the reserved one, where it  *)
(* cleans up.                                                              *)
LEMMA ApartPlanning ==
  ASSUME IInv, Apart, Later, NEW a \in Actor, DeletePlan(a)
  PROVE  Apart'
<1>1. onDisk' = onDisk /\ DOMAIN act[a] = DOMAIN Idle /\ Sound /\ act[a].pc = "plan"
  BY DEF DeletePlan, git, At, IInv, Actors, Carries
<1>2. CASE EndRemoval(a)
  BY <1>1, <1>2, ApartEnding
<1>3. ASSUME NEW pc \in {"remove", "kill"}, NEW plan, NEW names, NEW b,
             Become(a, [act[a] EXCEPT !.pc = pc, !.plan = plan, !.names = names, !.branch = b]),
             creating' = creating, a \in Request /\ act[a].undo => b = act[a].branch
      PROVE  Apart'
  <2> DEFINE new == [act[a] EXCEPT !.pc = pc, !.plan = plan, !.names = names, !.branch = b]
  <2>1. /\ new.pc = pc /\ new.then = act[a].then /\ new.mode = act[a].mode
        /\ new.branch = b /\ new.id = act[a].id /\ new.undo = act[a].undo /\ Become(a, new)
    BY <1>1, <1>3 DEF Idle
  <2> HIDE DEF new
  <2>2. Alone(a) /\ act'[a] = new
    BY <2>1, BecomeLeads
  <2>3. pc \notin Asking /\ pc \notin Reserved /\ pc # "nest" /\ pc # "add"
    BY DEF Asking, Reserved
  <2>4. CASE b = act[a].branch
    BY <1>1, <1>3, <2>1, <2>2, <2>3, <2>4, ApartMoving DEF Steady
  <2>5. CASE ~ (a \in Request /\ act[a].undo)
    <3>1. a \in Request => ~ Holds(act'[a]) /\ Sure(sessions', onDisk', act'[a])
      BY <2>1, <2>2, <2>3, <2>5 DEF Holds, Sure, Apart
    <3>2. ASSUME NEW w \in Worker PROVE SetsUp(act'[w])
      BY <2>1, <2>2, <2>3 DEF Alone, Actor, Apart, SetsUp
    <3>3. \A q \in Request \ {a} : act'[q] = act[q]
      BY <2>2 DEF Alone, Actor
    <3>4. QED
      BY <1>1, <1>3, <3>1, <3>2, <3>3, ApartAfter
  <2>6. QED
    BY <1>3, <2>4, <2>5
<1>4. CASE \E pc \in {"remove", "kill"} : \E plan, names :
             /\ creating' = creating
             /\ Become(a, [act[a] EXCEPT !.pc = pc, !.plan = plan, !.names = names,
                  !.branch = IF act[a].id \in OfType(sessions, "worktree")
                             THEN sessions[act[a].id].branch ELSE @])
  <2> DEFINE b == IF act[a].id \in OfType(sessions, "worktree")
                  THEN sessions[act[a].id].branch ELSE act[a].branch
  <2>1. a \in Request /\ act[a].undo => b = act[a].branch
    BY DEF Apart, Sure
  <2>2. QED
    BY <1>3, <1>4, <2>1
<1>5. QED
  <2> DEFINE id == act[a].id
             type == IF id \in DOMAIN sessions THEN sessions[id].type ELSE "main"
             plan == CASE type = "worktree" -> PlanWorktreeRemoval(sessions, id)
                       [] type = "secondary" -> PlanSecondaryRemoval(sessions, id)
                       [] OTHER -> NoPlan
  <2>1. type = "worktree" <=> id \in OfType(sessions, "worktree")
    BY DEF OfType
  <2>2. \/ EndRemoval(a)
        \/ /\ Become(a, [act[a] EXCEPT !.pc = IF type = "worktree" THEN "remove" ELSE "kill",
                           !.plan = plan, !.names = TmuxNames(sessions, plan.delete),
                           !.branch = IF type = "worktree" THEN sessions[id].branch ELSE @])
           /\ UNCHANGED locks
    BY DEF DeletePlan
  <2>3. QED
    BY <1>2, <1>4, <2>1, <2>2 DEF locks

(* Snapshots and plans reserve nothing.                                    *)
LEMMA ApartReading ==
  ASSUME IInv, Apart, Later, NEW a \in Actor,
         ReconcileRead(a) \/ DeleteLocks(a) \/ Nest(a) \/ ProjectRead(a)
  PROVE  Apart'
<1>1. /\ onDisk' = onDisk /\ creating' = creating /\ DOMAIN act[a] = DOMAIN Idle
  BY DEF ReconcileRead, DeleteLocks, Nest, ProjectRead, git, locks, IInv, Actors, Carries
<1>2. ASSUME NEW new, Become(a, new), new.mode = act[a].mode, new.branch = act[a].branch,
             new.undo = act[a].undo, new.id = act[a].id, new.then \in {act[a].then, "plan"},
             new.pc \in {"stat", "reconcile", "project-kill"}
      PROVE  Apart'
  <2>1. new.pc \notin {"add", "nest"} /\ new.pc \notin Asking /\ new.pc \notin Reserved
    BY <1>2 DEF Asking, Reserved
  <2>2. QED
    BY <1>1, <1>2, <2>1, BecomeLeads, ApartMoving DEF Steady
<1>3. CASE ReconcileRead(a)
  <2> DEFINE new == [act[a] EXCEPT !.pc = "stat", !.snap = sessions]
  <2>1. /\ new.mode = act[a].mode /\ new.branch = act[a].branch /\ new.undo = act[a].undo
        /\ new.id = act[a].id /\ new.then = act[a].then /\ new.pc = "stat"
    BY <1>1 DEF Idle
  <2>2. Become(a, new)
    BY <1>3 DEF ReconcileRead
  <2> HIDE DEF new
  <2>3. QED
    BY <1>2, <2>1, <2>2
<1>4. CASE DeleteLocks(a)
  <2> DEFINE new == [act[a] EXCEPT !.pc = "reconcile", !.then = "plan"]
  <2>1. /\ new.mode = act[a].mode /\ new.branch = act[a].branch /\ new.undo = act[a].undo
        /\ new.id = act[a].id /\ new.then = "plan" /\ new.pc = "reconcile"
    BY <1>1 DEF Idle
  <2>2. Become(a, new)
    BY <1>4 DEF DeleteLocks
  <2> HIDE DEF new
  <2>3. QED
    BY <1>2, <2>1, <2>2
<1>5. ASSUME NEW names, NEW plan,
             Become(a, [act[a] EXCEPT !.pc = "project-kill", !.names = names, !.plan = plan])
      PROVE  Apart'
  <2> DEFINE new == [act[a] EXCEPT !.pc = "project-kill", !.names = names, !.plan = plan]
  <2>1. /\ new.mode = act[a].mode /\ new.branch = act[a].branch /\ new.undo = act[a].undo
        /\ new.id = act[a].id /\ new.then = act[a].then /\ new.pc = "project-kill"
    BY <1>1 DEF Idle
  <2>2. Become(a, new)
    BY <1>5
  <2> HIDE DEF new
  <2>3. QED
    BY <1>2, <2>1, <2>2
<1>6. ASSUME NEW b, NEW names, act[a].pc = "nest",
             Become(a, [act[a] EXCEPT !.pc = "nest-tmux", !.branch = b, !.names = names])
      PROVE  Apart'
  <2> DEFINE new == [act[a] EXCEPT !.pc = "nest-tmux", !.branch = b, !.names = names]
  <2>1. /\ new.mode = act[a].mode /\ new.undo = act[a].undo /\ new.then = act[a].then
        /\ new.pc = "nest-tmux" /\ Become(a, new)
    BY <1>1, <1>6 DEF Idle
  <2> HIDE DEF new
  <2>2. Alone(a) /\ act'[a] = new
    BY <2>1, BecomeLeads
  <2>3. a \in Request => ~ Holds(new) /\ Sure(sessions', onDisk', new)
    BY <1>6, <2>1 DEF Apart, Sure, Holds, Reserved
  <2>4. ASSUME NEW w \in Worker PROVE SetsUp(act'[w])
    BY <2>1, <2>2 DEF Alone, Actor, Apart, SetsUp, Asking
  <2>5. \A q \in Request \ {a} : act'[q] = act[q]
    BY <2>2 DEF Alone, Actor
  <2>6. QED
    BY <1>1, <2>2, <2>3, <2>4, <2>5, ApartAfter
<1>7. CASE Nest(a)
  <2>1. CASE Become(a, Idle)
    BY <1>1, <2>1, ApartIdle
  <2>2. QED
    BY <1>6, <1>7, <2>1 DEF Nest, At
<1>8. CASE ProjectRead(a)
  <2>1. CASE Become(a, Idle)
    BY <1>1, <2>1, ApartIdle
  <2>2. QED
    BY <1>5, <1>8, <2>1 DEF ProjectRead
<1>9. QED
  BY <1>3, <1>4, <1>7, <1>8

(* Requests begin with nothing reserved, and hooks end without.            *)
LEMMA ApartStarting ==
  ASSUME IInv, Apart, Later, NEW r \in Request, Starts(r)
  PROVE  Apart'
<1>1. /\ r \in Actor /\ onDisk' = onDisk /\ creating' = creating /\ DOMAIN act[r] = DOMAIN Idle
  BY DEF Starts, StartWorktree, StartSecondary, StartDelete, StartDeleteProject, git, locks,
         IInv, Actors, Carries, Actor
<1>2. ASSUME NEW new, Become(r, new), new.pc \in {"reconcile", "nest", "lock"},
             new.mode \in Mode, new.undo = FALSE
      PROVE  Apart'
  <2>1. Alone(r) /\ act'[r] = new
    BY <1>1, <1>2, BecomeLeads
  <2>2. ~ Holds(new) /\ Sure(sessions', onDisk', new)
    BY <1>2 DEF Sure, Holds, Reserved
  <2>3. ASSUME NEW w \in Worker PROVE SetsUp(act'[w])
    BY <2>1, SessionLifecycleAssumption DEF Alone, Actor, Apart
  <2>4. \A q \in Request \ {r} : act'[q] = act[q]
    BY <2>1 DEF Alone, Actor
  <2>5. QED
    BY <1>1, <2>1, <2>2, <2>3, <2>4, ApartAfter
<1>3. ASSUME NEW b, NEW mode \in Mode, NEW source, StartWorktree(r, b, mode, source)
      PROVE  Apart'
  <2> DEFINE new == [Idle EXCEPT !.pc = "reconcile", !.then = "read", !.branch = b,
                                 !.mode = mode, !.parent = source]
  <2>1. new.pc = "reconcile" /\ new.mode = mode /\ new.undo = FALSE /\ Become(r, new)
    BY <1>3 DEF Idle, StartWorktree
  <2> HIDE DEF new
  <2>2. QED
    BY <1>2, <2>1
<1>4. ASSUME NEW parent, NEW onDelete, StartSecondary(r, parent, onDelete)
      PROVE  Apart'
  <2> DEFINE new == [Idle EXCEPT !.pc = "nest", !.parent = parent, !.onDelete = onDelete]
  <2>1. new.pc = "nest" /\ new.mode \in Mode /\ new.undo = FALSE /\ Become(r, new)
    BY <1>4 DEF Idle, Mode, StartSecondary
  <2> HIDE DEF new
  <2>2. QED
    BY <1>2, <2>1
<1>5. ASSUME NEW id, NEW force, StartDelete(r, id, force)
      PROVE  Apart'
  <2> DEFINE new == [Idle EXCEPT !.pc = "lock", !.id = id, !.force = force]
  <2>1. new.pc = "lock" /\ new.mode \in Mode /\ new.undo = FALSE /\ Become(r, new)
    BY <1>5 DEF Idle, Mode, StartDelete
  <2> HIDE DEF new
  <2>2. QED
    BY <1>2, <2>1
<1>6. ASSUME StartDeleteProject(r) PROVE Apart'
  <2>1. Goto(r, "project") /\ "project" \notin {"add", "nest"} /\ "project" \notin Asking
        /\ "project" \notin Reserved
    BY <1>6 DEF StartDeleteProject, Asking, Reserved
  <2>2. QED
    BY <1>1, <2>1, ApartGoing
<1>7. QED
  BY <1>3, <1>4, <1>5, <1>6 DEF Starts

(* Only a setup goroutine waits for a script.                              *)
LEMMA ApartWaiting ==
  ASSUME IInv, Apart, Later, NEW w \in Worker, HookSucceeds(w) \/ HookFails(w)
  PROVE  Apart'
<1>1. /\ w \in Actor /\ w \notin Request /\ onDisk' = onDisk /\ creating' = creating
      /\ DOMAIN act[w] = DOMAIN Idle
  BY SessionLifecycleAssumption
     DEF HookSucceeds, HookFails, git, locks, IInv, Actors, Carries, Actor
<1>2. CASE HookSucceeds(w)
  <2> DEFINE new == [act[w] EXCEPT !.pc = "finalize"]
  <2>1. new.pc = "finalize" /\ new.then = act[w].then /\ Become(w, new)
    BY <1>1, <1>2 DEF HookSucceeds, Goto, Idle
  <2> HIDE DEF new
  <2>2. Alone(w) /\ act'[w] = new
    BY <1>1, <2>1, BecomeLeads
  <2>3. ASSUME NEW v \in Worker PROVE SetsUp(act'[v])
    BY <2>1, <2>2 DEF Alone, Actor, Apart, SetsUp, Asking
  <2>4. \A q \in Request \ {w} : act'[q] = act[q]
    BY <2>2 DEF Alone, Actor
  <2>5. QED
    BY <1>1, <2>3, <2>4, ApartAfter
<1>3. CASE CleanUp(w)
  <2> DEFINE new == [act[w] EXCEPT !.pc = "lock", !.force = TRUE, !.undo = TRUE]
  <2>1. Become(w, new) /\ new.pc = "lock" /\ new.then = act[w].then
    BY <1>1, <1>3 DEF CleanUp, Idle
  <2> HIDE DEF new
  <2>2. QED
    BY <1>1, <2>1, ApartCleaning
<1>4. CASE Become(w, Idle)
  BY <1>1, <1>4, ApartIdle
<1>5. QED
  BY <1>2, <1>3, <1>4 DEF HookFails

(* Every step keeps the creations of one branch apart.                     *)
LEMMA EveryStepSeparates == IInv /\ Knowing /\ Apart /\ [Next]_vars => Apart'
<1> SUFFICES ASSUME IInv, Knowing, Apart, [Next]_vars PROVE Apart'
  OBVIOUS
<1>1. Worker \subseteq Actor /\ Request \subseteq Actor /\ Sound
  BY DEF Actor, IInv
<1>2. Still => Later
  BY <1>1, StillIsSound
<1>3. CASE \E r \in Request : Starts(r)
  BY <1>1, <1>2, <1>3, StartLeads, ApartStarting
<1>4. ASSUME NEW a \in Actor, Steps(a) PROVE Apart'
  <2>1. Later
    BY <1>4, StepsAge
  <2>2. CASE ReconcileRead(a) \/ Nest(a) \/ ProjectRead(a)
    BY <2>1, <2>2, ApartReading
  <2>3. CASE \/ ReconcileStat(a) \/ PruneKill(a) \/ PruneWrite(a) \/ RemoveWorktree(a) \/ Kill(a)
             \/ Write(a) \/ NestTmux(a) \/ NestRecord(a) \/ ProjectKill(a) \/ ProjectWrite(a)
    BY <2>1, <2>3, ApartRemoving
  <2>4. CASE ReadState(a) \/ Reserve(a) \/ CheckGit(a) \/ AddWorktree(a)
    BY <2>1, <2>4, ApartCreating
  <2>5. CASE \/ CreateTmux(a) \/ Rollback(a) \/ Materialize(a) \/ Unwind(a) \/ UnwindRecord(a)
             \/ Undo(a) \/ UndoRecord(a) \/ DeleteBranch(a)
    BY <2>1, <2>5, ApartBuilding
  <2>6. CASE WriteRecord(a) \/ Declare(a) \/ StartHook(a) \/ DeletePlan(a)
    BY <2>1, <2>6, ApartRecording, ApartHooking, ApartPlanning
  <2>7. QED
    BY <1>4, <2>2, <2>3, <2>4, <2>5, <2>6 DEF Steps
<1>5. ASSUME NEW a \in Actor, Locks(a) PROVE Apart'
  <2>1. Still
    BY <1>5 DEF Locks, DeleteLocks, Finalize, Still, records
  <2>2. QED
    BY <1>2, <1>5, <2>1, ApartReading, ApartBuilding DEF Locks
<1>6. CASE \E w \in Worker : HookSucceeds(w) \/ HookFails(w)
  <2>1. Still
    BY <1>6 DEF HookSucceeds, HookFails, Still, records
  <2>2. QED
    BY <1>2, <1>6, <2>1, ApartWaiting
<1>7. CASE UNCHANGED <<sessions, creating, act>> /\ onDisk' \subseteq onDisk
  BY <1>7 DEF Apart, Sure
<1>8. CASE (\E b \in Branch : DirectoryVanishes(b)) \/ (\E name \in tmux : TmuxExits(name))
  BY <1>7, <1>8 DEF DirectoryVanishes, TmuxExits, records, git, locks
<1>9. CASE UNCHANGED vars
  BY <1>7, <1>9 DEF vars, records, git, locks
<1>10. QED
  BY <1>3, <1>4, <1>5, <1>6, <1>8, <1>9 DEF Next

(* Reservations are apart, in every run.                                   *)
LEMMA AlwaysApart == Spec => []Apart
<1>1. Init => Apart
  <2>1. /\ Idle.pc = "idle" /\ Idle.undo = FALSE /\ Idle.mode \in Mode /\ Idle.then = "idle"
    BY DEF Idle, Mode
  <2>2. Sure(sessions, onDisk, Idle) /\ SetsUp(Idle) /\ ~ Holds(Idle)
    BY <2>1 DEF Sure, SetsUp, Asking, Holds, Reserved
  <2>3. QED
    BY <2>2 DEF Init, Apart, Actor
<1>2. QED
  BY <1>1, EveryStepSeparates, AlwaysKnowing, PTL DEF Spec

(* However many requests ask for one branch, and whatever is deleted or    *)
(* fails meanwhile, a creation that rolls back takes back the worktree it  *)
(* added and that of no other creation: reserveCreate holds from the       *)
(* questions to git to the last rollback, and the cleanup of a setup       *)
(* releases the branch it reserved and no other.                           *)
THEOREM RollbackAlwaysTakesItsOwn == Spec => []RollbackTakesItsOwn
<1>1. Apart => RollbackTakesItsOwn
  BY DEF Apart, Sure, RollbackTakesItsOwn, At, Adds, Holds, Reserved
<1>2. QED
  BY <1>1, AlwaysApart, PTL

------------------------------------------------------------------------------
(* One request at a time implements SessionTree.  First, that SessionTree  *)
(* sees of the records what the planner sees of them.                      *)

(* A record without what git and tmux know of it.                          *)
LEMMA ShapeOfRecord ==
  /\ DOMAIN Shape = DOMAIN sessions
  /\ \A i \in DOMAIN sessions :
       Shape[i] = [type |-> sessions[i].type, parent |-> sessions[i].parent,
                   onDelete |-> sessions[i].onDelete]
BY DEF Shape

(* The same sessions of each type.                                         *)
LEMMA ShapeOfType ==
  ASSUME NEW kind
  PROVE  Tree!OfType(Shape, kind) = OfType(sessions, kind)
BY ShapeOfRecord DEF Tree!OfType, OfType

(* The same children.                                                      *)
LEMMA ShapeChildren ==
  ASSUME NEW id
  PROVE  Tree!Children(Shape, id) = Children(sessions, id)
BY ShapeOfRecord DEF Tree!Children, Children

(* The same climb.                                                         *)
LEMMA ShapeAncestors ==
  ASSUME NEW id \in DOMAIN sessions
  PROVE  Tree!Ancestors(Shape, id) = Ancestors(sessions, id)
<1>1. ASSUME NEW C \in SUBSET DOMAIN sessions
      PROVE  Tree!UpClosed(Shape, id, C) <=> UpClosed(sessions, id, C)
  BY ShapeOfRecord DEF Tree!UpClosed, UpClosed
<1>2. QED
  BY <1>1, ShapeOfRecord DEF Tree!Ancestors, Ancestors

(* The same walk down.                                                     *)
LEMMA ShapeDescendants ==
  ASSUME NEW id
  PROVE  Tree!SecondaryDescendants(Shape, id) = SecondaryDescendants(sessions, id)
<1>1. ASSUME NEW C \in SUBSET DOMAIN sessions
      PROVE  Tree!DownClosed(Shape, id, C) <=> DownClosed(sessions, id, C)
  BY ShapeOfRecord, ShapeOfType DEF Tree!DownClosed, DownClosed, OfType
<1>2. QED
  BY <1>1, ShapeOfRecord DEF Tree!SecondaryDescendants, SecondaryDescendants

(* The same verdict on the topology.                                       *)
LEMMA ShapeIndex == Tree!ValidIndex(Shape) <=> ValidIndex(sessions)
BY ShapeOfRecord, ShapeOfType, ShapeAncestors DEF Tree!ValidIndex, ValidIndex, OfType

(* The same verdict on the chain of parents.                               *)
LEMMA ShapeChain ==
  ASSUME NEW id \in DOMAIN sessions
  PROVE  Tree!KnownChain(Shape, id) <=> KnownChain(sessions, id)
<1>1. \A a \in Ancestors(sessions, id) \cup {id} : a \in DOMAIN sessions
  BY DEF Ancestors
<1>2. QED
  BY <1>1, ShapeOfRecord, ShapeAncestors DEF Tree!KnownChain, KnownChain

(* The instance counts as this module does.                                *)
LEMMA SameCardinality ==
  ASSUME NEW S
  PROVE  Tree!Cardinality(S) = Cardinality(S)
BY DEF Tree!Cardinality, Cardinality

(* The same depth.                                                         *)
LEMMA ShapeDepth ==
  ASSUME NEW id \in DOMAIN sessions
  PROVE  Tree!Depth(Shape, id) = Depth(sessions, id)
BY ShapeAncestors, ShapeOfType, SameCardinality DEF Tree!Depth, Depth

(* The same choice of the nearest.                                         *)
LEMMA SameNearest ==
  ASSUME NEW ids
  PROVE  Tree!Nearest(ids) = Nearest(ids)
BY DEF Tree!Nearest, Nearest, Tree!NoParent, NoParent

(* The same refusal.                                                       *)
LEMMA SameNoPlan == Tree!NoPlan = NoPlan
BY DEF Tree!NoPlan, NoPlan

(* The three plans.                                                        *)
LEMMA ShapeWorktreeRemoval ==
  ASSUME NEW id \in OfType(sessions, "worktree")
  PROVE  Tree!PlanWorktreeRemoval(Shape, id) = PlanWorktreeRemoval(sessions, id)
<1>1. id \in DOMAIN sessions /\ Shape[id].parent = sessions[id].parent
  BY ShapeOfRecord DEF OfType
<1>2. (Tree!ValidIndex(Shape) <=> ValidIndex(sessions))
      /\ (Tree!KnownChain(Shape, id) <=> KnownChain(sessions, id))
  BY <1>1, ShapeIndex, ShapeChain
<1>3. /\ Tree!OfType(Shape, "worktree") = OfType(sessions, "worktree")
      /\ Tree!SecondaryDescendants(Shape, id) = SecondaryDescendants(sessions, id)
      /\ Tree!Children(Shape, id) = Children(sessions, id)
  BY ShapeOfType, ShapeDescendants, ShapeChildren
<1>4. QED
  BY <1>1, <1>2, <1>3, SameNoPlan DEF Tree!PlanWorktreeRemoval, PlanWorktreeRemoval

(* The plan of a secondary's deletion.                                     *)
LEMMA ShapeSecondaryRemoval ==
  ASSUME NEW id \in OfType(sessions, "secondary")
  PROVE  Tree!PlanSecondaryRemoval(Shape, id) = PlanSecondaryRemoval(sessions, id)
<1>1. /\ id \in DOMAIN sessions /\ Shape[id].parent = sessions[id].parent
      /\ Shape[id].onDelete = sessions[id].onDelete
  BY ShapeOfRecord DEF OfType
<1>2. /\ Tree!OfType(Shape, "secondary") = OfType(sessions, "secondary")
      /\ Tree!SecondaryDescendants(Shape, id) = SecondaryDescendants(sessions, id)
      /\ Tree!Children(Shape, id) = Children(sessions, id)
  BY ShapeOfType, ShapeDescendants, ShapeChildren
<1>3. QED
  BY <1>1, <1>2, ShapeIndex, SameNoPlan DEF Tree!PlanSecondaryRemoval, PlanSecondaryRemoval

(* The plan of a prune.                                                    *)
LEMMA ShapePrune ==
  ASSUME NEW lost
  PROVE  Tree!PlanWorktreePrune(Shape, lost) = PlanWorktreePrune(sessions, lost)
<1>1. /\ Tree!OfType(Shape, "worktree") = OfType(sessions, "worktree")
      /\ OfType(sessions, "worktree") \subseteq DOMAIN sessions
  BY ShapeOfType DEF OfType
<1>2. {Tree!SecondaryDescendants(Shape, id) : id \in lost}
        = {SecondaryDescendants(sessions, id) : id \in lost}
  BY ShapeDescendants
<1> DEFINE orphans == {w \in OfType(sessions, "worktree") \ lost : sessions[w].parent \in lost}
<1>3. {w \in Tree!OfType(Shape, "worktree") \ lost : Shape[w].parent \in lost} = orphans
  BY <1>1, ShapeOfRecord
<1>4. \A c \in orphans : Tree!NearestKept(Shape, c, lost) = NearestKept(sessions, c, lost)
  BY <1>1, ShapeAncestors, SameNearest DEF Tree!NearestKept, NearestKept
<1> HIDE DEF orphans
<1>5. [c \in orphans |-> Tree!NearestKept(Shape, c, lost)]
        = [c \in orphans |-> NearestKept(sessions, c, lost)]
  BY <1>4
<1>6. (Tree!ValidIndex(Shape) /\ lost \subseteq Tree!OfType(Shape, "worktree"))
        <=> (ValidIndex(sessions) /\ lost \subseteq OfType(sessions, "worktree"))
  BY <1>1, ShapeIndex
<1>7. CASE ~ (ValidIndex(sessions) /\ lost \subseteq OfType(sessions, "worktree"))
  BY <1>6, <1>7, SameNoPlan DEF Tree!PlanWorktreePrune, PlanWorktreePrune
<1>8. CASE ValidIndex(sessions) /\ lost \subseteq OfType(sessions, "worktree")
  <2>1. PlanWorktreePrune(sessions, lost)
          = [ok |-> TRUE, delete |-> lost \cup UNION {SecondaryDescendants(sessions, id) : id \in lost},
             reparent |-> [c \in orphans |-> NearestKept(sessions, c, lost)]]
    BY <1>8 DEF PlanWorktreePrune, orphans
  <2>2. Tree!PlanWorktreePrune(Shape, lost)
          = [ok |-> TRUE, delete |-> lost \cup UNION {Tree!SecondaryDescendants(Shape, id) : id \in lost},
             reparent |-> [c \in {w \in Tree!OfType(Shape, "worktree") \ lost : Shape[w].parent \in lost}
                             |-> Tree!NearestKept(Shape, c, lost)]]
    BY <1>6, <1>8 DEF Tree!PlanWorktreePrune
  <2>3. QED
    BY <2>1, <2>2, <1>2, <1>3, <1>5
<1>9. QED
  BY <1>7, <1>8

------------------------------------------------------------------------------
(* What holds between the steps of the only request.                       *)

OneAtATime(r) == Request = {r} /\ Worker = {}

Rooted == \A i \in DOMAIN sessions : sessions[i].parent \in DOMAIN sessions \cup {NoParent}
OneEach == \A i, j \in OfType(sessions, "worktree") : sessions[i].branch = sessions[j].branch => i = j
Whole == DOMAIN sessions \subseteq SessionID /\ \A i \in DOMAIN sessions : "onDelete" \in DOMAIN sessions[i]
Tidy == Rooted /\ OneEach /\ Whole

(* Its plan is made from the records as they are; of the worktrees found   *)
(* missing none comes back.                                                *)
Prunes(state) ==
  \E lost \in SUBSET MissingIn(sessions) :
    lost # {} /\ state.plan = PlanWorktreePrune(sessions, lost)
Removes(state) ==
  /\ state.plan.ok
  /\ \/ /\ state.id \in OfType(sessions, "worktree")
        /\ state.plan = PlanWorktreeRemoval(sessions, state.id)
        /\ state.pc = "remove" => state.branch = sessions[state.id].branch
     \/ /\ state.pc # "remove"
        /\ state.id \in OfType(sessions, "secondary")
        /\ state.plan = PlanSecondaryRemoval(sessions, state.id)

(* The session that is being set up has no children but the secondaries    *)
(* made so far, and those have none.                                       *)
Awaits(id, made) ==
  /\ id \in OfType(sessions, "worktree")
  /\ \A i \in Children(sessions, id) : \E n \in 1 .. Len(made) : i = made[n]
  /\ \A n \in 1 .. Len(made) :
       /\ made[n] \in DOMAIN sessions
       /\ sessions[made[n]].onDelete = "cascade"
       /\ Children(sessions, made[n]) = {}
Settles(state) ==
  /\ Awaits(state.id, state.made)
  /\ state.pc \in {"hook", "undo", "undo-record"} => state.made = <<>>

Nests(state) ==
  /\ state.onDelete \in OnDelete
  /\ state.pc # "nest" => state.parent \in DOMAIN sessions /\ Depth(sessions, state.parent) < MaxDepth

Pruning == {"prune-kill", "prune-write"}
Nesting == {"nest", "nest-tmux", "nest-record"}
Removing == {"remove", "kill", "write"}
Elsewhere == {"project", "project-kill", "project-write", "running", "finalize"}
Fits(state) ==
  /\ state.pc \notin Elsewhere
  /\ state.pc \in {"reconcile", "stat"} \cup Pruning => state.then \in {"read", "plan"}
  /\ state.pc = "stat" => state.snap = sessions
  /\ state.pc \in Pruning => Prunes(state)
  /\ state.pc \in Removing => Removes(state)
  /\ state.pc \in Creating \cup {"rollback"} => state.branch \notin Recorded
  /\ state.pc \in Creating => state.parent \in OfType(sessions, "worktree") \cup {NoParent}
  /\ state.pc \in Settling => Settles(state)
  /\ state.pc \in Nesting => Nests(state)

Orderly(r) == Tidy /\ Fits(act[r])
Maps == [Tree!Next]_(Tree!vars)

------------------------------------------------------------------------------
(* Steps that leave the records alone.                                     *)

(* Waiting, reading and forgetting need nothing.                           *)
LEMMA FitsFree ==
  ASSUME NEW state, state.pc \in {"idle", "lock", "plan", "read", "branch"}
  PROVE  Fits(state)
BY DEF Fits, Elsewhere, Pruning, Removing, Creating, Settling, Nesting

(* What an actor has in hand stays fit while records and disk are.         *)
LEMMA FitsStays ==
  ASSUME sessions' = sessions, onDisk' = onDisk, NEW state
  PROVE  Fits(state)' <=> Fits(state)
<1>1. MissingIn(sessions)' = MissingIn(sessions) /\ Recorded' = Recorded
  BY DEF MissingIn, Recorded
<1>2. /\ Prunes(state)' <=> Prunes(state)
      /\ Removes(state)' <=> Removes(state)
      /\ Settles(state)' <=> Settles(state)
      /\ Nests(state)' <=> Nests(state)
  BY <1>1 DEF Prunes, Removes, Settles, Awaits, Nests
<1>3. QED
  BY <1>1, <1>2 DEF Fits

(* Neither records nor missing directories change.                         *)
LEMMA StillMaps ==
  ASSUME sessions' = sessions, nextID' = nextID, MissingIn(sessions)' = MissingIn(sessions), Tidy
  PROVE  Tidy' /\ Maps
<1>1. Shape' = Shape
  BY DEF Shape
<1>2. UNCHANGED Tree!vars
  BY <1>1 DEF Tree!vars
<1>3. Tidy'
  BY DEF Tidy, Rooted, OneEach, Whole
<1>4. QED
  BY <1>2, <1>3 DEF Maps

(* A step that only changes what the request is doing is a stutter.        *)
LEMMA CalmMaps ==
  ASSUME sessions' = sessions, nextID' = nextID, onDisk' = onDisk, NEW r, Tidy, Fits(act'[r])
  PROVE  Orderly(r)' /\ Maps
<1>1. MissingIn(sessions)' = MissingIn(sessions)
  BY DEF MissingIn
<1>2. Fits(act[r])'
  <2>1. ASSUME NEW state, Fits(state) PROVE Fits(state)'
    BY <2>1, FitsStays
  <2>2. QED
    BY FitsStays
<1>3. QED
  BY <1>1, <1>2, StillMaps DEF Orderly

------------------------------------------------------------------------------
(* Steps that change the records.                                          *)

(* A record written is a record added to the tree.                         *)
LEMMA AddMaps ==
  ASSUME NEW record, AddRecord(record)
  PROVE  Tree!Add([type |-> record.type, parent |-> record.parent, onDelete |-> record.onDelete])
<1>1. nextID \in Tree!SessionID /\ nextID' = nextID + 1
  BY DEF AddRecord, Tree!SessionID, SessionID
<1>2. DOMAIN sessions' = DOMAIN sessions \cup {nextID}
      /\ \A i \in DOMAIN sessions' : sessions'[i] = IF i = nextID THEN record ELSE sessions[i]
  BY DEF AddRecord
<1>3. Shape' = [i \in DOMAIN Shape \cup {nextID} |->
                  IF i = nextID
                    THEN [type |-> record.type, parent |-> record.parent, onDelete |-> record.onDelete]
                    ELSE Shape[i]]
  BY <1>2 DEF Shape
<1>4. QED
  BY <1>1, <1>3 DEF Tree!Add

(* Carrying out a plan changes nothing of a record but its parent.         *)
LEMMA CarriedRecord ==
  ASSUME NEW plan, sessions' = Carried(sessions, plan), Fields, Whole,
         NEW i \in DOMAIN sessions'
  PROVE  /\ i \in DOMAIN sessions \ plan.delete
         /\ Same(sessions[i], sessions'[i]) /\ sessions'[i].onDelete = sessions[i].onDelete
         /\ sessions'[i].parent = IF i \in DOMAIN plan.reparent THEN plan.reparent[i] ELSE sessions[i].parent
<1>1. i \in DOMAIN sessions \ plan.delete
      /\ sessions'[i] = IF i \in DOMAIN plan.reparent
                          THEN [sessions[i] EXCEPT !.parent = plan.reparent[i]] ELSE sessions[i]
  BY DEF Carried
<1>2. {"type", "parent", "branch", "tmux", "onDelete"} \subseteq DOMAIN sessions[i]
  BY <1>1 DEF Fields, Described, Whole
<1>3. QED
  BY <1>1, <1>2 DEF Same

(* A plan written, unbroken, is a plan carried out on the tree.            *)
LEMMA CarryMaps ==
  ASSUME NEW plan, plan.ok, sessions' = Carried(sessions, plan), nextID' = nextID, onDisk' = onDisk,
         Fields, Whole
  PROVE  Tree!Carry(plan)
<1>1. DOMAIN sessions' = DOMAIN sessions \ plan.delete
  BY DEF Carried
<1>2. \A i \in DOMAIN sessions' :
         /\ Same(sessions[i], sessions'[i]) /\ sessions'[i].onDelete = sessions[i].onDelete
         /\ sessions'[i].parent = IF i \in DOMAIN plan.reparent THEN plan.reparent[i] ELSE sessions[i].parent
  BY CarriedRecord
<1>3. Shape' = Tree!Carried(Shape, plan)
  <2>1. DOMAIN Shape' = DOMAIN sessions \ plan.delete
    BY <1>1 DEF Shape
  <2> DEFINE moved == [i \in DOMAIN sessions \ plan.delete |->
                         IF i \in DOMAIN plan.reparent
                           THEN [Shape[i] EXCEPT !.parent = plan.reparent[i]] ELSE Shape[i]]
  <2>2. Tree!Carried(Shape, plan) = moved
    BY ShapeOfRecord DEF Tree!Carried
  <2>3. ASSUME NEW i \in DOMAIN sessions \ plan.delete PROVE Shape'[i] = moved[i]
    <3>1. Shape'[i] = [type |-> sessions'[i].type, parent |-> sessions'[i].parent,
                       onDelete |-> sessions'[i].onDelete]
      BY <1>1 DEF Shape
    <3>2. Shape[i] = [type |-> sessions[i].type, parent |-> sessions[i].parent,
                      onDelete |-> sessions[i].onDelete]
      BY DEF Shape
    <3>3. QED
      BY <3>1, <3>2, <1>1, <1>2 DEF Same
  <2>4. QED
    BY <2>1, <2>2, <2>3, <1>1 DEF Shape
<1>4. MissingIn(sessions)' = MissingIn(sessions) \ plan.delete
  BY <1>1, <1>2 DEF MissingIn, OfType, Same
<1>5. QED
  BY <1>3, <1>4 DEF Tree!Carry

(* A carried plan that leaves no one under a deleted parent keeps the      *)
(* records tidy.                                                           *)
Covers(plan) ==
  \A i \in DOMAIN sessions \ plan.delete :
    IF i \in DOMAIN plan.reparent
      THEN plan.reparent[i] \in (DOMAIN sessions \ plan.delete) \cup {NoParent}
      ELSE sessions[i].parent \notin plan.delete

(* Such a plan leaves tidy records.                                        *)
LEMMA TidyCarrying ==
  ASSUME NEW plan, sessions' = Carried(sessions, plan), Fields, Tidy, Covers(plan)
  PROVE  Tidy'
<1>1. DOMAIN sessions' = DOMAIN sessions \ plan.delete
  BY DEF Carried
<1>2. \A i \in DOMAIN sessions' :
         /\ Same(sessions[i], sessions'[i]) /\ sessions'[i].onDelete = sessions[i].onDelete
         /\ sessions'[i].parent = IF i \in DOMAIN plan.reparent THEN plan.reparent[i] ELSE sessions[i].parent
  BY CarriedRecord DEF Tidy
<1>3. Rooted'
  BY <1>1, <1>2 DEF Tidy, Rooted, Covers
<1>4. OneEach'
  BY <1>1, <1>2 DEF Tidy, OneEach, OfType, Same
<1>5. Whole'
  <2>1. ASSUME NEW i \in DOMAIN sessions' PROVE "onDelete" \in DOMAIN sessions'[i]
    <3>1. sessions'[i] = IF i \in DOMAIN plan.reparent
                            THEN [sessions[i] EXCEPT !.parent = plan.reparent[i]] ELSE sessions[i]
      BY <1>1 DEF Carried
    <3>2. "onDelete" \in DOMAIN sessions[i]
      BY <1>1 DEF Tidy, Whole
    <3>3. QED
      BY <3>1, <3>2
  <2>2. QED
    BY <1>1, <2>1 DEF Tidy, Whole
<1>6. QED
  BY <1>3, <1>4, <1>5 DEF Tidy

(* The walk down takes every secondary child it meets.                     *)
LEMMA DescendantsClosed ==
  ASSUME NEW s, NEW id, NEW c \in OfType(s, "secondary"),
         s[c].parent \in SecondaryDescendants(s, id) \cup {id}
  PROVE  c \in SecondaryDescendants(s, id)
<1>1. ASSUME NEW C \in SUBSET DOMAIN s, DownClosed(s, id, C) PROVE c \in C
  <2>1. SecondaryDescendants(s, id) \subseteq C
    BY <1>1 DEF SecondaryDescendants
  <2>2. QED
    BY <1>1, <2>1 DEF DownClosed
<1>2. QED
  BY <1>1 DEF SecondaryDescendants, OfType

(* Who has a secondary for a parent is secondary.                          *)
LEMMA UnderSecondary ==
  ASSUME Sound, NEW i \in DOMAIN sessions, sessions[i].parent \in OfType(sessions, "secondary")
  PROVE  i \in OfType(sessions, "secondary")
<1>1. sessions[i].parent \in Int /\ sessions[i].parent > 0
  BY DEF OfType, Sound, Aged
<1>2. sessions[i].type # "main"
  BY <1>1 DEF Sound, Aged, NoParent
<1>3. sessions[i].type # "worktree"
  BY DEF Sound, Upright, OfType
<1>4. QED
  BY <1>2, <1>3 DEF Sound, Aged, SessionType, OfType

(* The worktree children move up, the secondary subtree goes.              *)
LEMMA WorktreeRemovalCovers ==
  ASSUME Sound, Tidy, NEW id \in OfType(sessions, "worktree"),
         PlanWorktreeRemoval(sessions, id).ok
  PROVE  Covers(PlanWorktreeRemoval(sessions, id))
<1> DEFINE plan == PlanWorktreeRemoval(sessions, id)
           below == SecondaryDescendants(sessions, id)
<1>1. /\ plan.delete = below \cup {id}
      /\ plan.reparent =
           [c \in Children(sessions, id) \cap OfType(sessions, "worktree") |-> sessions[id].parent]
  BY DEF PlanWorktreeRemoval, NoPlan
<1>2. below \subseteq OfType(sessions, "secondary")
  BY DescendantsAreSecondary
<1>3. id \in DOMAIN sessions /\ id \in Int /\ id > 0
  BY DEF OfType, Sound, Aged
<1>4. sessions[id].parent \in (DOMAIN sessions \ plan.delete) \cup {NoParent}
  <2>1. sessions[id].parent \in DOMAIN sessions \cup {NoParent}
    BY <1>3 DEF Tidy, Rooted
  <2>2. sessions[id].parent \notin OfType(sessions, "secondary")
    BY DEF Sound, Upright
  <2>3. sessions[id].parent # NoParent => sessions[id].parent # id
    BY <1>3 DEF Sound, Aged
  <2>4. QED
    BY <1>1, <1>2, <2>1, <2>2, <2>3
<1>5. ASSUME NEW i \in DOMAIN sessions \ plan.delete, i \notin DOMAIN plan.reparent,
             sessions[i].parent \in plan.delete
      PROVE  FALSE
  <2>1. i \notin OfType(sessions, "secondary")
    BY <1>1, <1>5, DescendantsClosed
  <2>2. sessions[i].parent \notin below
    BY <1>2, <1>5, <2>1, UnderSecondary
  <2>3. sessions[i].parent = id
    BY <1>1, <1>5, <2>2
  <2>4. sessions[i].type # "worktree"
    BY <1>1, <1>5, <2>3 DEF Children, OfType
  <2>5. sessions[i].type # "main"
    BY <1>3, <1>5, <2>3 DEF Sound, Aged, NoParent
  <2>6. QED
    BY <1>5, <2>1, <2>4, <2>5 DEF Sound, Aged, SessionType, OfType
<1>6. QED
  BY <1>1, <1>4, <1>5 DEF Covers

(* The children move up or go, as the policy says.                         *)
LEMMA SecondaryRemovalCovers ==
  ASSUME Sound, Tidy, NEW id \in OfType(sessions, "secondary"),
         PlanSecondaryRemoval(sessions, id).ok
  PROVE  Covers(PlanSecondaryRemoval(sessions, id))
<1> DEFINE plan == PlanSecondaryRemoval(sessions, id)
           below == SecondaryDescendants(sessions, id)
<1>1. id \in DOMAIN sessions /\ id \in Int /\ id > 0
  BY DEF OfType, Sound, Aged
<1>2. CASE sessions[id].onDelete = "inherit"
  <2>1. plan.delete = {id} /\ plan.reparent = [c \in Children(sessions, id) |-> sessions[id].parent]
    BY <1>2 DEF PlanSecondaryRemoval, NoPlan
  <2>2. sessions[id].parent \in (DOMAIN sessions \ {id}) \cup {NoParent}
    BY <1>1 DEF Tidy, Rooted, Sound, Aged
  <2>3. QED
    BY <2>1, <2>2 DEF Covers, Children
<1>3. CASE sessions[id].onDelete # "inherit"
  <2>1. plan.delete = below \cup {id} /\ DOMAIN plan.reparent = {}
    BY <1>3 DEF PlanSecondaryRemoval, NoPlan
  <2>2. below \subseteq OfType(sessions, "secondary")
    BY DescendantsAreSecondary
  <2>3. ASSUME NEW i \in DOMAIN sessions \ plan.delete, sessions[i].parent \in plan.delete
        PROVE  FALSE
    <3>1. i \in OfType(sessions, "secondary")
      BY <2>1, <2>2, <2>3, UnderSecondary
    <3>2. QED
      BY <2>1, <2>3, <3>1, DescendantsClosed
  <2>4. QED
    BY <2>1, <2>3 DEF Covers
<1>4. QED
  BY <1>2, <1>3

(* The worktrees below the pruned ones move up to a kept one.              *)
LEMMA PruneCovers ==
  ASSUME Sound, Tidy, NEW lost \in SUBSET OfType(sessions, "worktree"),
         PlanWorktreePrune(sessions, lost).ok
  PROVE  Covers(PlanWorktreePrune(sessions, lost))
<1> DEFINE plan == PlanWorktreePrune(sessions, lost)
           below == UNION {SecondaryDescendants(sessions, id) : id \in lost}
           moved == {w \in OfType(sessions, "worktree") \ lost : sessions[w].parent \in lost}
<1>1. /\ plan.delete = lost \cup below
      /\ plan.reparent = [c \in moved |-> NearestKept(sessions, c, lost)]
  BY DEF PlanWorktreePrune, NoPlan
<1>2. below \subseteq OfType(sessions, "secondary")
  <2>1. \A id \in lost : SecondaryDescendants(sessions, id) \subseteq OfType(sessions, "secondary")
    BY DescendantsAreSecondary
  <2>2. QED
    BY <2>1
<1>3. ASSUME NEW c \in moved
      PROVE  NearestKept(sessions, c, lost) \in (DOMAIN sessions \ plan.delete) \cup {NoParent}
  <2>1. NearestKept(sessions, c, lost) \in (Ancestors(sessions, c) \ lost) \cup {NoParent}
    BY NearestMember DEF NearestKept
  <2>2. Ancestors(sessions, c) \subseteq DOMAIN sessions \ OfType(sessions, "secondary")
    BY ClimbAboveWorktree DEF Sound
  <2>3. QED
    BY <1>1, <1>2, <2>1, <2>2
<1>4. ASSUME NEW i \in DOMAIN sessions \ plan.delete, i \notin moved,
             sessions[i].parent \in plan.delete
      PROVE  FALSE
  <2>1. i \notin OfType(sessions, "secondary")
    <3>1. SUFFICES ASSUME i \in OfType(sessions, "secondary") PROVE FALSE
      OBVIOUS
    <3>2. PICK id \in lost : sessions[i].parent \in SecondaryDescendants(sessions, id) \cup {id}
      BY <1>1, <1>4
    <3>3. i \in SecondaryDescendants(sessions, id)
      BY <3>1, <3>2, DescendantsClosed
    <3>4. QED
      BY <1>1, <1>4, <3>3
  <2>2. sessions[i].parent \in lost
    BY <1>1, <1>2, <1>4, <2>1, UnderSecondary
  <2>3. sessions[i].type # "worktree"
    BY <1>1, <1>4, <2>2 DEF OfType
  <2>4. sessions[i].parent # NoParent
    BY <2>2 DEF OfType, Sound, Aged, NoParent
  <2>5. sessions[i].type # "main"
    BY <1>4, <2>4 DEF Sound, Aged
  <2>6. QED
    BY <1>4, <2>1, <2>3, <2>5 DEF Sound, Aged, SessionType, OfType
<1>5. QED
  BY <1>1, <1>3, <1>4 DEF Covers

(* The same of what is in hand after the step.                             *)
LEMMA FreeAfter ==
  ASSUME NEW a, act'[a].pc \in {"idle", "lock", "plan", "read", "branch"}
  PROVE  Fits(act[a])'
BY DEF Fits, Elsewhere, Pruning, Removing, Creating, Settling, Nesting

(* A deletion's write of a worktree is DeleteWorktree of the tree.         *)
LEMMA WorktreeRemovalMaps ==
  ASSUME Sound, Tidy, NEW id \in OfType(sessions, "worktree"), PlanWorktreeRemoval(sessions, id).ok,
         sessions' = Carried(sessions, PlanWorktreeRemoval(sessions, id)),
         nextID' = nextID, onDisk' = onDisk
  PROVE  Tidy' /\ Maps
<1>1. Tree!Carry(PlanWorktreeRemoval(sessions, id))
  BY CarryMaps DEF Sound, Tidy
<1>2. id \in Tree!SessionID /\ id \in Tree!OfType(Shape, "worktree")
  BY ShapeOfType DEF Tidy, Whole, OfType, Tree!SessionID, SessionID
<1>3. Tree!DeleteWorktree(id)
  BY <1>1, <1>2, ShapeWorktreeRemoval DEF Tree!DeleteWorktree
<1>4. Tidy'
  BY WorktreeRemovalCovers, TidyCarrying DEF Sound
<1>5. QED
  BY <1>2, <1>3, <1>4 DEF Maps, Tree!Next

(* A deletion's write of a secondary is DeleteSecondary of the tree.       *)
LEMMA SecondaryRemovalMaps ==
  ASSUME Sound, Tidy, NEW id \in OfType(sessions, "secondary"), PlanSecondaryRemoval(sessions, id).ok,
         sessions' = Carried(sessions, PlanSecondaryRemoval(sessions, id)),
         nextID' = nextID, onDisk' = onDisk
  PROVE  Tidy' /\ Maps
<1>1. Tree!Carry(PlanSecondaryRemoval(sessions, id))
  BY CarryMaps DEF Sound, Tidy
<1>2. id \in Tree!SessionID /\ id \in Tree!OfType(Shape, "secondary")
  BY ShapeOfType DEF Tidy, Whole, OfType, Tree!SessionID, SessionID
<1>3. Tree!DeleteSecondary(id)
  BY <1>1, <1>2, ShapeSecondaryRemoval DEF Tree!DeleteSecondary
<1>4. Tidy'
  BY SecondaryRemovalCovers, TidyCarrying DEF Sound
<1>5. QED
  BY <1>2, <1>3, <1>4 DEF Maps, Tree!Next

(* The write of a prune is Prune of the tree, of what was found missing.   *)
LEMMA PruneMaps ==
  ASSUME Sound, Tidy, NEW lost \in SUBSET MissingIn(sessions), lost # {},
         PlanWorktreePrune(sessions, lost).ok,
         sessions' = Carried(sessions, PlanWorktreePrune(sessions, lost)),
         nextID' = nextID, onDisk' = onDisk
  PROVE  Tidy' /\ Maps
<1>1. Tree!Carry(PlanWorktreePrune(sessions, lost))
  BY CarryMaps DEF Sound, Tidy
<1>2. lost \subseteq OfType(sessions, "worktree")
  BY DEF MissingIn
<1>3. lost \in SUBSET Tree!SessionID
  BY <1>2 DEF Tidy, Whole, OfType, Tree!SessionID, SessionID
<1>4. Tree!Prune(lost)
  BY <1>1, ShapePrune DEF Tree!Prune
<1>5. Tidy'
  BY <1>2, PruneCovers, TidyCarrying DEF Sound
<1>6. QED
  BY <1>3, <1>4, <1>5 DEF Maps, Tree!Next

(* The parents a plan rewrites all have a record still.                    *)
LEMMA PlansWhole ==
  ASSUME NEW s, NEW id, NEW lost
  PROVE  /\ DOMAIN PlanWorktreeRemoval(s, id).reparent \subseteq DOMAIN s
         /\ DOMAIN PlanSecondaryRemoval(s, id).reparent \subseteq DOMAIN s
         /\ DOMAIN PlanWorktreePrune(s, lost).reparent \subseteq DOMAIN s
<1>1. DOMAIN NoPlan.reparent = {}
  BY DEF NoPlan
<1>2. DOMAIN PlanWorktreeRemoval(s, id).reparent \subseteq DOMAIN s
  BY <1>1 DEF PlanWorktreeRemoval, Children
<1>3. DOMAIN PlanSecondaryRemoval(s, id).reparent \subseteq DOMAIN s
  BY <1>1 DEF PlanSecondaryRemoval, Children
<1>4. DOMAIN PlanWorktreePrune(s, lost).reparent \subseteq DOMAIN s
  BY <1>1 DEF PlanWorktreePrune, OfType
<1>5. QED
  BY <1>2, <1>3, <1>4

(* Nothing of the plan is broken, since nobody else has written.           *)
LEMMA PruneWriteMaps ==
  ASSUME IInv, NEW r \in Actor, Orderly(r), PruneWrite(r)
  PROVE  Orderly(r)' /\ Maps
<1>1. /\ Sound /\ act[r].pc = "prune-write" /\ Rewrite(act[r].plan)
      /\ nextID' = nextID /\ onDisk' = onDisk
  BY DEF IInv, PruneWrite, At, git
<1>2. PICK lost \in SUBSET MissingIn(sessions) :
        lost # {} /\ act[r].plan = PlanWorktreePrune(sessions, lost)
  BY <1>1 DEF Orderly, Fits, Pruning, Prunes
<1>3. Broken(act[r].plan) = {}
  BY <1>2, PlansWhole DEF Broken
<1>4. sessions' = Carried(sessions, PlanWorktreePrune(sessions, lost))
  BY <1>1, <1>2, <1>3 DEF Rewrite
<1>5. PlanWorktreePrune(sessions, lost).ok
  <2>1. ValidIndex(sessions) /\ lost \subseteq OfType(sessions, "worktree")
    BY <1>1, SoundIsValid DEF TopologyStaysValid, MissingIn
  <2>2. QED
    BY <2>1 DEF PlanWorktreePrune
<1>6. Tidy' /\ Maps
  BY <1>1, <1>2, <1>4, <1>5, PruneMaps DEF Orderly
<1>7. act'[r].pc \in {"read", "plan"}
  <2>1. Become(r, [Forget(r) EXCEPT !.pc = act[r].then])
    BY <1>3 DEF PruneWrite
  <2>2. act[r].then \in {"read", "plan"}
    BY <1>1 DEF Orderly, Fits, Pruning
  <2>3. QED
    BY <2>1, <2>2, ForgettingLeads
<1>8. QED
  BY <1>6, <1>7, FreeAfter DEF Orderly

(* So it is with a deletion.                                               *)
LEMMA WriteMaps ==
  ASSUME IInv, NEW r \in Actor, Orderly(r), Write(r)
  PROVE  Orderly(r)' /\ Maps
<1>1. /\ Sound /\ act[r].pc = "write" /\ Rewrite(act[r].plan)
      /\ nextID' = nextID /\ onDisk' = onDisk /\ EndRemoval(r)
  BY DEF IInv, Write, At, git
<1>2. act[r].plan.ok /\ \/ /\ act[r].id \in OfType(sessions, "worktree")
                           /\ act[r].plan = PlanWorktreeRemoval(sessions, act[r].id)
                        \/ /\ act[r].id \in OfType(sessions, "secondary")
                           /\ act[r].plan = PlanSecondaryRemoval(sessions, act[r].id)
  BY <1>1 DEF Orderly, Fits, Removing, Removes
<1>3. sessions' = Carried(sessions, act[r].plan)
  <2>1. Broken(act[r].plan) = {}
    BY <1>2, PlansWhole DEF Broken
  <2>2. QED
    BY <1>1, <2>1 DEF Rewrite
<1>4. Tidy' /\ Maps
  BY <1>1, <1>2, <1>3, WorktreeRemovalMaps, SecondaryRemovalMaps DEF Orderly
<1>5. act'[r].pc \in {"branch", "idle"}
  BY <1>1, EndingLeads
<1>6. QED
  BY <1>4, <1>5, FreeAfter DEF Orderly

(* A record more.                                                          *)
LEMMA AddTidy ==
  ASSUME Sound, Tidy, NEW record, AddRecord(record), "onDelete" \in DOMAIN record,
         record.parent \in DOMAIN sessions \cup {NoParent},
         record.type = "worktree" => record.branch \notin Recorded
  PROVE  /\ Tidy'
         /\ Children(sessions', nextID) = {}
         /\ \A i \in DOMAIN sessions :
              Children(sessions', i) = Children(sessions, i) \cup {n \in {nextID} : record.parent = i}
<1>1. /\ nextID' = nextID + 1 /\ nextID \in Int
      /\ DOMAIN sessions' = DOMAIN sessions \cup {nextID} /\ nextID \notin DOMAIN sessions
      /\ sessions'[nextID] = record /\ \A i \in DOMAIN sessions : sessions'[i] = sessions[i]
      /\ nextID \in SessionID
  BY AddingRecord DEF AddRecord
<1>2. nextID # NoParent
  BY DEF Sound, Counted, MainID, NoParent
<1>3. Rooted'
  BY <1>1 DEF Tidy, Rooted
<1>4. OneEach'
  <2>1. ASSUME NEW i \in OfType(sessions', "worktree"), NEW j \in OfType(sessions', "worktree"),
               sessions'[i].branch = sessions'[j].branch
        PROVE  i = j
    <3>1. \A k \in {i, j} : k # nextID => k \in OfType(sessions, "worktree") /\ sessions'[k] = sessions[k]
      BY <1>1 DEF OfType
    <3>2. nextID \in {i, j} => record.type = "worktree" /\ sessions'[nextID].branch \notin Recorded
      BY <1>1 DEF OfType
    <3>3. \A k \in OfType(sessions, "worktree") : sessions[k].branch \in Recorded
      BY DEF Recorded
    <3>4. QED
      BY <2>1, <3>1, <3>2, <3>3 DEF Tidy, OneEach
  <2>2. QED
    BY <2>1 DEF OneEach
<1>5. Whole'
  BY <1>1 DEF Tidy, Whole
<1>6. Children(sessions', nextID) = {}
  BY <1>1, <1>2 DEF Tidy, Rooted, Children
<1>7. QED
  BY <1>1, <1>3, <1>4, <1>5, <1>6 DEF Tidy, Children

(* A secondary written is CreateSecondary of the tree.                     *)
LEMMA SecondaryMaps ==
  ASSUME Sound, Tidy, NEW record, AddRecord(record), onDisk' = onDisk,
         record.type = "secondary", record.onDelete \in OnDelete,
         record.parent \in DOMAIN sessions, Depth(sessions, record.parent) < MaxDepth
  PROVE  Maps
<1> DEFINE parent == record.parent
<1>1. /\ DOMAIN sessions' = DOMAIN sessions \cup {nextID} /\ nextID \notin DOMAIN sessions
      /\ sessions'[nextID] = record /\ \A i \in DOMAIN sessions : sessions'[i] = sessions[i]
  BY AddingRecord
<1>2. MissingIn(sessions)' = MissingIn(sessions)
  BY <1>1 DEF MissingIn, OfType
<1>3. parent \in DOMAIN Shape /\ Tree!Depth(Shape, parent) < MaxDepth
  BY ShapeOfRecord, ShapeDepth
<1>4. Tree!CreateSecondary(parent, record.onDelete)
  BY <1>2, <1>3, AddMaps DEF Tree!CreateSecondary
<1>5. parent \in Tree!SessionID /\ record.onDelete \in Tree!OnDelete
  BY DEF Tidy, Whole, Tree!SessionID, SessionID, Tree!OnDelete, OnDelete
<1>6. QED
  BY <1>4, <1>5 DEF Maps, Tree!Next

(* The secondary that was asked for.                                       *)
LEMMA NestRecordMaps ==
  ASSUME IInv, NEW r \in Actor, Orderly(r), NestRecord(r)
  PROVE  Orderly(r)' /\ Maps
<1>1. Sound /\ act[r].pc = "nest-record" /\ Become(r, Idle) /\ onDisk' = onDisk
  BY DEF IInv, NestRecord, At, git
<1>2. /\ act[r].onDelete \in OnDelete /\ act[r].parent \in DOMAIN sessions
      /\ Depth(sessions, act[r].parent) < MaxDepth
  BY <1>1 DEF Orderly, Fits, Nesting, Nests
<1>3. PICK record : /\ AddRecord(record) /\ record.type = "secondary" /\ "onDelete" \in DOMAIN record
                    /\ record.onDelete = act[r].onDelete /\ record.parent = act[r].parent
  BY DEF NestRecord
<1>4. Maps
  BY <1>1, <1>2, <1>3, SecondaryMaps DEF Orderly
<1>5. Tidy'
  BY <1>1, <1>2, <1>3, AddTidy DEF Orderly
<1>6. act'[r].pc = "idle"
  BY <1>1, IdleLeads
<1>7. QED
  BY <1>4, <1>5, <1>6, FreeAfter DEF Orderly

(* A worktree is a root, at depth one.                                     *)
LEMMA RootDepth ==
  ASSUME Sound, NEW id \in OfType(sessions, "worktree")
  PROVE  Depth(sessions, id) = 1
<1>1. (Ancestors(sessions, id) \cup {id}) \cap OfType(sessions, "secondary") = {}
  BY ClimbAboveWorktree DEF Sound, OfType
<1>2. Cardinality({}) = 0
  BY FS_EmptySet
<1>3. QED
  BY <1>1, <1>2 DEF Depth

(* The settling session after a step, with what is made after it.          *)
LEMMA SettlesAfter ==
  ASSUME NEW a, act'[a].pc \in Settling \ {"running", "finalize"}, Settles(act[a])'
  PROVE  Fits(act[a])'
BY DEF Fits, Elsewhere, Pruning, Removing, Creating, Settling, Nesting

(* A declared secondary.                                                   *)
LEMMA DeclareMaps ==
  ASSUME IInv, Knowing, NEW r \in Actor, Orderly(r), Declare(r), 1 < MaxDepth
  PROVE  Orderly(r)' /\ Maps
<1> DEFINE made == act[r].made
           more == Append(made, nextID)
           id == act[r].id
           new == [act[r] EXCEPT !.pc = "materialize", !.made = more]
<1>1. /\ Sound /\ Carries(act[r]) /\ Knows(sessions, nextID, act[r]) /\ Tidy /\ onDisk' = onDisk
      /\ act[r].pc = "declare" /\ Become(r, new)
  BY DEF IInv, Actors, Knowing, Declare, At, Orderly, git
<1>2. PICK record : /\ AddRecord(record) /\ record.type = "secondary" /\ "onDelete" \in DOMAIN record
                    /\ record.onDelete = "cascade" /\ record.parent = id
  BY DEF Declare
<1>3. Settles(act[r])
  BY <1>1 DEF Orderly, Fits, Settling
<1>4. id \in OfType(sessions, "worktree") /\ id \in DOMAIN sessions
  BY <1>3 DEF Settles, Awaits, OfType
<1>5. Maps
  BY <1>1, <1>2, <1>4, RootDepth, SecondaryMaps DEF OnDelete
<1>6. /\ Tidy' /\ Children(sessions', nextID) = {}
      /\ \A i \in DOMAIN sessions :
           Children(sessions', i) = Children(sessions, i) \cup {n \in {nextID} : id = i}
  BY <1>1, <1>2, <1>4, AddTidy
<1>7. /\ DOMAIN sessions' = DOMAIN sessions \cup {nextID} /\ nextID \in Int
      /\ sessions'[nextID] = record /\ \A i \in DOMAIN sessions : sessions'[i] = sessions[i]
  BY <1>1, <1>2, AddingRecord
<1>8. made \in Seq(Int) /\ \A n \in 1 .. Len(made) :
                             made[n] \in DOMAIN sessions => sessions[made[n]].type = "secondary"
  BY <1>1 DEF Knows, KnowsMade
<1>9. act'[r].pc = "materialize" /\ act'[r].made = more /\ act'[r].id = id
  <2>1. new.pc = "materialize" /\ new.made = more /\ new.id = id
    BY <1>1 DEF Carries, Idle
  <2>2. QED
    BY <1>1, <2>1, BecomeLeads
<1>10. /\ \A i \in Children(sessions, id) : \E n \in 1 .. Len(made) : i = made[n]
       /\ \A n \in 1 .. Len(made) : /\ made[n] \in DOMAIN sessions
                                    /\ sessions[made[n]].onDelete = "cascade"
                                    /\ Children(sessions, made[n]) = {}
  BY <1>3 DEF Settles, Awaits
<1> HIDE DEF made, new
<1>11. /\ Len(more) = Len(made) + 1 /\ Len(made) \in Nat /\ more[Len(made) + 1] = nextID
       /\ \A n \in 1 .. Len(made) : more[n] = made[n]
  BY <1>7, <1>8
<1> HIDE DEF more
<1>12. ASSUME NEW i \in Children(sessions', id) PROVE \E n \in 1 .. Len(more) : i = more[n]
  <2>1. CASE i = nextID
    BY <1>11, <2>1
  <2>2. CASE i # nextID
    <3>1. i \in Children(sessions, id)
      BY <1>4, <1>6, <2>2
    <3>2. PICK n \in 1 .. Len(made) : i = made[n]
      BY <1>10, <3>1
    <3>3. n \in 1 .. Len(more) /\ i = more[n]
      BY <1>11, <3>2
    <3>4. QED
      BY <3>3
  <2>3. QED
    BY <2>1, <2>2
<1>13. ASSUME NEW n \in 1 .. Len(more)
       PROVE  /\ more[n] \in DOMAIN sessions' /\ sessions'[more[n]].onDelete = "cascade"
              /\ Children(sessions', more[n]) = {}
  <2>1. CASE n = Len(made) + 1
    BY <1>2, <1>6, <1>7, <1>11, <2>1
  <2>2. CASE n \in 1 .. Len(made)
    <3>1. /\ more[n] = made[n] /\ made[n] \in DOMAIN sessions /\ made[n] # id
          /\ sessions[made[n]].onDelete = "cascade" /\ Children(sessions, made[n]) = {}
      BY <1>4, <1>8, <1>10, <1>11, <2>2 DEF OfType
    <3>2. QED
      BY <1>6, <1>7, <3>1
  <2>3. QED
    BY <1>11, <2>1, <2>2
<1>14. Settles(act[r])'
  <2>1. id \in OfType(sessions', "worktree")
    BY <1>4, <1>7 DEF OfType
  <2>2. QED
    BY <1>9, <1>12, <1>13, <2>1 DEF Settles, Awaits
<1>15. QED
  BY <1>5, <1>6, <1>9, <1>14, SettlesAfter DEF Orderly, Settling

(* A worktree's record is CreateWorktree of the tree, whether its          *)
(* directory is there or not.                                              *)
LEMMA WriteRecordMaps ==
  ASSUME IInv, Knowing, NEW r \in Actor, Orderly(r), WriteRecord(r)
  PROVE  Orderly(r)' /\ Maps
<1> DEFINE pc == IF act[r].mode = "adopt" THEN "materialize" ELSE "hook"
           new == [act[r] EXCEPT !.id = nextID, !.pc = pc]
<1>1. /\ Sound /\ Carries(act[r]) /\ Knows(sessions, nextID, act[r]) /\ Tidy /\ onDisk' = onDisk
      /\ act[r].pc = "record" /\ Become(r, new)
  BY DEF IInv, Actors, Knowing, WriteRecord, At, Orderly, git
<1>2. PICK record : /\ AddRecord(record) /\ record.type = "worktree" /\ "onDelete" \in DOMAIN record
                    /\ record.onDelete = "cascade" /\ record.parent = act[r].parent
                    /\ record.branch = act[r].branch
  BY DEF WriteRecord
<1>3. /\ act[r].branch \notin Recorded
      /\ act[r].parent \in OfType(sessions, "worktree") \cup {NoParent}
  BY <1>1 DEF Orderly, Fits, Creating
<1>4. Tidy' /\ Children(sessions', nextID) = {}
  BY <1>1, <1>2, <1>3, AddTidy DEF OfType
<1>5. /\ DOMAIN sessions' = DOMAIN sessions \cup {nextID} /\ nextID \notin DOMAIN sessions
      /\ sessions'[nextID] = record /\ \A i \in DOMAIN sessions : sessions'[i] = sessions[i]
  BY <1>1, <1>2, AddingRecord
<1>6. MissingIn(sessions)' \in {MissingIn(sessions), MissingIn(sessions) \cup {nextID}}
  BY <1>1, <1>5 DEF MissingIn, OfType
<1>7. Tree!CreateWorktree(act[r].parent)
  <2>1. act[r].parent \in Tree!OfType(Shape, "worktree") \cup {Tree!NoParent}
    BY <1>3, ShapeOfType DEF NoParent, Tree!NoParent
  <2>2. QED
    BY <1>2, <1>6, <2>1, AddMaps DEF Tree!CreateWorktree
<1>8. act[r].parent \in Tree!SessionID \cup {Tree!NoParent}
  BY <1>1, <1>3 DEF Tidy, Whole, OfType, NoParent, Tree!NoParent, Tree!SessionID, SessionID
<1>9. Maps
  BY <1>7, <1>8 DEF Maps, Tree!Next
<1>10. act'[r].pc = pc /\ act'[r].made = <<>> /\ act'[r].id = nextID
  <2>1. new.pc = pc /\ new.made = act[r].made /\ new.id = nextID
    BY <1>1 DEF Carries, Idle
  <2>2. act[r].made = <<>>
    BY <1>1 DEF Knows, KnowsMade, Beginning
  <2>3. QED
    BY <1>1, <2>1, <2>2, BecomeLeads
<1>11. Settles(act[r])'
  <2>1. nextID \in OfType(sessions', "worktree")
    BY <1>2, <1>5 DEF OfType
  <2>2. QED
    BY <1>4, <1>10, <2>1 DEF Settles, Awaits
<1>12. QED
  BY <1>4, <1>9, <1>10, <1>11, SettlesAfter DEF Orderly, Settling

(* A record that leaves alone, having no children.                         *)
LEMMA NoDescendants ==
  ASSUME NEW s, NEW id, Children(s, id) = {}
  PROVE  SecondaryDescendants(s, id) = {}
<1>1. DownClosed(s, id, {})
  BY DEF DownClosed, OfType, Children
<1>2. QED
  BY <1>1 DEF SecondaryDescendants

(* Its record is all that the plan deletes.                                *)
LEMMA LeafCarried ==
  ASSUME NEW plan, NEW id, plan.delete = {id}, DOMAIN plan.reparent = {}, DeleteRecords({id})
  PROVE  sessions' = Carried(sessions, plan)
BY DEF DeleteRecords, Carried

(* All but the last element of a sequence.                                 *)
LEMMA FrontShorter ==
  ASSUME NEW seq \in Seq(Int), seq # <<>>
  PROVE  /\ Front(seq) \in Seq(Int) /\ Len(Front(seq)) = Len(seq) - 1
         /\ \A n \in 1 .. Len(Front(seq)) : Front(seq)[n] = seq[n]
<1> DEFINE m == Len(seq) - 1
<1>1. m \in Nat /\ \A i \in 1 .. m : seq[i] \in Int
  OBVIOUS
<1>2. Front(seq) = SubSeq(seq, 1, m)
  BY DEF Front
<1> HIDE DEF m
<1>3. SubSeq(seq, 1, m) \in Seq(Int)
  BY <1>1
<1>4. Len(SubSeq(seq, 1, m)) = m
  BY <1>1
<1>5. \A n \in 1 .. m : SubSeq(seq, 1, m)[n] = seq[n]
  BY <1>1
<1>6. QED
  BY <1>2, <1>3, <1>4, <1>5 DEF m

(* The rollback of a declared secondary deletes a leaf of the tree.        *)
LEMMA UnwindRecordMaps ==
  ASSUME IInv, Knowing, NEW r \in Actor, r \in Request, Orderly(r), UnwindRecord(r)
  PROVE  Orderly(r)' /\ Maps
<1> DEFINE made == act[r].made
           left == Front(made)
           x == Last(made)
           id == act[r].id
           last == [act[r] EXCEPT !.made = left]
<1>1. /\ Sound /\ Carries(act[r]) /\ Knows(sessions, nextID, act[r]) /\ Tidy
      /\ onDisk' = onDisk /\ nextID' = nextID
      /\ act[r].pc = "unwind-record" /\ DeleteRecords({x})
  BY DEF IInv, Actors, Knowing, UnwindRecord, At, Orderly, git, DeleteRecords
<1>2. Settles(act[r])
  BY <1>1 DEF Orderly, Fits, Settling
<1>3. /\ made \in Seq(Int) /\ made # <<>>
      /\ \A n \in 1 .. Len(made) :
           made[n] \in DOMAIN sessions =>
             sessions[made[n]].type = "secondary" /\ sessions[made[n]].tmux = <<act[r].branch, n>>
  BY <1>1 DEF Knows, KnowsMade, Settling
<1>4. /\ id \in OfType(sessions, "worktree") /\ id \in DOMAIN sessions
      /\ \A i \in Children(sessions, id) : \E n \in 1 .. Len(made) : i = made[n]
      /\ \A n \in 1 .. Len(made) : /\ made[n] \in DOMAIN sessions
                                   /\ sessions[made[n]].onDelete = "cascade"
                                   /\ Children(sessions, made[n]) = {}
  BY <1>2 DEF Settles, Awaits, OfType
<1>5. PICK pc \in {"unwind", "undo"} :
         /\ act'[r].pc = pc /\ act'[r].made = left /\ act'[r].id = id
         /\ pc = "undo" => left = <<>>
  <2>1. PICK new : /\ Become(r, new)
                   /\ \/ new = [last EXCEPT !.pc = "unwind"]
                      \/ new = [last EXCEPT !.pc = "undo"] /\ left = <<>>
    BY DEF UnwindRecord
  <2> HIDE DEF left
  <2>2. last.made = left /\ last.id = id /\ DOMAIN last = DOMAIN Idle
    BY <1>1 DEF Carries, Idle
  <2> HIDE DEF last
  <2>3. /\ \/ new.pc = "unwind"
           \/ new.pc = "undo" /\ left = <<>>
        /\ new.made = left /\ new.id = id
    BY <2>1, <2>2 DEF Idle
  <2>4. act'[r] = new
    BY <2>1, BecomeLeads
  <2>5. QED
    BY <2>3, <2>4
<1> HIDE DEF made, last
<1>6. /\ Len(made) \in Nat \ {0} /\ x = made[Len(made)]
      /\ left \in Seq(Int) /\ Len(left) = Len(made) - 1
      /\ \A n \in 1 .. Len(left) : left[n] = made[n]
  <2>1. Len(made) \in Nat \ {0} /\ x = made[Len(made)]
    BY <1>3 DEF Last
  <2>2. /\ left \in Seq(Int) /\ Len(left) = Len(made) - 1
        /\ \A n \in 1 .. Len(left) : left[n] = made[n]
    BY <1>3, FrontShorter
  <2>3. QED
    BY <2>1, <2>2
<1> HIDE DEF left, x
<1>7. /\ x \in OfType(sessions, "secondary") /\ sessions[x].onDelete = "cascade"
      /\ Children(sessions, x) = {} /\ x # id
  <2>1. Len(made) \in 1 .. Len(made) /\ x = made[Len(made)]
    BY <1>6
  <2>2. /\ x \in DOMAIN sessions /\ sessions[x].type = "secondary"
        /\ sessions[x].onDelete = "cascade" /\ Children(sessions, x) = {}
    BY <1>3, <1>4, <2>1
  <2>3. QED
    BY <1>4, <2>2 DEF OfType
<1>8. Tidy' /\ Maps
  <2> DEFINE plan == PlanSecondaryRemoval(sessions, x)
  <2>1. plan.ok /\ plan.delete = {x} /\ DOMAIN plan.reparent = {}
    <3>1. ValidIndex(sessions)
      BY <1>1, SoundIsValid DEF TopologyStaysValid
    <3>2. SecondaryDescendants(sessions, x) = {}
      BY <1>7, NoDescendants
    <3>3. QED
      BY <1>7, <3>1, <3>2 DEF PlanSecondaryRemoval
  <2> HIDE DEF plan
  <2>2. sessions' = Carried(sessions, plan)
    BY <1>1, <2>1, LeafCarried
  <2>3. QED
    BY <1>1, <1>7, <2>1, <2>2, SecondaryRemovalMaps DEF plan
<1>9. DOMAIN sessions' = DOMAIN sessions \ {x} /\ \A i \in DOMAIN sessions' : sessions'[i] = sessions[i]
  BY <1>1 DEF DeleteRecords
<1>10. \A i : Children(sessions', i) = Children(sessions, i) \ {x}
  BY <1>9 DEF Children
<1>11. \A n \in 1 .. Len(left) : n \in 1 .. Len(made) /\ left[n] = made[n] /\ made[n] # x
  <2>1. \A n \in 1 .. Len(left) : n \in 1 .. Len(made) /\ n # Len(made) /\ left[n] = made[n]
    BY <1>6
  <2>2. Len(made) \in 1 .. Len(made)
    BY <1>6
  <2>3. \A n \in 1 .. Len(made) : sessions[made[n]].tmux = <<act[r].branch, n>>
    BY <1>3, <1>4
  <2>4. \A n, m \in 1 .. Len(made) : made[n] = made[m] => n = m
    BY <2>3
  <2>5. QED
    BY <1>6, <2>1, <2>2, <2>4
<1>12. ASSUME NEW i \in Children(sessions', id) PROVE \E n \in 1 .. Len(left) : i = left[n]
  <2>1. i \in Children(sessions, id) /\ i # x
    BY <1>10
  <2>2. PICK n \in 1 .. Len(made) : i = made[n]
    BY <1>4, <2>1
  <2>3. n \in 1 .. Len(left)
    BY <1>6, <2>1, <2>2
  <2>4. QED
    BY <1>6, <2>2, <2>3
<1>13. Settles(act[r])'
  <2>1. id \in OfType(sessions', "worktree")
    BY <1>4, <1>7, <1>9 DEF OfType
  <2>2. \A n \in 1 .. Len(left) : /\ left[n] \in DOMAIN sessions'
                                  /\ sessions'[left[n]].onDelete = "cascade"
                                  /\ Children(sessions', left[n]) = {}
    BY <1>4, <1>9, <1>10, <1>11
  <2>3. act'[r].id = id /\ act'[r].made = left
        /\ (act'[r].pc \in {"hook", "undo", "undo-record"} => left = <<>>)
    BY <1>5
  <2>4. \A i \in Children(sessions', act'[r].id) : \E n \in 1 .. Len(act'[r].made) : i = act'[r].made[n]
    BY <1>12, <2>3
  <2>5. \A n \in 1 .. Len(act'[r].made) :
           /\ act'[r].made[n] \in DOMAIN sessions'
           /\ sessions'[act'[r].made[n]].onDelete = "cascade"
           /\ Children(sessions', act'[r].made[n]) = {}
    BY <2>2, <2>3
  <2>6. Awaits(act[r].id, act[r].made)'
    BY <2>1, <2>3, <2>4, <2>5 DEF Awaits
  <2>7. QED
    BY <2>3, <2>6 DEF Settles
<1>14. QED
  BY <1>5, <1>8, <1>13, SettlesAfter DEF Orderly, Settling

(* The rollback of the worktree's record, its secondaries gone, deletes    *)
(* another.                                                                *)
LEMMA UndoRecordMaps ==
  ASSUME IInv, Knowing, NEW r \in Actor, Orderly(r), UndoRecord(r)
  PROVE  Orderly(r)' /\ Maps
<1> DEFINE id == act[r].id
<1>1. /\ Sound /\ Carries(act[r]) /\ Knows(sessions, nextID, act[r]) /\ Tidy
      /\ onDisk' = onDisk /\ nextID' = nextID
      /\ act[r].pc = "undo-record" /\ DeleteRecords({id}) /\ Goto(r, "rollback")
  BY DEF IInv, Actors, Knowing, UndoRecord, At, Orderly, git, DeleteRecords
<1>2. Settles(act[r])
  BY <1>1 DEF Orderly, Fits, Settling
<1>3. id \in OfType(sessions, "worktree") /\ id \in DOMAIN sessions /\ Children(sessions, id) = {}
  BY <1>1, <1>2 DEF Settles, Awaits, OfType
<1>4. sessions[id].branch = act[r].branch
  BY <1>1, <1>3 DEF Knows, KnowsSession, Settling
<1>5. Tidy' /\ Maps
  <2> DEFINE plan == PlanWorktreeRemoval(sessions, id)
  <2>1. plan.ok /\ plan.delete = {id} /\ DOMAIN plan.reparent = {}
    <3>1. ValidIndex(sessions)
      BY <1>1, SoundIsValid DEF TopologyStaysValid
    <3>2. KnownChain(sessions, id)
      <4>1. \A a \in Ancestors(sessions, id) \cup {id} : a \in DOMAIN sessions
        BY <1>3 DEF Ancestors
      <4>2. QED
        BY <1>1, <4>1 DEF KnownChain, Tidy, Rooted, NoParent
    <3>3. SecondaryDescendants(sessions, id) = {}
      BY <1>3, NoDescendants
    <3>4. QED
      BY <1>3, <3>1, <3>2, <3>3 DEF PlanWorktreeRemoval
  <2> HIDE DEF plan
  <2>2. sessions' = Carried(sessions, plan)
    BY <1>1, <2>1, LeafCarried
  <2>3. QED
    BY <1>1, <1>3, <2>1, <2>2, WorktreeRemovalMaps DEF plan
<1>6. act'[r].pc = "rollback" /\ act'[r].branch = act[r].branch
  BY <1>1, GotoLeads
<1>7. act[r].branch \notin Recorded'
  <2>1. DOMAIN sessions' = DOMAIN sessions \ {id} /\ \A i \in DOMAIN sessions' : sessions'[i] = sessions[i]
    BY <1>1 DEF DeleteRecords
  <2>2. \A i \in OfType(sessions', "worktree") :
           i \in OfType(sessions, "worktree") /\ i # id /\ sessions'[i] = sessions[i]
    BY <2>1 DEF OfType
  <2>3. QED
    BY <1>1, <1>3, <1>4, <2>2 DEF Tidy, OneEach, Recorded
<1>8. Fits(act[r])'
  BY <1>6, <1>7 DEF Fits, Elsewhere, Pruning, Removing, Creating, Settling, Nesting
<1>9. QED
  BY <1>5, <1>8 DEF Orderly

------------------------------------------------------------------------------
(* Steps that change the disk.                                             *)

(* A directory that disappears changes nothing of what is in hand.         *)
LEMMA FitsOutside ==
  ASSUME sessions' = sessions, MissingIn(sessions) \subseteq MissingIn(sessions)', NEW a,
         act'[a] = act[a], Fits(act[a])
  PROVE  Fits(act[a])'
<1>1. Recorded' = Recorded
  BY DEF Recorded
<1>2. Prunes(act[a]) => Prunes(act[a])'
  <2>1. \A lost \in SUBSET MissingIn(sessions) : lost \in SUBSET MissingIn(sessions)'
    OBVIOUS
  <2>2. QED
    BY <2>1 DEF Prunes
<1>3. Removes(act[a]) => Removes(act[a])'
  BY DEF Removes
<1>4. Settles(act[a]) => Settles(act[a])'
  <2>1. Awaits(act[a].id, act[a].made)' <=> Awaits(act'[a].id, act'[a].made)
    BY DEF Awaits
  <2>2. QED
    BY <2>1 DEF Settles
<1>5. Nests(act[a]) => Nests(act[a])'
  BY DEF Nests
<1>6. QED
  BY <1>1, <1>2, <1>3, <1>4, <1>5 DEF Fits

(* A worktree that goes, whoever removes it, is missing for the one        *)
(* session that has it, if there is one.                                   *)
LEMMA VanishMaps ==
  ASSUME Tidy, sessions' = sessions, nextID' = nextID, NEW b \in onDisk, onDisk' = onDisk \ {b}
  PROVE  Tidy' /\ Maps /\ MissingIn(sessions) \subseteq MissingIn(sessions)'
<1>1. MissingIn(sessions) \subseteq MissingIn(sessions)'
  BY DEF MissingIn
<1>2. CASE b \notin Recorded
  <2>1. MissingIn(sessions)' = MissingIn(sessions)
    BY <1>2 DEF MissingIn, Recorded
  <2>2. QED
    BY <1>1, <2>1, StillMaps
<1>3. CASE b \in Recorded
  <2>1. PICK id \in OfType(sessions, "worktree") : sessions[id].branch = b
    BY <1>3 DEF Recorded
  <2>2. MissingIn(sessions)' = MissingIn(sessions) \cup {id} /\ id \notin MissingIn(sessions)
    BY <2>1 DEF MissingIn, Tidy, OneEach
  <2>3. Shape' = Shape
    BY DEF Shape
  <2>4. id \in Tree!OfType(Shape, "worktree") /\ id \in Tree!SessionID
    BY ShapeOfType DEF Tidy, Whole, OfType, Tree!SessionID, SessionID
  <2>5. Tree!DirectoryVanishes(id)
    BY <2>2, <2>3, <2>4 DEF Tree!DirectoryVanishes
  <2>6. Maps
    BY <2>4, <2>5 DEF Maps, Tree!Next
  <2>7. Tidy'
    BY DEF Tidy, Rooted, OneEach, Whole
  <2>8. QED
    BY <1>1, <2>6, <2>7
<1>4. QED
  BY <1>2, <1>3

(* Someone else removes a worktree.                                        *)
LEMMA DirectoryVanishesMaps ==
  ASSUME NEW r, Orderly(r), NEW b, DirectoryVanishes(b)
  PROVE  Orderly(r)' /\ Maps
<1>1. /\ b \in onDisk /\ onDisk' = onDisk \ {b} /\ sessions' = sessions /\ nextID' = nextID
      /\ act' = act
  BY DEF DirectoryVanishes, records
<1>2. QED
  BY <1>1, VanishMaps, FitsOutside DEF Orderly

(* What a step that only moves on keeps.                                   *)
LEMMA GotoKeeps ==
  ASSUME IInv, NEW a \in Actor, NEW pc, Goto(a, pc)
  PROVE  /\ act'[a].pc = pc /\ act'[a].then = act[a].then /\ act'[a].parent = act[a].parent
         /\ act'[a].onDelete = act[a].onDelete /\ act'[a].branch = act[a].branch
         /\ act'[a].id = act[a].id /\ act'[a].plan = act[a].plan /\ act'[a].made = act[a].made
<1> DEFINE new == [act[a] EXCEPT !.pc = pc]
<1>1. /\ new.pc = pc /\ new.then = act[a].then /\ new.parent = act[a].parent
      /\ new.onDelete = act[a].onDelete /\ new.branch = act[a].branch
      /\ new.id = act[a].id /\ new.plan = act[a].plan /\ new.made = act[a].made
  BY DEF IInv, Actors, Carries, Idle
<1>2. Become(a, new)
  BY DEF Goto
<1> HIDE DEF new
<1>3. QED
  BY <1>1, <1>2, BecomeLeads

(* A creation on its way, before its record is written.                    *)
LEMMA CreatingAfter ==
  ASSUME sessions' = sessions, NEW a, act'[a].pc \in Creating \cup {"rollback"},
         act'[a].branch \notin Recorded,
         act'[a].pc \in Creating => act'[a].parent \in OfType(sessions, "worktree") \cup {NoParent}
  PROVE  Fits(act[a])'
<1>1. Recorded' = Recorded
  BY DEF Recorded
<1>2. QED
  BY <1>1 DEF Fits, Elsewhere, Pruning, Removing, Creating, Settling, Nesting

(* The worktree added is no recorded session's.                            *)
LEMMA AddWorktreeMaps ==
  ASSUME IInv, NEW r \in Actor, Orderly(r), AddWorktree(r)
  PROVE  Orderly(r)' /\ Maps
<1>1. /\ act[r].pc = "add" /\ sessions' = sessions /\ nextID' = nextID
      /\ onDisk' \in {onDisk, onDisk \cup {act[r].branch}}
  BY DEF AddWorktree, At, records, git
<1>2. act[r].branch \notin Recorded /\ act[r].parent \in OfType(sessions, "worktree") \cup {NoParent}
  BY <1>1 DEF Orderly, Fits, Creating
<1>3. MissingIn(sessions)' = MissingIn(sessions)
  BY <1>1, <1>2 DEF MissingIn, Recorded
<1>4. PICK pc \in {"tmux", "rollback"} : Goto(r, pc)
  BY DEF AddWorktree
<1>5. act'[r].pc = pc /\ act'[r].branch = act[r].branch /\ act'[r].parent = act[r].parent
  BY <1>4, GotoKeeps
<1>6. Fits(act[r])'
  BY <1>1, <1>2, <1>5, CreatingAfter DEF Creating
<1>7. QED
  BY <1>1, <1>3, <1>6, StillMaps DEF Orderly

(* Nor is the one taken back.                                              *)
LEMMA RollbackMaps ==
  ASSUME IInv, NEW r \in Actor, Orderly(r), Rollback(r)
  PROVE  Orderly(r)' /\ Maps
<1>1. /\ act[r].pc = "rollback" /\ sessions' = sessions /\ nextID' = nextID /\ FinishCreation(r)
      /\ onDisk' \in {onDisk, onDisk \ {act[r].branch}}
  BY DEF Rollback, At, records, WithoutWorktree
<1>2. act[r].branch \notin Recorded
  BY <1>1 DEF Orderly, Fits
<1>3. MissingIn(sessions)' = MissingIn(sessions)
  BY <1>1, <1>2 DEF MissingIn, Recorded
<1>4. act'[r].pc = "idle"
  BY <1>1, IdleLeads DEF FinishCreation
<1>5. QED
  BY <1>1, <1>3, <1>4, FreeAfter, StillMaps DEF Orderly

(* A deletion removes the directory before the record: until then it is    *)
(* missing.                                                                *)
LEMMA RemoveWorktreeMaps ==
  ASSUME IInv, NEW r \in Actor, Orderly(r), RemoveWorktree(r)
  PROVE  Orderly(r)' /\ Maps
<1> DEFINE b == act[r].branch
<1>1. act[r].pc = "remove" /\ sessions' = sessions /\ nextID' = nextID
  BY DEF RemoveWorktree, At, records
<1>2. CASE b \in onDisk /\ onDisk' = onDisk \ {b} /\ Goto(r, "kill")
  <2>1. Tidy' /\ Maps
    BY <1>1, <1>2, VanishMaps DEF Orderly
  <2>2. /\ act[r].plan.ok /\ act[r].id \in OfType(sessions, "worktree")
        /\ act[r].plan = PlanWorktreeRemoval(sessions, act[r].id)
    BY <1>1 DEF Orderly, Fits, Removing, Removes
  <2>3. act'[r].pc = "kill" /\ act'[r].id = act[r].id /\ act'[r].plan = act[r].plan
    BY <1>2, GotoKeeps
  <2>4. Removes(act[r])'
    BY <1>1, <2>2, <2>3 DEF Removes
  <2>5. Fits(act[r])'
    BY <2>3, <2>4 DEF Fits, Elsewhere, Pruning, Removing, Creating, Settling, Nesting
  <2>6. QED
    BY <2>1, <2>5 DEF Orderly
<1>3. CASE EndRemoval(r) /\ UNCHANGED git
  <2>1. act'[r].pc \in {"branch", "idle"}
    BY <1>3, EndingLeads
  <2>2. MissingIn(sessions)' = MissingIn(sessions)
    BY <1>1, <1>3 DEF MissingIn, git
  <2>3. QED
    BY <1>1, <2>1, <2>2, FreeAfter, StillMaps DEF Orderly
<1>4. QED
  BY <1>2, <1>3 DEF RemoveWorktree, WithoutWorktree

------------------------------------------------------------------------------
(* Steps that only change what the request is doing.                       *)

Calm == sessions' = sessions /\ nextID' = nextID /\ onDisk' = onDisk

(* A step to where nothing has to be known.                                *)
LEMMA FreeMaps ==
  ASSUME NEW r, Orderly(r), Calm, act'[r].pc \in {"idle", "lock", "plan", "read", "branch"}
  PROVE  Orderly(r)' /\ Maps
BY FitsFree, CalmMaps DEF Orderly, Calm

(* A request begins.                                                       *)
LEMMA StartsMaps ==
  ASSUME IInv, NEW r \in Actor, Orderly(r), Starts(r), "project" \notin Operation
  PROVE  Orderly(r)' /\ Maps
<1>1. Calm
  BY DEF Starts, StartWorktree, StartSecondary, StartDelete, StartDeleteProject, records, git, Calm
<1>2. CASE \E b \in Branch, mode \in Mode, source \in DOMAIN sessions \cup {NoParent} :
             StartWorktree(r, b, mode, source)
  <2>1. PICK b, mode, source :
           Become(r, [Idle EXCEPT !.pc = "reconcile", !.then = "read", !.branch = b,
                                  !.mode = mode, !.parent = source])
    BY <1>2 DEF StartWorktree
  <2> DEFINE new == [Idle EXCEPT !.pc = "reconcile", !.then = "read", !.branch = b,
                                 !.mode = mode, !.parent = source]
  <2>2. act'[r].pc = "reconcile" /\ act'[r].then = "read"
    <3>1. new.pc = "reconcile" /\ new.then = "read"
      BY DEF Idle
    <3>2. act'[r] = new
      BY <2>1, BecomeLeads
    <3>3. QED
      BY <3>1, <3>2
  <2>3. Fits(act'[r])
    BY <2>2 DEF Fits, Elsewhere, Pruning, Removing, Creating, Settling, Nesting
  <2>4. QED
    BY <1>1, <2>3, CalmMaps DEF Orderly, Calm
<1>3. CASE \E parent \in DOMAIN sessions, onDelete \in OnDelete : StartSecondary(r, parent, onDelete)
  <2>1. PICK parent, onDelete :
           /\ onDelete \in OnDelete
           /\ Become(r, [Idle EXCEPT !.pc = "nest", !.parent = parent, !.onDelete = onDelete])
    BY <1>3 DEF StartSecondary
  <2> DEFINE new == [Idle EXCEPT !.pc = "nest", !.parent = parent, !.onDelete = onDelete]
  <2>2. act'[r].pc = "nest" /\ act'[r].onDelete \in OnDelete
    <3>1. new.pc = "nest" /\ new.onDelete = onDelete
      BY DEF Idle
    <3>2. act'[r] = new
      BY <2>1, BecomeLeads
    <3>3. QED
      BY <2>1, <3>1, <3>2
  <2>3. Fits(act'[r])
    BY <2>2 DEF Fits, Elsewhere, Pruning, Removing, Creating, Settling, Nesting, Nests
  <2>4. QED
    BY <1>1, <2>3, CalmMaps DEF Orderly, Calm
<1>4. CASE \E id \in DOMAIN sessions, force \in BOOLEAN : StartDelete(r, id, force)
  <2>1. PICK id, force : Become(r, [Idle EXCEPT !.pc = "lock", !.id = id, !.force = force])
    BY <1>4 DEF StartDelete
  <2> DEFINE new == [Idle EXCEPT !.pc = "lock", !.id = id, !.force = force]
  <2>2. act'[r].pc = "lock"
    <3>1. new.pc = "lock"
      BY DEF Idle
    <3>2. act'[r] = new
      BY <2>1, BecomeLeads
    <3>3. QED
      BY <3>1, <3>2
  <2>3. QED
    BY <1>1, <2>2, FreeMaps
<1>5. QED
  BY <1>2, <1>3, <1>4 DEF Starts, StartDeleteProject

(* A prune is planned from the records as they are.                        *)
LEMMA ReconcileMaps ==
  ASSUME IInv, NEW r \in Actor, Orderly(r), ReconcileRead(r) \/ ReconcileStat(r) \/ PruneKill(r)
  PROVE  Orderly(r)' /\ Maps
<1>1. /\ Calm /\ act[r].pc \in {"reconcile", "stat", "prune-kill"} /\ act[r].then \in {"read", "plan"}
      /\ Carries(act[r]) /\ Sound
  BY DEF ReconcileRead, ReconcileStat, PruneKill, records, git, Calm, At, Orderly, Fits, Pruning,
         IInv, Actors
<1>2. CASE ReconcileRead(r)
  <2> DEFINE new == [act[r] EXCEPT !.pc = "stat", !.snap = sessions]
  <2>1. act'[r] = new
    BY <1>2, BecomeLeads DEF ReconcileRead
  <2>2. new.pc = "stat" /\ new.then = act[r].then /\ new.snap = sessions
    BY <1>1 DEF Carries, Idle
  <2>3. Fits(act'[r])
    BY <1>1, <2>1, <2>2 DEF Fits, Elsewhere, Pruning, Removing, Creating, Settling, Nesting
  <2>4. QED
    BY <1>1, <2>3, CalmMaps DEF Orderly, Calm
<1>3. CASE ReconcileStat(r)
  <2> DEFINE lost == MissingIn(sessions)
             plan == PlanWorktreePrune(sessions, lost)
             names == TmuxNames(sessions, plan.delete)
             new == [Forget(r) EXCEPT !.pc = "prune-kill", !.plan = plan, !.names = names]
  <2>1. act[r].snap = sessions
    BY <1>3 DEF ReconcileStat, At, Orderly, Fits
  <2>2. \/ Become(r, [Forget(r) EXCEPT !.pc = act[r].then])
        \/ lost # {} /\ Become(r, new)
        \/ EndRemoval(r)
    BY <1>3, <2>1 DEF ReconcileStat
  <2>3. CASE lost # {} /\ Become(r, new)
    <3>1. act'[r] = new
      BY <2>3, BecomeLeads
    <3> HIDE DEF plan, names
    <3>2. new.pc = "prune-kill" /\ new.then = act[r].then /\ new.plan = plan
      BY <1>1 DEF Carries, Idle, Forget
    <3>3. Prunes(act'[r])
      BY <2>3, <3>1, <3>2 DEF Prunes, plan
    <3>4. Fits(act'[r])
      BY <1>1, <3>1, <3>2, <3>3 DEF Fits, Elsewhere, Pruning, Removing, Creating, Settling, Nesting
    <3>5. QED
      BY <1>1, <3>4, CalmMaps DEF Orderly, Calm
  <2>4. CASE Become(r, [Forget(r) EXCEPT !.pc = act[r].then]) \/ EndRemoval(r)
    <3>1. act'[r].pc \in {"read", "plan", "branch", "idle"}
      BY <1>1, <2>4, ForgettingLeads, EndingLeads
    <3>2. QED
      BY <1>1, <3>1, FreeMaps
  <2>5. QED
    BY <2>2, <2>3, <2>4
<1>4. CASE PruneKill(r)
  <2>1. act[r].pc = "prune-kill" /\ (Goto(r, "prune-write") \/ EndRemoval(r))
    BY <1>4 DEF PruneKill, At
  <2>2. CASE Goto(r, "prune-write")
    <3>1. act'[r].pc = "prune-write" /\ act'[r].then = act[r].then /\ act'[r].plan = act[r].plan
      BY <2>2, GotoKeeps
    <3>2. Prunes(act'[r])
      BY <2>1, <3>1 DEF Orderly, Fits, Pruning, Prunes
    <3>3. Fits(act'[r])
      BY <1>1, <3>1, <3>2 DEF Fits, Elsewhere, Pruning, Removing, Creating, Settling, Nesting
    <3>4. QED
      BY <1>1, <3>3, CalmMaps DEF Orderly, Calm
  <2>3. CASE EndRemoval(r)
    BY <1>1, <2>3, EndingLeads, FreeMaps
  <2>4. QED
    BY <2>1, <2>2, <2>3
<1>5. QED
  BY <1>2, <1>3, <1>4

(* A creation looks at the records.                                        *)
LEMMA ReadStateMaps ==
  ASSUME IInv, NEW r \in Actor, Orderly(r), ReadState(r)
  PROVE  Orderly(r)' /\ Maps
<1> DEFINE source == act[r].parent
           parent == IF source \in OfType(sessions, "worktree") THEN source ELSE NoParent
           new == [act[r] EXCEPT !.pc = "reserve", !.parent = parent]
<1>1. Calm /\ Carries(act[r])
  BY DEF ReadState, records, git, Calm, IInv, Actors
<1>2. CASE Become(r, Idle)
  BY <1>1, <1>2, IdleLeads, FreeMaps
<1>3. CASE Become(r, new) /\ \A i \in OfType(sessions, "worktree") : sessions[i].branch # act[r].branch
  <2>1. act'[r] = new
    BY <1>3, BecomeLeads
  <2>2. new.pc = "reserve" /\ new.parent = parent /\ new.branch = act[r].branch
    BY <1>1 DEF Carries, Idle
  <2>3. act'[r].branch \notin Recorded
    BY <1>3, <2>1, <2>2 DEF Recorded
  <2>4. Fits(act[r])'
    BY <1>1, <2>1, <2>2, <2>3, CreatingAfter DEF Calm, Creating
  <2>5. QED
    BY <1>1, <2>4, StillMaps DEF Orderly, Calm, MissingIn
<1>4. QED
  BY <1>2, <1>3 DEF ReadState

(* It goes on, without records.                                            *)
LEMMA CreatingMaps ==
  ASSUME IInv, NEW r \in Actor, Orderly(r), Reserve(r) \/ CheckGit(r) \/ CreateTmux(r)
  PROVE  Orderly(r)' /\ Maps
<1>1. Calm /\ act[r].pc \in Creating
  BY DEF Reserve, CheckGit, CreateTmux, records, git, Calm, At, Creating
<1>2. Become(r, Idle) \/ \E pc \in {"check", "tmux", "add", "record", "rollback"} : Goto(r, pc)
  BY DEF Reserve, CheckGit, CreateTmux, FinishCreation
<1>3. CASE Become(r, Idle)
  BY <1>1, <1>3, IdleLeads, FreeMaps
<1>4. ASSUME NEW pc \in {"check", "tmux", "add", "record", "rollback"}, Goto(r, pc)
      PROVE  Orderly(r)' /\ Maps
  <2>1. act'[r].pc = pc /\ act'[r].branch = act[r].branch /\ act'[r].parent = act[r].parent
    BY <1>4, GotoKeeps
  <2>2. act[r].branch \notin Recorded /\ act[r].parent \in OfType(sessions, "worktree") \cup {NoParent}
    BY <1>1 DEF Orderly, Fits
  <2>3. Fits(act[r])'
    BY <1>1, <2>1, <2>2, CreatingAfter DEF Calm, Creating
  <2>4. QED
    BY <1>1, <2>3, StillMaps DEF Orderly, Calm, MissingIn
<1>5. QED
  BY <1>2, <1>3, <1>4

(* The setup goes on.                                                      *)
LEMMA SettlingGoes ==
  ASSUME IInv, NEW r \in Actor, Orderly(r), Calm, act[r].pc \in Settling,
         NEW pc \in Settling \ {"running", "finalize"}, Goto(r, pc),
         pc \in {"hook", "undo", "undo-record"} => act[r].made = <<>>
  PROVE  Orderly(r)' /\ Maps
<1>1. act'[r].pc = pc /\ act'[r].id = act[r].id /\ act'[r].made = act[r].made
  BY GotoKeeps
<1>2. Settles(act'[r])
  <2>1. Settles(act[r])
    BY DEF Orderly, Fits
  <2>2. act'[r].pc \in {"hook", "undo", "undo-record"} => act'[r].made = <<>>
    BY <1>1
  <2>3. QED
    BY <1>1, <2>1, <2>2 DEF Settles
<1>3. Fits(act'[r])
  BY <1>1, <1>2 DEF Fits, Elsewhere, Pruning, Removing, Creating, Settling, Nesting
<1>4. QED
  BY <1>3, CalmMaps DEF Orderly, Calm

(* Its steps that write nothing, with nobody else to run the script.       *)
LEMMA SettlingMaps ==
  ASSUME IInv, NEW r \in Actor, Orderly(r), OneAtATime(r),
         StartHook(r) \/ Materialize(r) \/ Unwind(r) \/ Undo(r)
  PROVE  Orderly(r)' /\ Maps
<1>1. Calm /\ act[r].pc \in Settling /\ (act[r].pc = "undo" => act[r].made = <<>>)
  <2>1. Calm /\ act[r].pc \in Settling
    BY DEF StartHook, Materialize, Unwind, Undo, records, git, Calm, At, Settling
  <2>2. QED
    BY <2>1 DEF Orderly, Fits, Settles
<1>2. \/ Become(r, Idle)
      \/ CleanUp(r)
      \/ Goto(r, "undo") /\ act[r].made = <<>>
      \/ Goto(r, "undo-record") /\ act[r].made = <<>>
      \/ \E pc \in {"materialize", "declare", "unwind", "unwind-record"} : Goto(r, pc)
  <2>1. CASE StartHook(r)
    BY <2>1 DEF StartHook, OneAtATime
  <2>2. CASE Materialize(r)
    BY <2>2 DEF Materialize, FinishCreation, Abandon
  <2>3. CASE Unwind(r)
    BY <2>3 DEF Unwind
  <2>4. CASE Undo(r)
    BY <1>1, <2>4 DEF Undo, At
  <2>5. QED
    BY <2>1, <2>2, <2>3, <2>4
<1>3. CASE Become(r, Idle) \/ CleanUp(r)
  <2>1. act'[r].pc \in {"idle", "lock"}
    BY <1>3, IdleLeads, CleaningLeads
  <2>2. QED
    BY <1>1, <2>1, FreeMaps
<1>4. CASE Goto(r, "undo") /\ act[r].made = <<>>
  BY <1>1, <1>4, SettlingGoes DEF Settling
<1>5. CASE Goto(r, "undo-record") /\ act[r].made = <<>>
  BY <1>1, <1>5, SettlingGoes DEF Settling
<1>6. ASSUME NEW pc \in {"materialize", "declare", "unwind", "unwind-record"}, Goto(r, pc)
      PROVE  Orderly(r)' /\ Maps
  BY <1>1, <1>6, SettlingGoes DEF Settling
<1>7. QED
  BY <1>2, <1>3, <1>4, <1>5, <1>6

(* The steps of a deletion that write nothing.                             *)
LEMMA DeletingMaps ==
  ASSUME IInv, NEW r \in Actor, Orderly(r),
         DeleteLocks(r) \/ DeletePlan(r) \/ Kill(r) \/ DeleteBranch(r)
  PROVE  Orderly(r)' /\ Maps
<1>1. Calm /\ Carries(act[r]) /\ Sound
  BY DEF DeleteLocks, DeletePlan, Kill, DeleteBranch, records, git, Calm, IInv, Actors
<1>2. CASE DeleteLocks(r)
  <2> DEFINE new == [act[r] EXCEPT !.pc = "reconcile", !.then = "plan"]
  <2>1. act'[r] = new
    BY <1>2, BecomeLeads DEF DeleteLocks
  <2>2. new.pc = "reconcile" /\ new.then = "plan"
    BY <1>1 DEF Carries, Idle
  <2>3. Fits(act'[r])
    BY <2>1, <2>2 DEF Fits, Elsewhere, Pruning, Removing, Creating, Settling, Nesting
  <2>4. QED
    BY <1>1, <2>3, CalmMaps DEF Orderly, Calm
<1>3. CASE DeletePlan(r)
  <2> DEFINE id == act[r].id
             type == IF id \in DOMAIN sessions THEN sessions[id].type ELSE "main"
             plan == CASE type = "worktree" -> PlanWorktreeRemoval(sessions, id)
                       [] type = "secondary" -> PlanSecondaryRemoval(sessions, id)
                       [] OTHER -> NoPlan
             pc == IF type = "worktree" THEN "remove" ELSE "kill"
             branch == IF type = "worktree" THEN sessions[id].branch ELSE act[r].branch
             names == TmuxNames(sessions, plan.delete)
             new == [act[r] EXCEPT !.pc = pc, !.plan = plan, !.names = names, !.branch = branch]
  <2>1. CASE EndRemoval(r)
    BY <1>1, <2>1, EndingLeads, FreeMaps
  <2>2. CASE plan.ok /\ Become(r, new)
    <3>1. act'[r] = new
      BY <2>2, BecomeLeads
    <3>2. \/ id \in OfType(sessions, "worktree") /\ plan = PlanWorktreeRemoval(sessions, id)
             /\ branch = sessions[id].branch
          \/ pc = "kill" /\ id \in OfType(sessions, "secondary")
             /\ plan = PlanSecondaryRemoval(sessions, id)
      <4>1. CASE type = "worktree"
        BY <4>1 DEF OfType
      <4>2. CASE type = "secondary"
        BY <4>2 DEF OfType
      <4>3. CASE type # "worktree" /\ type # "secondary"
        <5>1. plan = NoPlan
          BY <4>3
        <5>2. QED
          BY <2>2, <5>1 DEF NoPlan
      <4>4. QED
        BY <4>1, <4>2, <4>3
    <3>3. pc \in {"remove", "kill"}
      OBVIOUS
    <3> HIDE DEF type, plan, pc, branch, names
    <3>4. new.pc = pc /\ new.plan = plan /\ new.branch = branch /\ new.id = id
      BY <1>1 DEF Carries, Idle
    <3> HIDE DEF new
    <3>5. Removes(act'[r])
      BY <2>2, <3>1, <3>2, <3>4 DEF Removes
    <3>6. Fits(act'[r])
      BY <3>1, <3>3, <3>4, <3>5 DEF Fits, Elsewhere, Pruning, Removing, Creating, Settling, Nesting
    <3>7. QED
      BY <1>1, <3>6, CalmMaps DEF Orderly, Calm
  <2>3. QED
    BY <1>3, <2>1, <2>2 DEF DeletePlan
<1>4. CASE Kill(r)
  <2>1. act[r].pc = "kill" /\ Goto(r, "write")
    BY <1>4 DEF Kill, At
  <2>2. act'[r].pc = "write" /\ act'[r].id = act[r].id /\ act'[r].plan = act[r].plan
    BY <2>1, GotoKeeps
  <2>3. Removes(act[r])
    BY <2>1 DEF Orderly, Fits, Removing
  <2>4. Removes(act'[r])
    BY <2>2, <2>3 DEF Removes
  <2>5. Fits(act'[r])
    BY <2>2, <2>4 DEF Fits, Elsewhere, Pruning, Removing, Creating, Settling, Nesting
  <2>6. QED
    BY <1>1, <2>5, CalmMaps DEF Orderly, Calm
<1>5. CASE DeleteBranch(r)
  BY <1>1, <1>5, IdleLeads, FreeMaps DEF DeleteBranch, FinishCreation
<1>6. QED
  BY <1>2, <1>3, <1>4, <1>5

(* The steps of a secondary's creation that write nothing.                 *)
LEMMA NestingMaps ==
  ASSUME IInv, NEW r \in Actor, Orderly(r), Nest(r) \/ NestTmux(r)
  PROVE  Orderly(r)' /\ Maps
<1>1. Calm /\ Carries(act[r]) /\ act[r].pc \in {"nest", "nest-tmux"}
  BY DEF Nest, NestTmux, records, git, Calm, IInv, Actors, At
<1>2. Nests(act[r])
  BY <1>1 DEF Orderly, Fits, Nesting
<1>3. CASE Become(r, Idle)
  BY <1>1, <1>3, IdleLeads, FreeMaps
<1>4. ASSUME act'[r].pc \in {"nest-tmux", "nest-record"}, act'[r].parent = act[r].parent,
             act'[r].onDelete = act[r].onDelete, act[r].parent \in DOMAIN sessions,
             Depth(sessions, act[r].parent) < MaxDepth
      PROVE  Orderly(r)' /\ Maps
  <2>1. Nests(act'[r])
    BY <1>2, <1>4 DEF Nests
  <2>2. Fits(act'[r])
    BY <1>4, <2>1 DEF Fits, Elsewhere, Pruning, Removing, Creating, Settling, Nesting
  <2>3. QED
    BY <1>1, <2>2, CalmMaps DEF Orderly, Calm
<1>5. CASE Nest(r) /\ ~ Become(r, Idle)
  <2> DEFINE parent == act[r].parent
             branch == sessions[RootOf(sessions, parent)].branch
             names == {Append(sessions[parent].tmux, FreeName(Children(sessions, parent)))}
             new == [act[r] EXCEPT !.pc = "nest-tmux", !.branch = branch, !.names = names]
  <2>1. parent \in DOMAIN sessions /\ Depth(sessions, parent) < MaxDepth /\ Become(r, new)
    BY <1>5 DEF Nest
  <2>2. act'[r] = new
    BY <2>1, BecomeLeads
  <2> HIDE DEF branch, names
  <2>3. new.pc = "nest-tmux" /\ new.parent = parent /\ new.onDelete = act[r].onDelete
    BY <1>1 DEF Carries, Idle
  <2>4. QED
    BY <1>4, <2>1, <2>2, <2>3
<1>6. CASE NestTmux(r) /\ Goto(r, "nest-record")
  <2>1. act[r].pc = "nest-tmux"
    BY <1>6 DEF NestTmux, At
  <2>2. act[r].parent \in DOMAIN sessions /\ Depth(sessions, act[r].parent) < MaxDepth
    BY <1>2, <2>1 DEF Nests
  <2>3. QED
    BY <1>4, <1>6, <2>2, GotoKeeps
<1>7. QED
  BY <1>3, <1>5, <1>6 DEF NestTmux

(* The shell of a tmux session exits, or nothing happens.                  *)
LEMMA AsideMaps ==
  ASSUME NEW r, Orderly(r), Calm, act' = act
  PROVE  Orderly(r)' /\ Maps
BY CalmMaps DEF Orderly, Calm

(* One request at a time: there is no setup goroutine to be waited for,    *)
(* and the Project stays.                                                  *)
LEMMA NeverElsewhere ==
  ASSUME NEW r, Orderly(r),
         ProjectRead(r) \/ ProjectKill(r) \/ ProjectWrite(r) \/ Finalize(r)
  PROVE  FALSE
<1>1. act[r].pc \in Elsewhere
  BY DEF ProjectRead, ProjectKill, ProjectWrite, Finalize, At, Elsewhere
<1>2. QED
  BY <1>1 DEF Orderly, Fits

(* Each step of the request, or outside it, is a step of the tree or none. *)
LEMMA EveryStepMaps ==
  ASSUME NEW r, OneAtATime(r), "project" \notin Operation, 1 < MaxDepth,
         IInv, Knowing, Orderly(r), [Next]_vars
  PROVE  Orderly(r)' /\ Maps
<1>1. r \in Request /\ r \in Actor /\ Actor = {r}
  BY DEF OneAtATime, Actor
<1>2. CASE Starts(r)
  BY <1>1, <1>2, StartsMaps
<1>3. CASE ReconcileRead(r) \/ ReconcileStat(r) \/ PruneKill(r)
  BY <1>1, <1>3, ReconcileMaps
<1>4. CASE PruneWrite(r) \/ Write(r)
  BY <1>1, <1>4, PruneWriteMaps, WriteMaps
<1>5. CASE ReadState(r) \/ Reserve(r) \/ CheckGit(r) \/ CreateTmux(r)
  BY <1>1, <1>5, ReadStateMaps, CreatingMaps
<1>6. CASE AddWorktree(r) \/ Rollback(r) \/ RemoveWorktree(r)
  BY <1>1, <1>6, AddWorktreeMaps, RollbackMaps, RemoveWorktreeMaps
<1>7. CASE WriteRecord(r) \/ Declare(r) \/ NestRecord(r)
  BY <1>1, <1>7, WriteRecordMaps, DeclareMaps, NestRecordMaps
<1>8. CASE UnwindRecord(r) \/ UndoRecord(r)
  BY <1>1, <1>8, UnwindRecordMaps, UndoRecordMaps
<1>9. CASE StartHook(r) \/ Materialize(r) \/ Unwind(r) \/ Undo(r)
  BY <1>1, <1>9, SettlingMaps
<1>10. CASE DeleteLocks(r) \/ DeletePlan(r) \/ Kill(r) \/ DeleteBranch(r)
  BY <1>1, <1>10, DeletingMaps
<1>11. CASE Nest(r) \/ NestTmux(r)
  BY <1>1, <1>11, NestingMaps
<1>12. CASE ProjectRead(r) \/ ProjectKill(r) \/ ProjectWrite(r) \/ Finalize(r)
  BY <1>12, NeverElsewhere
<1>13. CASE \E b \in Branch : DirectoryVanishes(b)
  BY <1>13, DirectoryVanishesMaps
<1>14. CASE (\E name \in tmux : TmuxExits(name)) \/ UNCHANGED vars
  BY <1>14, AsideMaps DEF TmuxExits, vars, records, git, Calm
<1>15. ASSUME NEW a \in Actor, Steps(a) \/ Locks(a) PROVE Orderly(r)' /\ Maps
  BY <1>1, <1>3, <1>4, <1>5, <1>6, <1>7, <1>8, <1>9, <1>10, <1>11, <1>12, <1>15 DEF Steps, Locks
<1>16. QED
  BY <1>1, <1>2, <1>13, <1>14, <1>15 DEF Next, OneAtATime

(* A Project that was just opened.                                         *)
LEMMA InitMaps ==
  ASSUME NEW r, OneAtATime(r), Init
  PROVE  Orderly(r) /\ Tree!Init
<1>1. r \in Actor
  BY DEF OneAtATime, Actor
<1>2. act[r].pc = "idle"
  BY <1>1 DEF Init, Idle
<1>3. DOMAIN sessions = {MainID} /\ sessions[MainID].type = "main" /\ sessions[MainID].parent = NoParent
      /\ sessions[MainID].onDelete = "cascade" /\ "onDelete" \in DOMAIN sessions[MainID]
  BY DEF Init
<1>4. Tidy
  BY <1>3, SessionLifecycleAssumption DEF Tidy, Rooted, OneEach, Whole, OfType, SessionID, MainID
<1>5. Shape = [i \in {Tree!MainID} |->
                 [type |-> "main", parent |-> Tree!NoParent, onDelete |-> "cascade"]]
  BY <1>3 DEF Shape, Tree!MainID, MainID, Tree!NoParent, NoParent
<1>6. MissingIn(sessions) = {} /\ nextID = Tree!MainID + 1
  BY <1>3 DEF MissingIn, OfType, Init, Tree!MainID, MainID
<1>7. QED
  BY <1>2, <1>4, <1>5, <1>6, FitsFree DEF Orderly, Tree!Init

(* One request at a time, with whatever fails and whatever disappears      *)
(* outside, does what the documents promise of create, delete and prune    *)
(* (ADR-0006, ADR-0010, ADR-0014): seen from the records, each request is  *)
(* a sequence of the atomic operations of SessionTree.  (MaxDepth is 5 in  *)
(* the code: declared secondaries are not checked against it.)             *)
THEOREM ImplementsTree ==
  ASSUME NEW r, Request = {r}, Worker = {}, "project" \notin Operation, 1 < MaxDepth
  PROVE  Spec => RefinesTree
<1>1. OneAtATime(r)
  BY DEF OneAtATime
<1>2. Init => Orderly(r) /\ Tree!Init
  BY <1>1, InitMaps
<1>3. IInv /\ Knowing /\ Orderly(r) /\ [Next]_vars => Orderly(r)' /\ [Tree!Next]_(Tree!vars)
  BY <1>1, EveryStepMaps DEF Maps
<1>4. QED
  BY <1>2, <1>3, AlwaysKnowing, PTL DEF Spec, RefinesTree, Tree!Spec

(* One request at a time leaves no session under a parent that is gone and *)
(* gives no branch two sessions, whatever fails: what the documents say    *)
(* and overlapping requests break (NoDanglingParent, ADR-0010, ADR-0014)   *)
(* holds of the handlers by themselves.                                    *)
THEOREM AloneNothingDangles ==
  ASSUME NEW r, Request = {r}, Worker = {}, "project" \notin Operation, 1 < MaxDepth
  PROVE  Spec => [](NoDanglingParent /\ OneSessionPerWorktree)
<1>1. OneAtATime(r)
  BY DEF OneAtATime
<1>2. Init => Orderly(r)
  BY <1>1, InitMaps
<1>3. IInv /\ Knowing /\ Orderly(r) /\ [Next]_vars => Orderly(r)'
  BY <1>1, EveryStepMaps
<1>4. Orderly(r) => NoDanglingParent /\ OneSessionPerWorktree
  BY DEF Orderly, Tidy, Rooted, OneEach, NoDanglingParent, OneSessionPerWorktree
<1>5. QED
  BY <1>2, <1>3, <1>4, AlwaysKnowing, PTL DEF Spec

------------------------------------------------------------------------------
(* One creation at a time, beside any number of setup goroutines, where    *)
(* nothing but git's and tmux's refusals, setups, scripts and the wait for *)
(* an acknowledgement fails.                                               *)
SoleCreator(r) ==
  /\ Request = {r} /\ Operation \subseteq {"worktree"} /\ Outside = {}
  /\ Failing \subseteq {"add", "create", "setup", "acknowledge"}

(* Worktree sessions have no parent, and secondaries hang under them.      *)
Flat(s) ==
  \A i \in DOMAIN s :
    s[i].parent \in IF s[i].type = "secondary" THEN OfType(s, "worktree") ELSE {NoParent}

(* What git has is what the directories say.                               *)
Intact ==
  /\ project /\ registered = onDisk /\ onDisk \subseteq branches
  /\ Existing \subseteq onDisk

(* Who has a session in hand, to set it up or to take it back: its         *)
(* worktree is there until the removal has taken it.                       *)
Reconciling == {"reconcile", "stat"} \cup Pruning
Ending == {"lock", "plan", "remove", "kill", "write", "branch"}
Tends(state) == state.pc \in Settling \/ (state.undo /\ state.pc # "branch")
Taken(state) == state.pc \in {"kill", "write"}
Has(state) == Tends(state) /\ ~ Taken(state)

(* Where an actor may be, and what it carries there.                       *)
Placed(a, state) ==
  IF state.undo THEN state.pc \in Reconciling \cup Ending
  ELSE IF a \in Worker
  THEN state.pc \in {"idle", "running", "finalize", "materialize", "declare", "unwind",
                    "unwind-record"}
  ELSE state.pc \in {"idle", "read", "rollback"} \cup Reconciling \cup Creating \cup Settling
Foreign(a, state) == state.undo \/ a \in Worker \/ state.mode # "adopt"
Routed(a, state) ==
  /\ Placed(a, state)
  /\ state.parent = NoParent
  /\ state.undo => state.force
  /\ state.pc \in Reconciling => state.then = IF state.undo THEN "plan" ELSE "read"
  /\ (state.undo \/ state.pc \in {"hook", "running", "finalize", "undo", "undo-record"}) =>
       state.made = <<>>
  /\ state.pc \in Settling =>
       Len(state.made) <= IF state.pc = "declare" THEN Declared - 1 ELSE Declared
  /\ (state.undo \/ state.pc \in {"add", "tmux", "record", "rollback"} \cup Settling) /\ Foreign(a, state) =>
       state.branch \notin Existing
  /\ state.pc \in Removing => state.plan.delete = {state.id}
  /\ state.pc \in Pruning \cup Removing => DOMAIN state.plan.reparent = {}

(* The children of a session are the secondaries made, under their names.  *)
Filled(s, id, made) ==
  /\ \A c \in Children(s, id) : \E n \in 1 .. Len(made) : c = made[n]
  /\ \A n \in 1 .. Len(made) : made[n] \in Children(s, id) /\ s[made[n]].name = n

(* What records and directories are to an actor.                           *)
Tending(s, disk, state) ==
  /\ Has(state) => state.id \in DOMAIN s /\ s[state.id].branch = state.branch /\ state.branch \in disk
  /\ Tends(state) /\ state.id \in DOMAIN s =>
       s[state.id].type = "worktree" /\ Filled(s, state.id, state.made)
BranchesOf(s) == {s[i].branch : i \in OfType(s, "worktree")}
Building(s, disk, state) ==
  /\ state.pc \in Creating \cup {"rollback"} => state.branch \notin BranchesOf(s)
  /\ state.pc \in {"tmux", "record"} => state.branch \in disk
Viewing(s, disk, state) ==
  /\ state.pc = "stat" =>
       Flat(state.snap) /\ \A i \in DOMAIN state.snap \cap DOMAIN s : state.snap[i].parent = s[i].parent
  /\ state.pc \in Pruning =>
       \A i \in state.plan.delete \cap DOMAIN s : s[i].type = "worktree" /\ s[i].branch \notin disk
Meets(s, disk, state) ==
  Tending(s, disk, state) /\ Building(s, disk, state) /\ Viewing(s, disk, state)

(* A finished setup, or one that was left alone.                           *)
Complete(s, id) ==
  {s[c].name : c \in Children(s, id) \cap OfType(s, "secondary")} = 1 .. Declared
Done(s, disk, left, i) == s[i].branch \in disk /\ (s[i].branch \in left \/ Complete(s, i))
Served(s, disk, left, acts, i) ==
  \/ Done(s, disk, left, i)
  \/ \E a \in Actor : Tends(acts[a]) /\ acts[a].id = i /\ (s[i].branch \in disk \/ Taken(acts[a]))

Proper ==
  /\ Intact /\ Flat(sessions) /\ OneEach
  /\ \A a \in Actor : Routed(a, act[a]) /\ Meets(sessions, onDisk, act[a])
  /\ \A a, b \in Actor : a # b /\ Tends(act[a]) /\ Tends(act[b]) => act[a].id # act[b].id
  /\ \A i \in OfType(sessions, "worktree") : Served(sessions, onDisk, abandoned, act, i)

(* A record is as it was.                                                  *)
Untouched == \A i \in DOMAIN sessions \cap DOMAIN sessions' : sessions'[i] = sessions[i]

(* What the records are to an actor stays while others work.               *)
LEMMA MeetsStays ==
  ASSUME Sound, Later, Untouched, NEW state, Issued(state.id), Knows(sessions, nextID, state),
         Carries(state), Meets(sessions, onDisk, state),
         Has(state) => state.id \in DOMAIN sessions' /\ state.branch \in onDisk',
         Tends(state) /\ state.id \in DOMAIN sessions =>
           Children(sessions', state.id) = Children(sessions, state.id),
         state.pc \in Creating \cup {"rollback"} => state.branch \notin BranchesOf(sessions'),
         state.pc \in {"tmux", "record"} => state.branch \in onDisk',
         state.pc \in Pruning => \A b \in onDisk' \ onDisk : b \notin BranchesOf(sessions)
  PROVE  Meets(sessions', onDisk', state)
<1>1. \A i \in DOMAIN sessions' : i \in Int /\ i < nextID => i \in DOMAIN sessions
  BY DEF Later, Sound, Counted
<1>2. Has(state) => sessions'[state.id].branch = state.branch
  BY DEF Meets, Tending, Untouched
<1>3. ASSUME Tends(state), state.id \in DOMAIN sessions'
      PROVE  sessions'[state.id].type = "worktree" /\ Filled(sessions', state.id, state.made)
  <2>1. state.id \in DOMAIN sessions /\ sessions'[state.id] = sessions[state.id]
    BY <1>1, <1>3 DEF Issued, Untouched
  <2>2. /\ Children(sessions', state.id) = Children(sessions, state.id)
        /\ sessions[state.id].type = "worktree" /\ Filled(sessions, state.id, state.made)
    BY <1>3, <2>1 DEF Meets, Tending
  <2>3. \A c \in Children(sessions, state.id) : c \in DOMAIN sessions \cap DOMAIN sessions'
    BY <2>2 DEF Children
  <2>4. QED
    BY <2>1, <2>2, <2>3 DEF Filled, Untouched
<1>4. ASSUME state.pc = "stat"
      PROVE  /\ Flat(state.snap)
             /\ \A i \in DOMAIN state.snap \cap DOMAIN sessions' : state.snap[i].parent = sessions'[i].parent
  <2>1. \A i \in DOMAIN state.snap : i \in Int /\ i < nextID
    BY DEF Carries, Remembered, Aged
  <2>2. QED
    BY <1>1, <1>4, <2>1 DEF Meets, Viewing, Untouched
<1>5. ASSUME state.pc \in Pruning, NEW i \in state.plan.delete \cap DOMAIN sessions'
      PROVE  sessions'[i].type = "worktree" /\ sessions'[i].branch \notin onDisk'
  <2>1. i \in DOMAIN sessions /\ sessions'[i] = sessions[i]
    BY <1>1 DEF Knows, KnowsPlan, Untouched
  <2>2. sessions[i].type = "worktree" /\ sessions[i].branch \notin onDisk
    BY <1>5, <2>1 DEF Meets, Viewing
  <2>3. sessions[i].branch \in BranchesOf(sessions)
    BY <2>1, <2>2 DEF BranchesOf, OfType
  <2>4. QED
    BY <1>5, <2>1, <2>2, <2>3
<1>6. Tending(sessions', onDisk', state)
  BY <1>2, <1>3 DEF Tending
<1>7. Building(sessions', onDisk', state)
  BY DEF Building
<1>8. Viewing(sessions', onDisk', state)
  BY <1>4, <1>5 DEF Viewing
<1>9. QED
  BY <1>6, <1>7, <1>8 DEF Meets

(* One actor moves: what is left to show of the new state.                 *)
LEMMA ProperAfter ==
  ASSUME IInv, Proper, Remains, NEW a \in Actor, Alone(a),
         Intact', Flat(sessions'), OneEach',
         Routed(a, act'[a]), Meets(sessions', onDisk', act'[a]),
         \A b \in Actor \ {a} : Meets(sessions', onDisk', act[b]),
         Tends(act'[a]) =>
           \/ act'[a].id = nextID
           \/ Tends(act[a]) /\ act'[a].id = act[a].id,
         \A i \in OfType(sessions', "worktree") : Served(sessions', onDisk', abandoned', act', i)
  PROVE  Proper'
<1>1. ASSUME NEW b \in Actor
      PROVE  Routed(b, act'[b]) /\ Meets(sessions', onDisk', act'[b])
  <2>1. CASE b = a
    BY <2>1
  <2>2. CASE b # a
    <3>1. act'[b] = act[b] /\ Routed(b, act[b])
      BY <2>2 DEF Alone, Proper
    <3>2. QED
      BY <2>2, <3>1
  <2>3. QED
    BY <2>1, <2>2
<1>2. \A b \in Actor : act[b].id \in Int /\ act[b].id < nextID
  BY DEF IInv, Actors, Issued
<1>3. \A b \in Actor \ {a} : act'[b] = act[b]
  BY DEF Alone
<1>4. ASSUME NEW b \in Actor, NEW c \in Actor, b # c, Tends(act'[b]), Tends(act'[c])
      PROVE  act'[b].id # act'[c].id
  <2>1. CASE b # a /\ c # a
    BY <1>3, <1>4, <2>1 DEF Proper
  <2>2. CASE b = a
    BY <1>2, <1>3, <1>4, <2>2 DEF Proper
  <2>3. CASE c = a
    BY <1>2, <1>3, <1>4, <2>3 DEF Proper
  <2>4. QED
    BY <2>1, <2>2, <2>3
<1>5. QED
  BY <1>1, <1>4 DEF Proper

(* A session goes on being served, unless its setup is given up.           *)
LEMMA ServedStays ==
  ASSUME NEW a \in Actor, Alone(a), Untouched, Remains,
         NEW i \in OfType(sessions, "worktree"), Served(sessions, onDisk, abandoned, act, i),
         i \in DOMAIN sessions', Children(sessions', i) = Children(sessions, i),
         sessions[i].branch \in onDisk => sessions[i].branch \in onDisk',
         Tends(act[a]) /\ act[a].id = i =>
           \/ /\ Tends(act'[a]) /\ act'[a].id = i
              /\ Taken(act[a]) => Taken(act'[a])
           \/ Done(sessions, onDisk, abandoned', i)
  PROVE  Served(sessions', onDisk', abandoned', act', i)
<1>1. i \in DOMAIN sessions /\ sessions'[i] = sessions[i]
  BY DEF OfType, Untouched
<1>2. ASSUME Done(sessions, onDisk, abandoned', i)
      PROVE  Served(sessions', onDisk', abandoned', act', i)
  <2>1. \A c \in Children(sessions, i) : c \in DOMAIN sessions' /\ sessions'[c] = sessions[c]
    <3>1. \A c \in Children(sessions, i) : c \in DOMAIN sessions \cap DOMAIN sessions'
      BY DEF Children
    <3>2. QED
      BY <3>1 DEF Untouched
  <2>2. Children(sessions', i) \cap OfType(sessions', "secondary")
          = Children(sessions, i) \cap OfType(sessions, "secondary")
    BY <2>1 DEF OfType, Children
  <2>3. {sessions'[c].name : c \in Children(sessions, i) \cap OfType(sessions, "secondary")}
          = {sessions[c].name : c \in Children(sessions, i) \cap OfType(sessions, "secondary")}
    BY <2>1
  <2>4. Complete(sessions, i) => Complete(sessions', i)
    BY <2>2, <2>3 DEF Complete
  <2>5. QED
    BY <1>1, <1>2, <2>4 DEF Served, Done
<1>3. ASSUME NEW b \in Actor, Tends(act[b]), act[b].id = i, sessions[i].branch \in onDisk \/ Taken(act[b])
      PROVE  Served(sessions', onDisk', abandoned', act', i)
  <2>1. CASE b # a
    <3>1. act'[b] = act[b]
      BY <2>1 DEF Alone
    <3>2. QED
      BY <1>1, <1>3, <3>1 DEF Served
  <2>2. CASE b = a
    BY <1>1, <1>2, <1>3, <2>2 DEF Served
  <2>3. QED
    BY <2>1, <2>2
<1>4. Done(sessions, onDisk, abandoned, i) => Done(sessions, onDisk, abandoned', i)
  BY DEF Done, Remains
<1>5. QED
  BY <1>2, <1>3, <1>4 DEF Served

(* The records and the directories stay.                                   *)
LEMMA ProperMoving ==
  ASSUME IInv, Knowing, Proper, Remains, NEW a \in Actor, Alone(a), Still, onDisk' = onDisk, Intact',
         Routed(a, act'[a]), Meets(sessions, onDisk, act'[a]),
         Tends(act'[a]) => Tends(act[a]) /\ act'[a].id = act[a].id,
         Tends(act[a]) =>
           \/ /\ Tends(act'[a])
              /\ Taken(act[a]) => Taken(act'[a])
           \/ Done(sessions, onDisk, abandoned', act[a].id)
  PROVE  Proper'
<1>1. sessions' = sessions /\ Untouched
  BY DEF Still, Untouched
<1>2. Flat(sessions') /\ OneEach'
  BY <1>1 DEF Proper, OneEach, OfType
<1>3. \A b \in Actor \ {a} : Meets(sessions', onDisk', act[b])
  BY <1>1 DEF Proper
<1>4. ASSUME NEW i \in OfType(sessions', "worktree") PROVE Served(sessions', onDisk', abandoned', act', i)
  <2>1. i \in OfType(sessions, "worktree") /\ i \in DOMAIN sessions'
    BY <1>1 DEF OfType
  <2>2. Served(sessions, onDisk, abandoned, act, i)
    BY <2>1 DEF Proper
  <2>3. Children(sessions', i) = Children(sessions, i)
    BY <1>1
  <2>4. QED
    BY <1>1, <2>1, <2>2, <2>3, ServedStays
<1>5. QED
  BY <1>1, <1>2, <1>3, <1>4, ProperAfter

(* What an actor that moves on takes with it.                              *)
Bearing(old, new) ==
  /\ new.id = old.id /\ new.branch = old.branch /\ new.mode = old.mode /\ new.parent = old.parent
  /\ new.force = old.force /\ new.undo = old.undo /\ new.made = old.made

(* A step that only moves on.                                              *)
LEMMA GotoBears ==
  ASSUME IInv, NEW a \in Actor, NEW pc, Goto(a, pc)
  PROVE  /\ Alone(a) /\ act'[a].pc = pc /\ Bearing(act[a], act'[a])
         /\ act'[a].then = act[a].then /\ act'[a].plan = act[a].plan /\ act'[a].snap = act[a].snap
<1> DEFINE new == [act[a] EXCEPT !.pc = pc]
<1>1. /\ new.pc = pc /\ Bearing(act[a], new)
      /\ new.then = act[a].then /\ new.plan = act[a].plan /\ new.snap = act[a].snap
  BY DEF IInv, Actors, Carries, Idle, Bearing
<1>2. Become(a, new)
  BY DEF Goto
<1> HIDE DEF new
<1>3. QED
  BY <1>1, <1>2, BecomeLeads

(* A step that drops the plan.                                             *)
LEMMA ForgettingBears ==
  ASSUME IInv, NEW a \in Actor, NEW pc, Become(a, [Forget(a) EXCEPT !.pc = pc])
  PROVE  /\ Alone(a) /\ act'[a].pc = pc /\ Bearing(act[a], act'[a])
         /\ act'[a].then = act[a].then
<1> DEFINE new == [Forget(a) EXCEPT !.pc = pc]
<1>1. /\ new.pc = pc /\ Bearing(act[a], new) /\ new.then = act[a].then
  BY DEF IInv, Actors, Carries, Idle, Bearing, Forget
<1>2. Become(a, new)
  OBVIOUS
<1> HIDE DEF new
<1>3. QED
  BY <1>1, <1>2, BecomeLeads

(* The session an actor has in hand stays as it was.                       *)
LEMMA TendingStays ==
  ASSUME NEW s, NEW disk, NEW old, NEW new, Bearing(old, new), Tending(s, disk, old),
         Tends(new) => Tends(old), Has(new) => Has(old)
  PROVE  Tending(s, disk, new)
BY DEF Tending, Bearing

(* An actor moves on with what it has in hand.                             *)
LEMMA ProperOnward ==
  ASSUME IInv, Knowing, Proper, Remains, NEW a \in Actor, Alone(a), Still, onDisk' = onDisk, Intact',
         Bearing(act[a], act'[a]), Tends(act'[a]) <=> Tends(act[a]), Has(act'[a]) => Has(act[a]),
         Routed(a, act'[a]), Building(sessions, onDisk, act'[a]), Viewing(sessions, onDisk, act'[a])
  PROVE  Proper'
<1>1. Meets(sessions, onDisk, act[a])
  BY DEF Proper
<1>2. Meets(sessions, onDisk, act'[a])
  BY <1>1, TendingStays DEF Meets
<1>3. Tends(act[a]) => Tends(act'[a]) /\ (Taken(act[a]) => Taken(act'[a])) /\ act'[a].id = act[a].id
  BY DEF Bearing, Has
<1>4. QED
  BY <1>2, <1>3, ProperMoving

(* An idle actor has nothing in hand.                                      *)
LEMMA IdleIsProper ==
  ASSUME NEW a, NEW s, NEW disk
  PROVE  Routed(a, Idle) /\ Meets(s, disk, Idle) /\ ~ Tends(Idle)
<1>1. /\ Idle.pc = "idle" /\ Idle.undo = FALSE /\ Idle.parent = NoParent
  BY DEF Idle
<1>2. ~ Tends(Idle) /\ Idle.pc \notin Settling \cup Creating \cup Pruning \cup Removing \cup Reconciling
  BY <1>1 DEF Tends, Settling, Creating, Pruning, Removing, Reconciling
<1>3. Routed(a, Idle)
  BY <1>1, <1>2 DEF Routed, Placed
<1>4. Meets(s, disk, Idle)
  BY <1>1, <1>2 DEF Meets, Tending, Building, Viewing, Has
<1>5. QED
  BY <1>2, <1>3, <1>4

(* An actor with nothing in hand, or done with it, becomes idle.           *)
LEMMA ProperFinishing ==
  ASSUME IInv, Knowing, Proper, Remains, NEW a \in Actor, Become(a, Idle), Still, onDisk' = onDisk, Intact',
         Tends(act[a]) => Done(sessions, onDisk, abandoned', act[a].id)
  PROVE  Proper'
<1>1. Alone(a) /\ act'[a] = Idle
  BY BecomeLeads
<1>2. Routed(a, act'[a]) /\ Meets(sessions, onDisk, act'[a]) /\ ~ Tends(act'[a])
  BY <1>1, IdleIsProper
<1>3. QED
  BY <1>1, <1>2, ProperMoving

(* git and the Project stay.                                               *)
LEMMA IntactStays ==
  ASSUME Proper, UNCHANGED <<project, git>>
  PROVE  Intact' /\ onDisk' = onDisk
BY DEF Proper, Intact, git

------------------------------------------------------------------------------
(* Reconciling.                                                            *)

(* The snapshot is of the records as they are.                             *)
LEMMA ProperReconcileRead ==
  ASSUME IInv, Knowing, Proper, Remains, NEW a \in Actor, ReconcileRead(a)
  PROVE  Proper'
<1> DEFINE new == [act[a] EXCEPT !.pc = "stat", !.snap = sessions]
<1>1. /\ new.pc = "stat" /\ new.snap = sessions /\ Bearing(act[a], new) /\ new.then = act[a].then
  BY DEF IInv, Actors, Carries, Idle, Bearing
<1>2. Become(a, new) /\ Still /\ act[a].pc = "reconcile" /\ UNCHANGED <<project, git>>
  BY DEF ReconcileRead, At, Still, records
<1> HIDE DEF new
<1>3. Alone(a) /\ act'[a] = new
  BY <1>2, BecomeLeads
<1>4. Routed(a, act[a]) /\ Flat(sessions)
  BY DEF Proper
<1>5. Routed(a, new)
  BY <1>1, <1>2, <1>4 DEF Bearing, Routed, Placed, Foreign, Reconciling, Pruning, Removing, Settling,
     Creating, Ending
<1>6. Building(sessions, onDisk, new) /\ Viewing(sessions, onDisk, new)
  BY <1>1, <1>4 DEF Building, Viewing, Creating, Pruning
<1>7. (Tends(new) <=> Tends(act[a])) /\ (Has(new) => Has(act[a]))
  BY <1>1, <1>2 DEF Bearing, Tends, Has, Taken, Settling
<1>8. QED
  BY <1>1, <1>2, <1>3, <1>5, <1>6, <1>7, IntactStays, ProperOnward

(* A session that is found without its worktree is being removed: it has   *)
(* no children, and the plan takes it and no more.                         *)
LEMMA PruneIsProper ==
  ASSUME IInv, Knowing, Proper, Remains, NEW a \in Actor, act[a].pc = "stat",
         NEW plan, plan = PlanWorktreePrune(act[a].snap, MissingIn(act[a].snap))
  PROVE  /\ plan.ok /\ DOMAIN plan.reparent = {}
         /\ \A i \in plan.delete \cap DOMAIN sessions :
              sessions[i].type = "worktree" /\ sessions[i].branch \notin onDisk
<1> DEFINE snap == act[a].snap
           lost == MissingIn(snap)
<1>1. Remembered(snap) /\ Aged(snap)
  BY DEF IInv, Actors, Carries, Remembered
<1>2. /\ Flat(snap) /\ Flat(sessions)
      /\ \A i \in DOMAIN snap \cap DOMAIN sessions : snap[i].parent = sessions[i].parent
  BY DEF Proper, Meets, Viewing
<1> HIDE DEF snap
<1>3. lost \subseteq OfType(snap, "worktree") /\ \A i \in lost : snap[i].branch \notin onDisk
  BY DEF MissingIn
<1>4. ValidIndex(snap)
  <2>1. ASSUME NEW i \in DOMAIN snap PROVE i \notin Ancestors(snap, i)
    <3>1. i \in Int
      BY <1>1 DEF Aged
    <3>2. QED
      BY <1>1, <3>1, ClimbAges
  <2>2. \A c \in OfType(snap, "worktree") : snap[c].parent \notin OfType(snap, "secondary")
    <3>1. \A c \in OfType(snap, "worktree") : snap[c].parent = NoParent
      BY <1>2 DEF Flat, OfType
    <3>2. NoParent \notin DOMAIN snap
      BY <1>1 DEF Aged, NoParent
    <3>3. QED
      BY <3>1, <3>2 DEF OfType
  <2>3. QED
    BY <2>1, <2>2 DEF ValidIndex
<1> HIDE DEF lost
<1>5. /\ plan.ok /\ plan.delete = lost \cup UNION {SecondaryDescendants(snap, id) : id \in lost}
      /\ DOMAIN plan.reparent = {w \in OfType(snap, "worktree") \ lost : snap[w].parent \in lost}
  BY <1>3, <1>4 DEF PlanWorktreePrune, snap, lost
<1>6. DOMAIN plan.reparent = {}
  <2>1. \A w \in OfType(snap, "worktree") : snap[w].parent = NoParent
    BY <1>2 DEF Flat, OfType
  <2>2. NoParent \notin lost
    BY <1>1, <1>3 DEF Aged, OfType, NoParent
  <2>3. QED
    BY <1>5, <2>1, <2>2
<1>7. ASSUME NEW i \in lost \cap DOMAIN sessions
      PROVE  sessions[i].type = "worktree" /\ sessions[i].branch \notin onDisk /\ Children(sessions, i) = {}
  <2>1. i \in DOMAIN snap /\ snap[i].type = "worktree" /\ snap[i].branch \notin onDisk
    BY <1>3 DEF OfType
  <2>2. Same(snap[i], sessions[i])
    BY <1>1, <2>1 DEF Remembered
  <2>3. sessions[i].type = "worktree" /\ sessions[i].branch \notin onDisk
    BY <2>1, <2>2 DEF Same
  <2>4. PICK b \in Actor : Tends(act[b]) /\ act[b].id = i /\ Taken(act[b])
    BY <2>3 DEF Proper, Served, Done, OfType
  <2>5. Filled(sessions, i, act[b].made) /\ Routed(b, act[b])
    BY <2>4 DEF Proper, Meets, Tending
  <2>6. act[b].made = <<>>
    BY <2>4, <2>5 DEF Routed, Placed, Tends, Taken, Settling, Creating, Reconciling, Pruning
  <2>7. Children(sessions, i) = {}
    BY <2>5, <2>6 DEF Filled
  <2>8. QED
    BY <2>3, <2>7
<1>8. ASSUME NEW id \in lost, NEW i \in SecondaryDescendants(snap, id), i \in DOMAIN sessions
      PROVE  FALSE
  <2>1. DownClosed(snap, id, Children(snap, id))
    <3>1. ASSUME NEW c \in OfType(snap, "secondary"), snap[c].parent \in Children(snap, id) \cup {id}
          PROVE  c \in Children(snap, id)
      <4>1. snap[c].parent \in OfType(snap, "worktree") /\ c \in DOMAIN snap
        BY <1>2 DEF Flat, OfType
      <4>2. snap[c].parent \in Children(snap, id) => snap[snap[c].parent].parent = id
        BY DEF Children
      <4>3. snap[snap[c].parent].parent = NoParent
        BY <1>2, <4>1 DEF Flat, OfType
      <4>4. id # NoParent
        BY <1>1, <1>3 DEF Aged, OfType, NoParent
      <4>5. QED
        BY <3>1, <4>1, <4>2, <4>3, <4>4 DEF Children
    <3>2. QED
      BY <3>1 DEF DownClosed
  <2>2. i \in Children(snap, id)
    BY <2>1 DEF SecondaryDescendants, Children
  <2>3. i \in DOMAIN snap /\ snap[i].parent = id
    BY <2>2 DEF Children
  <2>4. sessions[i].parent = id
    BY <1>2, <1>8, <2>3
  <2>5. id \in DOMAIN sessions
    <3>1. id # NoParent
      BY <1>1, <1>3 DEF Aged, OfType, NoParent
    <3>2. sessions[i].parent \in OfType(sessions, "worktree") \cup {NoParent}
      BY <1>2, <1>8 DEF Flat
    <3>3. QED
      BY <2>4, <3>1, <3>2 DEF OfType
  <2>6. Children(sessions, id) = {}
    BY <1>7, <2>5
  <2>7. QED
    BY <1>8, <2>4, <2>6 DEF Children
<1>9. QED
  BY <1>5, <1>6, <1>7, <1>8

(* A stat that finds nothing, or plans a prune that will succeed.          *)
LEMMA ProperReconcileStat ==
  ASSUME IInv, Knowing, Proper, Remains, "stat" \notin Failing, NEW a \in Actor, ReconcileStat(a)
  PROVE  Proper'
<1> DEFINE snap == act[a].snap
           plan == PlanWorktreePrune(snap, MissingIn(snap))
           pruning == [Forget(a) EXCEPT !.pc = "prune-kill", !.plan = plan,
                                        !.names = TmuxNames(snap, plan.delete)]
<1>1. Still /\ act[a].pc = "stat" /\ UNCHANGED <<project, git>> /\ Routed(a, act[a])
  BY DEF ReconcileStat, At, Still, records, Proper
<1>2. act[a].then = (IF act[a].undo THEN "plan" ELSE "read") /\ (~ act[a].undo => a \notin Worker)
  BY <1>1 DEF Routed, Placed, Reconciling
<1>3. /\ plan.ok /\ DOMAIN plan.reparent = {}
      /\ \A i \in plan.delete \cap DOMAIN sessions :
           sessions[i].type = "worktree" /\ sessions[i].branch \notin onDisk
  BY <1>1, PruneIsProper
<1>4. CASE Become(a, [Forget(a) EXCEPT !.pc = act[a].then])
  <2>1. /\ Alone(a) /\ act'[a].pc = act[a].then /\ Bearing(act[a], act'[a])
        /\ act'[a].then = act[a].then
    BY <1>4, ForgettingBears
  <2>2. Routed(a, act'[a])
    BY <1>1, <1>2, <2>1 DEF Bearing, Routed, Placed, Foreign, Reconciling, Pruning, Removing, Settling,
       Creating, Ending
  <2>3. Building(sessions, onDisk, act'[a]) /\ Viewing(sessions, onDisk, act'[a])
    BY <1>2, <2>1 DEF Building, Viewing, Creating, Pruning
  <2>4. (Tends(act'[a]) <=> Tends(act[a])) /\ (Has(act'[a]) => Has(act[a]))
    BY <1>1, <1>2, <2>1 DEF Bearing, Tends, Has, Taken, Settling
  <2>5. QED
    BY <1>1, <2>1, <2>2, <2>3, <2>4, IntactStays, ProperOnward
<1>5. CASE Become(a, pruning)
  <2>1. /\ pruning.pc = "prune-kill" /\ pruning.plan = plan /\ Bearing(act[a], pruning)
        /\ pruning.then = act[a].then
    BY DEF IInv, Actors, Carries, Idle, Bearing, Forget
  <2> HIDE DEF pruning, plan
  <2>2. Alone(a) /\ act'[a] = pruning
    BY <1>5, BecomeLeads
  <2>3. Routed(a, pruning)
    BY <1>1, <1>3, <2>1 DEF Bearing, Routed, Placed, Foreign, Reconciling, Pruning, Removing, Settling,
       Creating, Ending
  <2>4. Building(sessions, onDisk, pruning) /\ Viewing(sessions, onDisk, pruning)
    BY <1>3, <2>1 DEF Building, Viewing, Creating, Pruning
  <2>5. (Tends(pruning) <=> Tends(act[a])) /\ (Has(pruning) => Has(act[a]))
    BY <1>1, <2>1 DEF Bearing, Tends, Has, Taken, Settling
  <2>6. QED
    BY <1>1, <2>1, <2>2, <2>3, <2>4, <2>5, IntactStays, ProperOnward
<1>6. QED
  BY <1>3, <1>4, <1>5 DEF ReconcileStat

------------------------------------------------------------------------------
(* Steps that only move on.                                                *)

(* From one place to the next, with the same in hand.                      *)
LEMMA ProperGoing ==
  ASSUME IInv, Knowing, Proper, Remains, NEW a \in Actor, NEW pc, Goto(a, pc), Still,
         onDisk' = onDisk, Intact',
         \/ act[a].pc = "prune-kill" /\ pc = "prune-write"
         \/ act[a].pc = "reserve" /\ pc = "check"
         \/ act[a].pc = "check" /\ pc = "add" /\ act[a].branch \notin Existing
         \/ act[a].pc = "check" /\ pc = "tmux" /\ act[a].branch \in onDisk /\ act[a].mode = "adopt"
         \/ act[a].pc = "add" /\ pc = "rollback"
         \/ act[a].pc = "tmux" /\ pc \in {"record", "rollback"}
         \/ act[a].pc = "hook" /\ pc = "materialize"
         \/ act[a].pc = "running" /\ pc = "finalize"
         \/ act[a].pc = "finalize" /\ pc = "materialize"
         \/ act[a].pc = "materialize" /\ pc = "declare" /\ Len(act[a].made) + 1 <= Declared
         \/ act[a].pc = "materialize" /\ pc = "unwind"
         \/ act[a].pc = "materialize" /\ pc = "undo" /\ act[a].made = <<>> /\ a \in Request
         \/ act[a].pc = "unwind" /\ pc = "unwind-record"
         \/ act[a].pc = "undo" /\ pc = "undo-record"
         \/ act[a].pc = "kill" /\ pc = "write"
  PROVE  Proper'
<1>1. /\ Alone(a) /\ act'[a].pc = pc /\ Bearing(act[a], act'[a])
      /\ act'[a].then = act[a].then /\ act'[a].plan = act[a].plan
  BY GotoBears
<1>2. Routed(a, act[a]) /\ Meets(sessions, onDisk, act[a]) /\ act[a].made \in Seq(Int) /\ Declared \in Nat
  BY SessionLifecycleAssumption DEF Proper, Knowing, Knows, KnowsMade
<1>3. Len(act[a].made) \in Nat
  BY <1>2
<1>4. Placed(a, act'[a])
  BY <1>1, <1>2, SessionLifecycleAssumption
  DEF Bearing, Routed, Placed, Reconciling, Pruning, Settling, Creating, Ending
<1>5. (act'[a].undo \/ act'[a].pc \in {"add", "tmux", "record", "rollback"} \cup Settling)
        /\ Foreign(a, act'[a]) => act'[a].branch \notin Existing
  BY <1>1, <1>2 DEF Bearing, Routed, Placed, Foreign, Settling, Reconciling, Pruning, Ending, Creating
<1>6. act'[a].pc \in Settling =>
        Len(act'[a].made) <= IF act'[a].pc = "declare" THEN Declared - 1 ELSE Declared
  BY <1>1, <1>2, <1>3 DEF Bearing, Routed, Settling
<1>7. Routed(a, act'[a])
  BY <1>1, <1>2, <1>4, <1>5, <1>6 DEF Bearing, Routed, Reconciling, Pruning, Removing, Settling
<1>8. Building(sessions, onDisk, act'[a]) /\ Viewing(sessions, onDisk, act'[a])
  BY <1>1, <1>2 DEF Bearing, Meets, Building, Viewing, Creating, Pruning
<1>9. (Tends(act'[a]) <=> Tends(act[a])) /\ (Has(act'[a]) => Has(act[a]))
  BY <1>1 DEF Bearing, Tends, Has, Taken, Settling
<1>10. QED
  BY <1>1, <1>7, <1>8, <1>9, ProperOnward

(* The steps that are nothing else, when kills do not fail.                *)
LEMMA ProperSimply ==
  ASSUME IInv, Knowing, Apart, Proper, Remains, NEW a \in Actor, "kill" \notin Failing,
         \/ PruneKill(a) \/ Reserve(a) \/ CheckGit(a) \/ CreateTmux(a) \/ Unwind(a) \/ Undo(a)
         \/ Kill(a) \/ HookSucceeds(a) \/ Finalize(a)
  PROVE  Proper'
<1>1. Still /\ UNCHANGED <<project, git>>
  BY DEF PruneKill, Reserve, CheckGit, CreateTmux, Unwind, Undo, Kill, HookSucceeds, Finalize, Still, records
<1>2. Intact' /\ onDisk' = onDisk
  BY <1>1, IntactStays
<1>3. Routed(a, act[a]) /\ Meets(sessions, onDisk, act[a]) /\ Intact
  BY DEF Proper
<1>4. CASE PruneKill(a)
  BY <1>1, <1>2, <1>4, ProperGoing DEF PruneKill, KillsSome, At
<1>5. CASE Reserve(a) \/ CheckGit(a)
  <2>1. act[a].pc \in {"reserve", "check"} /\ ~ Tends(act[a])
    BY <1>3, <1>5 DEF Reserve, CheckGit, At, Routed, Placed, Reconciling, Pruning, Ending, Tends, Settling
  <2>2. CASE Become(a, Idle)
    BY <1>1, <1>2, <2>1, <2>2, ProperFinishing
  <2>3. CASE act[a].pc = "reserve" /\ Goto(a, "check")
    BY <1>1, <1>2, <2>3, ProperGoing
  <2>4. CASE ~ Become(a, Idle) /\ ~ (act[a].pc = "reserve" /\ Goto(a, "check"))
    <3>1. CheckGit(a) /\ act[a].pc = "check" /\ ~ FinishCreation(a)
      BY <1>5, <2>4 DEF Reserve, At, FinishCreation, CheckGit
    <3>2. a \in Request
      BY <1>3, <3>1 DEF Routed, Placed, Reconciling, Pruning, Ending, Settling, Actor
    <3>3. act[a].mode \in Mode
      BY <3>2 DEF Apart, Sure
    <3>4. CASE act[a].mode = "adopt"
      <4>1. act[a].branch \in registered /\ Goto(a, "tmux")
        BY <3>1, <3>4 DEF CheckGit
      <4>2. QED
        BY <1>1, <1>2, <1>3, <3>1, <3>4, <4>1, ProperGoing DEF Intact
    <3>5. CASE act[a].mode # "adopt"
      <4>1. act[a].branch \notin onDisk /\ Goto(a, "add")
        BY <3>1, <3>3, <3>5 DEF CheckGit, Mode
      <4>2. QED
        BY <1>1, <1>2, <1>3, <3>1, <4>1, ProperGoing DEF Intact
    <3>6. QED
      BY <3>4, <3>5
  <2>5. QED
    BY <2>2, <2>3, <2>4
<1>6. CASE CreateTmux(a)
  <2>1. act[a].pc = "tmux" /\ (Goto(a, "record") \/ Goto(a, "rollback"))
    BY <1>6 DEF CreateTmux, At
  <2>2. QED
    BY <1>1, <1>2, <2>1, ProperGoing
<1>7. CASE Unwind(a) \/ Undo(a) \/ Kill(a) \/ HookSucceeds(a)
  BY <1>1, <1>2, <1>7, ProperGoing DEF Unwind, Undo, Kill, KillBestEffort, KillsSome, HookSucceeds, At
<1>8. CASE Finalize(a)
  <2>1. act[a].pc = "finalize" /\ act[a].id \in DOMAIN sessions
    BY <1>3, <1>8 DEF Finalize, At, Meets, Tending, Has, Tends, Taken, Settling
  <2>2. Goto(a, "materialize")
    BY <1>8, <2>1 DEF Finalize
  <2>3. QED
    BY <1>1, <1>2, <2>1, <2>2, ProperGoing
<1>9. QED
  BY <1>4, <1>5, <1>6, <1>7, <1>8

(* A cleanup has the session in hand that the setup had.                   *)
LEMMA ProperCleaning ==
  ASSUME IInv, Knowing, Proper, Remains, NEW a \in Actor, CleanUp(a), Still, onDisk' = onDisk, Intact',
         act[a].pc \in Settling, act[a].made = <<>>, act[a].pc = "hook" \/ a \in Worker
  PROVE  Proper'
<1> DEFINE new == [act[a] EXCEPT !.pc = "lock", !.force = TRUE, !.undo = TRUE]
<1>1. /\ new.pc = "lock" /\ new.force = TRUE /\ new.undo = TRUE /\ new.parent = act[a].parent
      /\ new.id = act[a].id /\ new.branch = act[a].branch /\ new.made = act[a].made
  BY DEF IInv, Actors, Carries, Idle
<1>2. Become(a, new)
  BY DEF CleanUp
<1> HIDE DEF new
<1>3. Alone(a) /\ act'[a] = new
  BY <1>2, BecomeLeads
<1>4. /\ Routed(a, act[a]) /\ Meets(sessions, onDisk, act[a])
      /\ act[a].pc = "hook" => act[a].mode # "adopt"
  BY DEF Proper, Knowing, Knows, KnowsSession, Adding
<1>5. act[a].branch \notin Existing
  BY <1>4 DEF Routed, Foreign
<1>6. Routed(a, new)
  BY <1>1, <1>4, <1>5 DEF Routed, Placed, Reconciling, Pruning, Removing, Settling, Ending
<1>7. (Has(new) /\ Tends(new)) /\ (Has(act[a]) /\ Tends(act[a]))
  BY <1>1 DEF Has, Tends, Taken, Settling
<1>8. Tending(sessions, onDisk, new)
  BY <1>1, <1>4, <1>7 DEF Meets, Tending
<1>9. Meets(sessions, onDisk, new)
  BY <1>1, <1>8 DEF Meets, Building, Viewing, Creating, Pruning
<1>10. QED
  BY <1>1, <1>3, <1>6, <1>7, <1>9, ProperMoving DEF Has

(* A script that fails.                                                    *)
LEMMA ProperHookFails ==
  ASSUME IInv, Knowing, Proper, Remains, NEW w \in Worker, HookFails(w)
  PROVE  Proper'
<1>1. Still /\ UNCHANGED <<project, registered, onDisk, branches>> /\ act[w].pc = "running" /\ w \in Actor
  BY DEF HookFails, At, Still, records, Actor
<1>2. Routed(w, act[w]) /\ Meets(sessions, onDisk, act[w])
  BY <1>1 DEF Proper
<1>3. Intact' /\ onDisk' = onDisk
  BY <1>1 DEF Proper, Intact
<1>4. CASE CleanUp(w)
  BY <1>1, <1>2, <1>3, <1>4, ProperCleaning DEF Routed, Settling
<1>5. CASE Become(w, Idle) /\ abandoned' = abandoned \cup {act[w].branch}
  <2>1. Has(act[w])
    BY <1>1 DEF Has, Tends, Taken, Settling
  <2>2. Done(sessions, onDisk, abandoned', act[w].id)
    BY <1>2, <1>5, <2>1 DEF Meets, Tending, Done
  <2>3. QED
    BY <1>1, <1>3, <1>5, <2>2, ProperFinishing
<1>6. QED
  BY <1>4, <1>5 DEF HookFails

(* The lock of a cleanup.                                                  *)
LEMMA ProperLocking ==
  ASSUME IInv, Knowing, Proper, Remains, NEW a \in Actor, DeleteLocks(a)
  PROVE  Proper'
<1> DEFINE new == [act[a] EXCEPT !.pc = "reconcile", !.then = "plan"]
<1>1. /\ new.pc = "reconcile" /\ new.then = "plan" /\ Bearing(act[a], new)
  BY DEF IInv, Actors, Carries, Idle, Bearing
<1>2. Become(a, new) /\ Still /\ act[a].pc = "lock" /\ UNCHANGED <<project, git>>
  BY DEF DeleteLocks, At, Still, records
<1> HIDE DEF new
<1>3. Alone(a) /\ act'[a] = new
  BY <1>2, BecomeLeads
<1>4. Routed(a, act[a])
  BY DEF Proper
<1>5. act[a].undo
  BY <1>2, <1>4 DEF Routed, Placed, Reconciling, Pruning, Settling, Creating
<1>6. Routed(a, new)
  BY <1>1, <1>4, <1>5 DEF Bearing, Routed, Placed, Foreign, Reconciling, Pruning, Removing, Settling
<1>7. Building(sessions, onDisk, new) /\ Viewing(sessions, onDisk, new)
  BY <1>1 DEF Building, Viewing, Creating, Pruning
<1>8. (Tends(new) <=> Tends(act[a])) /\ (Has(new) => Has(act[a]))
  BY <1>1, <1>2 DEF Bearing, Tends, Has, Taken, Settling
<1>9. QED
  BY <1>1, <1>2, <1>3, <1>6, <1>7, <1>8, IntactStays, ProperOnward

(* The request is made, and finds no session of its branch.                *)
LEMMA ProperReading ==
  ASSUME IInv, Knowing, Proper, Remains, NEW a \in Actor, ReadState(a)
  PROVE  Proper'
<1> DEFINE source == act[a].parent
           new == [act[a] EXCEPT !.pc = "reserve",
                     !.parent = IF source \in OfType(sessions, "worktree") THEN source ELSE NoParent]
<1>1. Still /\ act[a].pc = "read" /\ UNCHANGED <<project, git>> /\ Routed(a, act[a])
  BY DEF ReadState, At, Still, records, Proper
<1>2. ~ Tends(act[a]) /\ ~ act[a].undo
  BY <1>1 DEF Routed, Placed, Reconciling, Pruning, Ending, Tends, Settling
<1>3. CASE Become(a, Idle)
  BY <1>1, <1>2, <1>3, IntactStays, ProperFinishing
<1>4. CASE Become(a, new) /\ \A i \in OfType(sessions, "worktree") : sessions[i].branch # act[a].branch
  <2>1. source = NoParent
    BY <1>1 DEF Routed
  <2>2. /\ new.pc = "reserve" /\ Bearing(act[a], new)
    BY <2>1 DEF IInv, Actors, Carries, Idle, Bearing
  <2> HIDE DEF new
  <2>3. Alone(a) /\ act'[a] = new
    BY <1>4, BecomeLeads
  <2>4. Routed(a, new)
    BY <1>1, <1>2, <2>2 DEF Bearing, Routed, Placed, Foreign, Reconciling, Pruning, Removing, Settling,
       Creating, Ending
  <2>5. Building(sessions, onDisk, new) /\ Viewing(sessions, onDisk, new)
    BY <1>4, <2>2 DEF Building, Viewing, Creating, Pruning, BranchesOf, Bearing
  <2>6. ~ Tends(new) /\ ~ Has(new)
    BY <1>2, <2>2 DEF Bearing, Tends, Has, Settling
  <2>7. QED
    BY <1>1, <1>2, <2>2, <2>3, <2>4, <2>5, <2>6, IntactStays, ProperOnward
<1>5. QED
  BY <1>3, <1>4 DEF ReadState

(* The plan of a cleanup: its session has no children, and nothing above.  *)
LEMMA ProperPlanning ==
  ASSUME IInv, Knowing, Proper, Remains, NEW a \in Actor, DeletePlan(a)
  PROVE  Proper'
<1> DEFINE id == act[a].id
           plan == PlanWorktreeRemoval(sessions, id)
           new == [act[a] EXCEPT !.pc = "remove", !.plan = plan,
                      !.names = TmuxNames(sessions, plan.delete), !.branch = sessions[id].branch]
<1>1. /\ Still /\ act[a].pc = "plan" /\ UNCHANGED <<project, git>> /\ Routed(a, act[a])
      /\ Meets(sessions, onDisk, act[a]) /\ Flat(sessions) /\ Sound
  BY DEF DeletePlan, At, Still, records, Proper, IInv
<1>2. act[a].undo /\ Tends(act[a]) /\ Has(act[a])
  BY <1>1 DEF Routed, Placed, Reconciling, Pruning, Settling, Creating, Tends, Has, Taken
<1>3. /\ id \in DOMAIN sessions /\ sessions[id].type = "worktree"
      /\ sessions[id].branch = act[a].branch /\ Filled(sessions, id, act[a].made)
  BY <1>1, <1>2 DEF Meets, Tending
<1>4. Children(sessions, id) = {}
  BY <1>1, <1>2, <1>3 DEF Routed, Filled
<1>5. sessions[id].parent = NoParent /\ NoParent \notin DOMAIN sessions
  BY <1>1, <1>3 DEF Flat, Sound, Aged, NoParent
<1>6. plan.ok /\ plan.delete = {id} /\ DOMAIN plan.reparent = {}
  <2>1. ValidIndex(sessions)
    BY <1>1, SoundIsValid DEF TopologyStaysValid
  <2>2. Ancestors(sessions, id) = {}
    <3>1. UpClosed(sessions, id, {})
      BY <1>5 DEF UpClosed
    <3>2. QED
      BY <3>1 DEF Ancestors
  <2>3. KnownChain(sessions, id)
    BY <1>5, <2>2 DEF KnownChain, NoParent
  <2>4. SecondaryDescendants(sessions, id) = {}
    BY <1>4, NoDescendants
  <2>5. id \in OfType(sessions, "worktree")
    BY <1>3 DEF OfType
  <2>6. QED
    BY <1>4, <2>1, <2>3, <2>4, <2>5 DEF PlanWorktreeRemoval
<1> HIDE DEF plan
<1>7. Become(a, new)
  BY <1>3, <1>6 DEF DeletePlan, plan
<1>8. new.pc = "remove" /\ new.plan = plan /\ Bearing(act[a], new)
  BY <1>3 DEF IInv, Actors, Carries, Idle, Bearing
<1> HIDE DEF new
<1>9. Alone(a) /\ act'[a] = new
  BY <1>7, BecomeLeads
<1>10. Routed(a, new)
  BY <1>1, <1>2, <1>6, <1>8 DEF Bearing, Routed, Placed, Foreign, Reconciling, Pruning, Removing, Settling,
     Ending
<1>11. Building(sessions, onDisk, new) /\ Viewing(sessions, onDisk, new)
  BY <1>8 DEF Building, Viewing, Creating, Pruning
<1>12. (Tends(new) <=> Tends(act[a])) /\ (Has(new) => Has(act[a]))
  BY <1>2, <1>8 DEF Bearing, Tends
<1>13. QED
  BY <1>1, <1>8, <1>9, <1>10, <1>11, <1>12, IntactStays, ProperOnward

(* A setup is finished when every declared secondary is made.              *)
LEMMA MadeIsComplete ==
  ASSUME IInv, Knowing, Proper, Remains, NEW a \in Actor, act[a].pc = "materialize",
         Len(act[a].made) + 1 > Declared
  PROVE  Done(sessions, onDisk, abandoned', act[a].id)
<1> DEFINE id == act[a].id
           made == act[a].made
<1>1. /\ Routed(a, act[a]) /\ Meets(sessions, onDisk, act[a]) /\ Knows(sessions, nextID, act[a])
      /\ Has(act[a]) /\ Tends(act[a])
  BY DEF Proper, Knowing, Has, Tends, Taken, Settling
<1>2. /\ id \in DOMAIN sessions /\ sessions[id].branch \in onDisk /\ Filled(sessions, id, made)
  BY <1>1 DEF Meets, Tending
<1>3. /\ made \in Seq(Int)
      /\ \A n \in 1 .. Len(made) : made[n] \in DOMAIN sessions => sessions[made[n]].type = "secondary"
  BY <1>1 DEF Knows, KnowsMade
<1>4. Len(made) = Declared
  <2>1. Len(made) <= Declared
    BY <1>1 DEF Routed, Settling
  <2>2. QED
    BY <1>3, <2>1, SessionLifecycleAssumption
<1> DEFINE below == Children(sessions, id) \cap OfType(sessions, "secondary")
<1> HIDE DEF made, id
<1>5. \A n \in 1 .. Declared : made[n] \in below /\ sessions[made[n]].name = n
  <2>1. \A n \in 1 .. Declared : made[n] \in Children(sessions, id) /\ sessions[made[n]].name = n
    BY <1>2, <1>4 DEF Filled
  <2>2. QED
    BY <1>3, <1>4, <2>1 DEF OfType, Children
<1>6. \A c \in below : \E n \in 1 .. Declared : c = made[n]
  BY <1>2, <1>4 DEF Filled
<1>7. {sessions[c].name : c \in below} = 1 .. Declared
  BY <1>5, <1>6
<1>8. QED
  BY <1>2, <1>7 DEF Done, Complete, id

(* The next secondary, or the end of the setup either way.                 *)
LEMMA ProperMaterializing ==
  ASSUME IInv, Knowing, Proper, Remains, NEW a \in Actor, Materialize(a)
  PROVE  Proper'
<1>1. Still /\ act[a].pc = "materialize" /\ UNCHANGED <<project, git>> /\ Routed(a, act[a])
  BY DEF Materialize, At, Still, records, Proper
<1>2. Intact' /\ onDisk' = onDisk
  BY <1>1, IntactStays
<1>3. CASE Len(act[a].made) + 1 > Declared /\ FinishCreation(a)
  BY <1>1, <1>2, <1>3, MadeIsComplete, ProperFinishing DEF FinishCreation
<1>4. CASE Len(act[a].made) + 1 <= Declared /\ Goto(a, "declare")
  BY <1>1, <1>2, <1>4, ProperGoing
<1>5. CASE act[a].made = <<>> /\ Abandon(a)
  <2>1. CASE a \in Request
    BY <1>1, <1>2, <1>5, <2>1, ProperGoing DEF Abandon
  <2>2. CASE a \notin Request
    BY <1>1, <1>2, <1>5, <2>2, ProperCleaning DEF Abandon, Actor, Settling
  <2>3. QED
    BY <2>1, <2>2
<1>6. CASE Goto(a, "unwind")
  BY <1>1, <1>2, <1>6, ProperGoing
<1>7. QED
  BY <1>3, <1>4, <1>5, <1>6 DEF Materialize

(* The branch goes last, unless it has a worktree.                         *)
LEMMA ProperDeletingBranch ==
  ASSUME IInv, Knowing, Proper, Remains, NEW a \in Actor, DeleteBranch(a)
  PROVE  Proper'
<1>1. Still /\ act[a].pc = "branch" /\ Become(a, Idle) /\ Routed(a, act[a])
      /\ UNCHANGED <<project, registered, onDisk>>
  BY DEF DeleteBranch, At, Still, records, FinishCreation, Proper
<1>2. branches' = branches \/ (act[a].branch \notin registered' /\ branches' = branches \ {act[a].branch})
  BY DEF DeleteBranch, WithoutBranch
<1>3. Intact'
  BY <1>1, <1>2 DEF Proper, Intact
<1>4. ~ Tends(act[a])
  BY <1>1 DEF Tends, Settling
<1>5. QED
  BY <1>1, <1>3, <1>4, ProperFinishing

(* A request begins: a worktree, under no session.                         *)
LEMMA ProperStarting ==
  ASSUME IInv, Knowing, Proper, Remains, NEW r \in Request, Operation \subseteq {"worktree"}, Starts(r)
  PROVE  Proper'
<1>1. PICK b \in Branch, mode \in Mode : StartWorktree(r, b, mode, NoParent)
  <2>1. "nested" \notin Operation /\ "secondary" \notin Operation
        /\ "delete" \notin Operation /\ "project" \notin Operation
    OBVIOUS
  <2>2. QED
    BY <2>1 DEF Starts, StartWorktree, StartSecondary, StartDelete, StartDeleteProject
<1> DEFINE new == [Idle EXCEPT !.pc = "reconcile", !.then = "read", !.branch = b,
                              !.mode = mode, !.parent = NoParent]
<1>2. /\ new.pc = "reconcile" /\ new.then = "read" /\ new.parent = NoParent /\ new.undo = FALSE
  BY DEF Idle
<1>3. /\ Become(r, new) /\ Still /\ act[r].pc = "idle" /\ UNCHANGED <<project, git>> /\ r \in Actor
      /\ r \notin Worker
  BY <1>1, SessionLifecycleAssumption DEF StartWorktree, At, Still, records, Actor
<1> HIDE DEF new
<1>4. Alone(r) /\ act'[r] = new /\ Routed(r, act[r])
  BY <1>3, BecomeLeads DEF Proper
<1>5. Routed(r, new)
  BY <1>2, <1>3 DEF Routed, Placed, Reconciling, Pruning, Removing, Settling
<1>6. ~ Tends(new) /\ ~ Tends(act[r])
  BY <1>2, <1>3, <1>4 DEF Tends, Settling, Routed, Placed, Reconciling, Pruning, Ending
<1>7. Meets(sessions, onDisk, new)
  BY <1>2, <1>6 DEF Meets, Tending, Building, Viewing, Has, Creating, Pruning
<1>8. QED
  BY <1>3, <1>4, <1>5, <1>6, <1>7, IntactStays, ProperMoving

(* The setup passes from the request to a goroutine, or ends before it     *)
(* began.                                                                  *)
LEMMA ProperHooking ==
  ASSUME IInv, Knowing, Proper, Remains, NEW a \in Actor, StartHook(a)
  PROVE  Proper'
<1>1. /\ Still /\ act[a].pc = "hook" /\ UNCHANGED <<project, git>> /\ Routed(a, act[a])
      /\ Meets(sessions, onDisk, act[a]) /\ sessions' = sessions
  BY DEF StartHook, At, Still, records, Proper
<1>2. Intact' /\ onDisk' = onDisk
  BY <1>1, IntactStays
<1>3. CASE Goto(a, "materialize")
  BY <1>1, <1>2, <1>3, ProperGoing
<1>4. CASE CleanUp(a)
  BY <1>1, <1>2, <1>4, ProperCleaning DEF Routed, Settling
<1>5. ASSUME NEW w \in Worker, At(w, "idle"),
             act' = [act EXCEPT ![a] = Idle, ![w] = [Forget(a) EXCEPT !.pc = "running", !.then = "idle"]]
      PROVE  Proper'
  <2> DEFINE new == [Forget(a) EXCEPT !.pc = "running", !.then = "idle"]
  <2>1. /\ new.pc = "running" /\ Bearing(act[a], new)
    BY DEF IInv, Actors, Carries, Idle, Bearing, Forget
  <2>2. w \in Actor /\ w # a /\ DOMAIN act = Actor
    BY <1>1, <1>5 DEF Actor, At, IInv, Actors
  <2>3. act'[a] = Idle /\ act'[w] = new /\ \A b \in Actor \ {a, w} : act'[b] = act[b]
    BY <1>5, <2>2
  <2> HIDE DEF new
  <2>4. act[a].mode # "adopt" /\ act[a].made = <<>> /\ ~ act[a].undo
    BY <1>1 DEF Knowing, Knows, KnowsSession, Adding, Routed, Placed, Reconciling, Pruning, Ending
  <2>5. act[a].branch \notin Existing
    BY <1>1, <2>4 DEF Routed, Foreign, Settling
  <2>6. Len(act[a].made) <= Declared
    BY <1>1 DEF Routed, Settling
  <2>7. Routed(w, new)
    <3>1. /\ ~ new.undo /\ new.parent = NoParent /\ new.made = <<>> /\ new.branch \notin Existing
          /\ Len(new.made) <= Declared
      BY <1>1, <2>1, <2>4, <2>5, <2>6 DEF Bearing, Routed
    <3>2. Placed(w, new)
      BY <2>1, <3>1 DEF Placed
    <3>3. QED
      BY <2>1, <3>1, <3>2 DEF Routed, Reconciling, Pruning, Removing
  <2>8. Tends(act[a]) /\ Has(act[a]) /\ Tends(new) /\ Has(new)
    BY <1>1, <2>1 DEF Tends, Has, Taken, Settling
  <2>9. Meets(sessions, onDisk, new)
    <3>1. Tending(sessions, onDisk, new)
      BY <1>1, <2>1, <2>8, TendingStays DEF Meets
    <3>2. QED
      BY <2>1, <3>1 DEF Meets, Building, Viewing, Creating, Pruning
  <2>10. Routed(a, act'[a]) /\ Meets(sessions, onDisk, act'[a]) /\ ~ Tends(act'[a])
    BY <2>3, IdleIsProper
  <2>11. \A b \in Actor : Routed(b, act'[b]) /\ Meets(sessions, onDisk, act'[b])
    <3>1. \A b \in Actor \ {a, w} : Routed(b, act'[b]) /\ Meets(sessions, onDisk, act'[b])
      BY <2>3 DEF Proper
    <3>2. QED
      BY <2>3, <2>7, <2>9, <2>10, <3>1
  <2>12. act'[w].id = act[a].id
    BY <2>1, <2>3 DEF Bearing
  <2>13. ASSUME NEW b \in Actor, NEW c \in Actor, b # c, Tends(act'[b]), Tends(act'[c])
         PROVE  act'[b].id # act'[c].id
    <3>1. b # a /\ c # a
      BY <2>10, <2>13
    <3>2. CASE b # w /\ c # w
      BY <2>3, <2>13, <3>1, <3>2 DEF Proper
    <3>3. CASE b = w
      <4>1. Tends(act[c]) /\ act'[c] = act[c]
        BY <2>3, <2>13, <3>1, <3>3
      <4>2. QED
        BY <2>8, <2>12, <3>1, <3>3, <4>1 DEF Proper
    <3>4. CASE c = w
      <4>1. Tends(act[b]) /\ act'[b] = act[b]
        BY <2>3, <2>13, <3>1, <3>4
      <4>2. QED
        BY <2>8, <2>12, <3>1, <3>4, <4>1 DEF Proper
    <3>5. QED
      BY <3>2, <3>3, <3>4
  <2>14. ASSUME NEW i \in OfType(sessions, "worktree")
         PROVE  Served(sessions, onDisk, abandoned, act', i)
    <3>1. Served(sessions, onDisk, abandoned, act, i)
      BY DEF Proper
    <3>2. CASE Done(sessions, onDisk, abandoned, i)
      BY <3>2 DEF Served
    <3>3. ASSUME NEW b \in Actor, Tends(act[b]), act[b].id = i, sessions[i].branch \in onDisk \/ Taken(act[b])
          PROVE  Served(sessions, onDisk, abandoned, act', i)
      <4>1. CASE b = a
        BY <2>2, <2>3, <2>8, <2>12, <3>3, <4>1 DEF Served, Has
      <4>2. CASE b # a
        <5>1. Routed(w, act[w]) /\ act[w].pc = "idle"
          BY <1>5, <2>2 DEF Proper, At
        <5>2. b # w
          BY <3>3, <5>1 DEF Routed, Placed, Tends, Reconciling, Pruning, Ending, Settling
        <5>3. QED
          BY <2>3, <3>3, <4>2, <5>2 DEF Served
      <4>3. QED
        BY <4>1, <4>2
    <3>4. QED
      BY <3>1, <3>2, <3>3 DEF Served
  <2>15. Flat(sessions') /\ OneEach' /\ abandoned' = abandoned
    BY <1>1 DEF Proper, OneEach, OfType, git, history
  <2>16. QED
    BY <1>1, <1>2, <2>11, <2>13, <2>14, <2>15 DEF Proper
<1>6. QED
  BY <1>3, <1>4, <1>5 DEF StartHook

------------------------------------------------------------------------------
(* Steps that add or remove a worktree.                                    *)

(* What the other actors need of the directories stays.                    *)
LEMMA ProperDisk ==
  ASSUME IInv, Knowing, Proper, Remains, NEW a \in Actor, Alone(a), Still, Intact',
         Routed(a, act'[a]), Meets(sessions, onDisk', act'[a]),
         Tends(act'[a]) => Tends(act[a]) /\ act'[a].id = act[a].id,
         Tends(act[a]) => Tends(act'[a]) /\ (Taken(act[a]) => Taken(act'[a])),
         \A b \in Actor \ {a} :
           /\ Has(act[b]) => act[b].branch \in onDisk'
           /\ act[b].pc \in {"tmux", "record"} => act[b].branch \in onDisk',
         \A b \in onDisk' \ onDisk : b \notin BranchesOf(sessions),
         \A i \in OfType(sessions, "worktree") :
           sessions[i].branch \in onDisk \ onDisk' =>
             Tends(act'[a]) /\ Taken(act'[a]) /\ act'[a].id = i
  PROVE  Proper'
<1>1. sessions' = sessions /\ Untouched /\ Later /\ Sound
  BY StillIsSound DEF Still, Untouched, IInv
<1>2. Flat(sessions') /\ OneEach'
  BY <1>1 DEF Proper, OneEach, OfType
<1>3. ASSUME NEW b \in Actor \ {a} PROVE Meets(sessions', onDisk', act[b])
  <2>1. /\ Carries(act[b]) /\ Issued(act[b].id) /\ Knows(sessions, nextID, act[b])
        /\ Meets(sessions, onDisk, act[b])
    BY DEF IInv, Actors, Knowing, Proper
  <2>2. Has(act[b]) => act[b].id \in DOMAIN sessions
    BY <2>1 DEF Meets, Tending
  <2>3. act[b].pc \in Creating \cup {"rollback"} => act[b].branch \notin BranchesOf(sessions)
    BY <2>1 DEF Meets, Building
  <2>4. QED
    BY <1>1, <2>1, <2>2, <2>3, MeetsStays
<1>4. ASSUME NEW i \in OfType(sessions', "worktree") PROVE Served(sessions', onDisk', abandoned', act', i)
  <2>1. i \in OfType(sessions, "worktree") /\ i \in DOMAIN sessions'
    BY <1>1 DEF OfType
  <2>2. Served(sessions, onDisk, abandoned, act, i)
    BY <2>1 DEF Proper
  <2>3. Children(sessions', i) = Children(sessions, i)
    BY <1>1
  <2>4. CASE sessions[i].branch \in onDisk \ onDisk'
    BY <1>1, <2>1, <2>4 DEF Served, Done
  <2>5. CASE sessions[i].branch \notin onDisk \ onDisk'
    BY <1>1, <2>1, <2>2, <2>3, <2>5, ServedStays
  <2>6. QED
    BY <2>4, <2>5
<1>5. QED
  BY <1>1, <1>2, <1>3, <1>4, ProperAfter

(* A worktree added, for a branch without a session.                       *)
LEMMA ProperAdding ==
  ASSUME IInv, Knowing, Proper, Remains, NEW a \in Actor, AddWorktree(a)
  PROVE  Proper'
<1>1. /\ Still /\ act[a].pc = "add" /\ UNCHANGED project /\ Routed(a, act[a])
      /\ Meets(sessions, onDisk, act[a]) /\ Intact
  BY DEF AddWorktree, At, Still, records, Proper
<1>2. CASE Goto(a, "rollback") /\ UNCHANGED git
  BY <1>1, <1>2, IntactStays, ProperGoing
<1>3. CASE /\ Goto(a, "tmux")
           /\ registered' = registered \cup {act[a].branch} /\ onDisk' = onDisk \cup {act[a].branch}
           /\ branches' = branches \cup {act[a].branch}
  <2>1. Alone(a) /\ act'[a].pc = "tmux" /\ Bearing(act[a], act'[a])
    BY <1>3, GotoBears
  <2>2. Intact'
    BY <1>1, <1>3 DEF Intact
  <2>3. Routed(a, act'[a])
    BY <1>1, <2>1 DEF Bearing, Routed, Placed, Foreign, Reconciling, Pruning, Removing, Settling,
       Creating, Ending
  <2>4. ~ Tends(act[a]) /\ ~ Tends(act'[a])
    BY <1>1, <2>1 DEF Bearing, Tends, Routed, Placed, Reconciling, Pruning, Ending, Settling
  <2>5. act[a].branch \notin BranchesOf(sessions)
    BY <1>1 DEF Meets, Building, Creating
  <2>6. Meets(sessions, onDisk', act'[a])
    BY <1>3, <2>1, <2>4, <2>5 DEF Meets, Tending, Building, Viewing, Has, Pruning, Bearing
  <2>7. \A b \in Actor \ {a} :
           /\ Has(act[b]) => act[b].branch \in onDisk'
           /\ act[b].pc \in {"tmux", "record"} => act[b].branch \in onDisk'
    BY <1>3 DEF Proper, Meets, Tending, Building
  <2>8. QED
    BY <1>1, <1>3, <2>1, <2>2, <2>3, <2>4, <2>5, <2>6, <2>7, ProperDisk
<1>4. QED
  BY <1>1, <1>2, <1>3 DEF AddWorktree

(* A rollback takes the worktree of its own branch, which no session has.  *)
LEMMA ProperRollingBack ==
  ASSUME IInv, Knowing, Proper, Remains, NEW r, Request = {r}, NEW a \in Actor, Rollback(a)
  PROVE  Proper'
<1>1. /\ Still /\ act[a].pc = "rollback" /\ UNCHANGED project /\ Routed(a, act[a])
      /\ Meets(sessions, onDisk, act[a]) /\ Intact /\ Become(a, Idle)
  BY DEF Rollback, At, Still, records, Proper, FinishCreation
<1>2. Alone(a) /\ act'[a] = Idle
  BY <1>1, BecomeLeads
<1>3. Routed(a, act'[a]) /\ Meets(sessions, onDisk', act'[a]) /\ ~ Tends(act'[a])
  BY <1>2, IdleIsProper
<1>4. ~ Tends(act[a]) /\ act[a].branch \notin BranchesOf(sessions)
  BY <1>1 DEF Tends, Routed, Placed, Reconciling, Pruning, Ending, Settling, Meets, Building
<1>5. /\ registered' = onDisk' /\ onDisk' \subseteq onDisk
      /\ \A b \in onDisk \ onDisk' : b = act[a].branch /\ act[a].mode # "adopt"
  BY <1>1 DEF Rollback, WithoutWorktree, Intact
<1>6. branches' = branches \/ (act[a].branch \notin registered' /\ branches' = branches \ {act[a].branch})
  BY DEF Rollback, WithoutBranch
<1>7. Intact'
  <2>1. act[a].mode # "adopt" => act[a].branch \notin Existing
    BY <1>1 DEF Routed, Foreign
  <2>2. QED
    BY <1>1, <1>5, <1>6, <2>1 DEF Intact
<1>8. ASSUME NEW b \in Actor \ {a}
      PROVE  /\ Has(act[b]) => act[b].branch \in onDisk'
             /\ act[b].pc \in {"tmux", "record"} => act[b].branch \in onDisk'
  <2>1. Routed(b, act[b]) /\ Meets(sessions, onDisk, act[b])
    BY DEF Proper
  <2>2. a \in Request /\ b \in Worker
    BY <1>1 DEF Routed, Placed, Reconciling, Pruning, Ending, Actor
  <2>3. act[b].pc \notin {"tmux", "record"}
    BY <2>1, <2>2 DEF Routed, Placed, Reconciling, Pruning, Ending
  <2>4. ASSUME Has(act[b]) PROVE act[b].branch \in onDisk'
    <3>1. /\ act[b].id \in DOMAIN sessions /\ sessions[act[b].id].type = "worktree"
          /\ sessions[act[b].id].branch = act[b].branch /\ act[b].branch \in onDisk
      BY <2>1, <2>4 DEF Meets, Tending, Has
    <3>2. act[b].branch \in BranchesOf(sessions)
      BY <3>1 DEF BranchesOf, OfType
    <3>3. QED
      BY <1>4, <1>5, <3>1, <3>2
  <2>5. QED
    BY <2>3, <2>4
<1>9. \A i \in OfType(sessions, "worktree") : sessions[i].branch \notin onDisk \ onDisk'
  BY <1>4, <1>5 DEF BranchesOf
<1>10. \A b \in onDisk' \ onDisk : b \notin BranchesOf(sessions)
  BY <1>5
<1>11. QED
  BY <1>1, <1>2, <1>3, <1>4, <1>7, <1>8, <1>9, <1>10, ProperDisk

(* A cleanup removes the worktree of its session, which no other has.      *)
LEMMA ProperRemoving ==
  ASSUME IInv, Knowing, Proper, Remains, "remove" \notin Failing, NEW a \in Actor, RemoveWorktree(a)
  PROVE  Proper'
<1> DEFINE id == act[a].id
           x == act[a].branch
<1>1. /\ Still /\ act[a].pc = "remove" /\ UNCHANGED project /\ Routed(a, act[a])
      /\ Meets(sessions, onDisk, act[a]) /\ Intact /\ Flat(sessions) /\ OneEach
  BY DEF RemoveWorktree, At, Still, records, Proper
<1>2. act[a].undo /\ act[a].force /\ Tends(act[a]) /\ Has(act[a])
  BY <1>1 DEF Routed, Placed, Reconciling, Pruning, Settling, Creating, Tends, Has, Taken
<1>3. /\ id \in DOMAIN sessions /\ sessions[id].type = "worktree" /\ sessions[id].branch = x
      /\ x \in onDisk /\ id \in OfType(sessions, "worktree")
  BY <1>1, <1>2 DEF Meets, Tending, OfType
<1>4. /\ Goto(a, "kill") /\ registered' = registered \ {x} /\ onDisk' = onDisk \ {x}
      /\ branches' = branches
  BY <1>2, <1>3 DEF RemoveWorktree, WithoutWorktree
<1>5. Alone(a) /\ act'[a].pc = "kill" /\ Bearing(act[a], act'[a]) /\ act'[a].plan = act[a].plan
  BY <1>4, GotoBears
<1>6. Intact'
  BY <1>1, <1>2, <1>4 DEF Intact, Routed, Foreign
<1>7. Routed(a, act'[a])
  BY <1>1, <1>2, <1>5 DEF Bearing, Routed, Placed, Foreign, Reconciling, Pruning, Removing, Settling, Ending
<1>8. Tends(act'[a]) /\ Taken(act'[a]) /\ act'[a].id = id
  BY <1>2, <1>5 DEF Bearing, Tends, Taken
<1>9. Meets(sessions, onDisk', act'[a])
  BY <1>1, <1>2, <1>5, <1>8 DEF Meets, Tending, Building, Viewing, Has, Pruning, Creating, Bearing
<1> HIDE DEF id, x
<1>10. ASSUME NEW b \in Actor \ {a}
       PROVE  /\ Has(act[b]) => act[b].branch \in onDisk'
              /\ act[b].pc \in {"tmux", "record"} => act[b].branch \in onDisk'
  <2>1. Meets(sessions, onDisk, act[b])
    BY DEF Proper
  <2>2. ASSUME act[b].pc \in {"tmux", "record"} PROVE act[b].branch \in onDisk'
    <3>1. act[b].branch \notin BranchesOf(sessions) /\ act[b].branch \in onDisk
      BY <2>1, <2>2 DEF Meets, Building, Creating
    <3>2. x \in BranchesOf(sessions)
      BY <1>3 DEF BranchesOf
    <3>3. QED
      BY <1>4, <3>1, <3>2
  <2>3. ASSUME Has(act[b]) PROVE act[b].branch \in onDisk'
    <3>1. /\ act[b].id \in OfType(sessions, "worktree") /\ Tends(act[b])
          /\ sessions[act[b].id].branch = act[b].branch /\ act[b].branch \in onDisk
      BY <2>1, <2>3 DEF Meets, Tending, Has, OfType
    <3>2. act[b].id # id
      BY <1>2, <3>1 DEF Proper, id
    <3>3. QED
      BY <1>1, <1>3, <1>4, <3>1, <3>2 DEF OneEach
  <2>4. QED
    BY <2>2, <2>3
<1>11. ASSUME NEW i \in OfType(sessions, "worktree"), sessions[i].branch \in onDisk \ onDisk' PROVE i = id
  BY <1>1, <1>3, <1>4, <1>11 DEF OneEach
<1>12. \A b \in onDisk' \ onDisk : b \notin BranchesOf(sessions)
  BY <1>4
<1>13. Tends(act'[a]) => Tends(act[a]) /\ act'[a].id = act[a].id
  BY <1>2, <1>8 DEF id
<1>14. QED
  BY <1>1, <1>5, <1>6, <1>7, <1>8, <1>9, <1>10, <1>11, <1>12, <1>13, ProperDisk

------------------------------------------------------------------------------
(* Steps that take records away.                                           *)

(* A session without its worktree is being removed and has no children.    *)
LEMMA LostIsBare ==
  ASSUME Proper, NEW i \in DOMAIN sessions, sessions[i].type = "worktree", sessions[i].branch \notin onDisk
  PROVE  Children(sessions, i) = {}
<1>1. PICK b \in Actor : Tends(act[b]) /\ act[b].id = i /\ Taken(act[b])
  BY DEF Proper, Served, Done, OfType
<1>2. Filled(sessions, i, act[b].made) /\ Routed(b, act[b])
  BY <1>1 DEF Proper, Meets, Tending
<1>3. act[b].made = <<>>
  BY <1>1, <1>2 DEF Routed, Placed, Tends, Taken, Settling, Creating, Reconciling, Pruning
<1>4. QED
  BY <1>2, <1>3 DEF Filled

(* What goes has no children, and nobody else has it in hand.              *)
LEMMA ProperTaking ==
  ASSUME IInv, Knowing, Proper, Remains, NEW a \in Actor, Alone(a),
         UNCHANGED <<project, git>>, Later, Untouched,
         NEW gone, DOMAIN sessions' = DOMAIN sessions \ gone,
         \A i \in gone \cap DOMAIN sessions : Children(sessions, i) = {},
         \A b \in Actor \ {a} :
           /\ Has(act[b]) => act[b].id \notin gone
           /\ Tends(act[b]) /\ act[b].id \in DOMAIN sessions => gone \cap Children(sessions, act[b].id) = {},
         \A i \in OfType(sessions, "worktree") :
           (Tends(act[a]) /\ act[a].id = i) \/ gone \cap Children(sessions, i) = {},
         Routed(a, act'[a]), Meets(sessions', onDisk, act'[a]),
         Tends(act'[a]) => Tends(act[a]) /\ act'[a].id = act[a].id,
         Tends(act[a]) => act[a].id \in gone \/ (Tends(act'[a]) /\ (Taken(act[a]) => Taken(act'[a])))
  PROVE  Proper'
<1>1. Intact' /\ onDisk' = onDisk /\ Sound /\ Flat(sessions) /\ OneEach
  BY IntactStays DEF IInv, Proper
<1>2. \A i \in DOMAIN sessions' : i \in DOMAIN sessions /\ i \notin gone /\ sessions'[i] = sessions[i]
  BY DEF Untouched
<1>3. \A i \in DOMAIN sessions : Children(sessions', i) = Children(sessions, i) \ gone
  BY <1>2 DEF Children
<1>4. Flat(sessions')
  <2>1. ASSUME NEW i \in DOMAIN sessions', sessions[i].type = "secondary"
        PROVE  sessions[i].parent \in OfType(sessions', "worktree")
    <3>1. sessions[i].parent \in OfType(sessions, "worktree") /\ i \in DOMAIN sessions
      BY <1>1, <1>2, <2>1 DEF Flat
    <3>2. sessions[i].parent \notin gone
      BY <3>1 DEF OfType, Children
    <3>3. QED
      BY <1>2, <3>1, <3>2 DEF OfType
  <2>2. QED
    BY <1>1, <1>2, <2>1 DEF Flat
<1>5. OneEach'
  BY <1>1, <1>2 DEF OneEach, OfType
<1>6. BranchesOf(sessions') \subseteq BranchesOf(sessions)
  BY <1>2 DEF BranchesOf, OfType
<1>7. ASSUME NEW b \in Actor \ {a} PROVE Meets(sessions', onDisk', act[b])
  <2>1. /\ Carries(act[b]) /\ Issued(act[b].id) /\ Knows(sessions, nextID, act[b])
        /\ Meets(sessions, onDisk, act[b])
    BY DEF IInv, Actors, Knowing, Proper
  <2>2. Has(act[b]) => act[b].id \in DOMAIN sessions' /\ act[b].branch \in onDisk'
    BY <1>1, <2>1 DEF Meets, Tending
  <2>3. Tends(act[b]) /\ act[b].id \in DOMAIN sessions =>
          Children(sessions', act[b].id) = Children(sessions, act[b].id)
    BY <1>3
  <2>4. act[b].pc \in Creating \cup {"rollback"} => act[b].branch \notin BranchesOf(sessions')
    BY <1>6, <2>1 DEF Meets, Building
  <2>5. act[b].pc \in {"tmux", "record"} => act[b].branch \in onDisk'
    BY <1>1, <2>1 DEF Meets, Building
  <2>6. \A x \in onDisk' \ onDisk : x \notin BranchesOf(sessions)
    BY <1>1
  <2>7. QED
    BY <1>1, <2>1, <2>2, <2>3, <2>4, <2>5, <2>6, MeetsStays
<1>8. ASSUME NEW i \in OfType(sessions', "worktree") PROVE Served(sessions', onDisk', abandoned', act', i)
  <2>1. i \in OfType(sessions, "worktree") /\ i \in DOMAIN sessions' /\ i \notin gone
        /\ sessions'[i] = sessions[i]
    BY <1>2 DEF OfType
  <2>2. Served(sessions, onDisk, abandoned, act, i)
    BY <2>1 DEF Proper
  <2>3. CASE Tends(act[a]) /\ act[a].id = i
    <3>1. Tends(act'[a]) /\ (Taken(act[a]) => Taken(act'[a])) /\ act'[a].id = i
      BY <2>1, <2>3
    <3>2. Has(act[a]) => sessions[i].branch \in onDisk
      BY <2>3 DEF Proper, Meets, Tending
    <3>3. QED
      BY <1>1, <2>1, <2>2, <2>3, <3>1, <3>2 DEF Served, Has
  <2>4. CASE ~ (Tends(act[a]) /\ act[a].id = i)
    <3>1. Children(sessions', i) = Children(sessions, i)
      BY <1>3, <2>1, <2>4 DEF OfType
    <3>2. QED
      BY <1>1, <2>1, <2>2, <2>4, <3>1, ServedStays
  <2>5. QED
    BY <2>3, <2>4
<1>9. QED
  BY <1>1, <1>4, <1>5, <1>7, <1>8, ProperAfter

(* A plan that moves nobody only deletes.                                  *)
LEMMA RewritingTakes ==
  ASSUME NEW plan, DOMAIN plan.reparent = {}, Rewrite(plan)
  PROVE  /\ Broken(plan) = {} /\ DOMAIN sessions' = DOMAIN sessions \ plan.delete /\ Untouched
<1>1. Broken(plan) = {}
  BY DEF Broken
<1>2. sessions' = Carried(sessions, plan)
  BY <1>1 DEF Rewrite
<1>3. QED
  BY <1>1, <1>2 DEF Carried, Untouched

(* The sessions pruned are others' that are being removed.                 *)
LEMMA ProperPruning ==
  ASSUME IInv, Knowing, Proper, Remains, NEW a \in Actor, PruneWrite(a)
  PROVE  Proper'
<1> DEFINE gone == act[a].plan.delete
<1>1. /\ act[a].pc = "prune-write" /\ Rewrite(act[a].plan) /\ UNCHANGED <<project, git>>
      /\ Routed(a, act[a]) /\ Meets(sessions, onDisk, act[a]) /\ Flat(sessions) /\ Sound
      /\ Carries(act[a]) /\ Issued(act[a].id) /\ Knows(sessions, nextID, act[a])
  BY DEF PruneWrite, At, Proper, IInv, Actors, Knowing
<1>2. DOMAIN act[a].plan.reparent = {}
  BY <1>1 DEF Routed, Pruning
<1>3. Broken(act[a].plan) = {} /\ DOMAIN sessions' = DOMAIN sessions \ gone /\ Untouched
  BY <1>1, <1>2, RewritingTakes
<1>4. Become(a, [Forget(a) EXCEPT !.pc = act[a].then])
  BY <1>3 DEF PruneWrite
<1>5. /\ Alone(a) /\ act'[a].pc = act[a].then /\ Bearing(act[a], act'[a])
      /\ act'[a].then = act[a].then
  BY <1>4, ForgettingBears
<1>6. Later
  BY StepsAge DEF Steps
<1>7. \A i \in gone \cap DOMAIN sessions :
        sessions[i].type = "worktree" /\ sessions[i].branch \notin onDisk /\ Children(sessions, i) = {}
  BY <1>1, LostIsBare DEF Meets, Viewing, Pruning
<1>8. NoParent \notin DOMAIN sessions
  BY <1>1 DEF Sound, Aged, NoParent
<1>9. \A i \in DOMAIN sessions : gone \cap Children(sessions, i) = {}
  BY <1>1, <1>7, <1>8 DEF Flat, Children
<1>10. \A b \in Actor : Has(act[b]) => act[b].id \notin gone /\ act[b].id \in DOMAIN sessions
                                       /\ act[b].branch \in onDisk
  BY <1>7 DEF Proper, Meets, Tending
<1>11. act[a].then = (IF act[a].undo THEN "plan" ELSE "read") /\ (~ act[a].undo => a \notin Worker)
  BY <1>1 DEF Routed, Placed, Reconciling, Pruning
<1>12. Routed(a, act'[a])
  BY <1>1, <1>5, <1>11 DEF Bearing, Routed, Placed, Foreign, Reconciling, Pruning, Removing, Settling,
     Creating, Ending
<1>13. (Tends(act'[a]) <=> Tends(act[a])) /\ (Has(act'[a]) => Has(act[a]))
  BY <1>1, <1>5, <1>11 DEF Bearing, Tends, Has, Taken, Settling
<1>14. Meets(sessions', onDisk, act'[a])
  <2>1. onDisk' = onDisk
    BY <1>1 DEF git
  <2>2. \A i \in DOMAIN sessions : Children(sessions', i) = Children(sessions, i)
    BY <1>3, <1>9 DEF Children, Untouched
  <2>3. Meets(sessions', onDisk', act[a])
    BY <1>1, <1>3, <1>6, <1>10, <2>1, <2>2, MeetsStays DEF Creating
  <2>4. Tending(sessions', onDisk, act'[a])
    BY <1>5, <1>13, <2>1, <2>3, TendingStays DEF Meets
  <2>5. QED
    BY <1>5, <1>11, <2>4 DEF Meets, Building, Viewing, Creating, Pruning
<1> HIDE DEF gone
<1>15. \A i \in OfType(sessions, "worktree") : gone \cap Children(sessions, i) = {}
  BY <1>9 DEF OfType
<1>16. Tends(act[a]) => Tends(act'[a]) /\ ~ Taken(act[a]) /\ act'[a].id = act[a].id
  BY <1>1, <1>5, <1>13 DEF Bearing, Taken
<1>17. QED
  BY <1>1, <1>3, <1>5, <1>6, <1>7, <1>9, <1>10, <1>12, <1>13, <1>14, <1>15, <1>16, ProperTaking

(* The session in hand leaves alone.                                       *)
LEMMA ProperForgetting ==
  ASSUME IInv, Knowing, Proper, Remains, NEW a \in Actor, Alone(a),
         UNCHANGED <<project, git>>, Later, Untouched,
         Tends(act[a]), act[a].made = <<>>, DOMAIN sessions' = DOMAIN sessions \ {act[a].id},
         Routed(a, act'[a]), Meets(sessions', onDisk, act'[a]), ~ Tends(act'[a])
  PROVE  Proper'
<1> DEFINE id == act[a].id
<1>1. Flat(sessions) /\ Sound /\ Meets(sessions, onDisk, act[a])
  BY DEF Proper, IInv
<1>2. id \in DOMAIN sessions => sessions[id].type = "worktree" /\ Children(sessions, id) = {}
  BY <1>1 DEF Meets, Tending, Filled
<1>3. \A b \in Actor \ {a} : Tends(act[b]) => act[b].id # id
  BY DEF Proper
<1>4. \A i \in DOMAIN sessions : {id} \cap Children(sessions, i) = {}
  BY <1>1, <1>2 DEF Flat, Children, Sound, Aged, NoParent
<1> HIDE DEF id
<1>5. \A b \in Actor \ {a} : Has(act[b]) => act[b].id \notin {id}
  BY <1>3 DEF Has
<1>6. \A i \in OfType(sessions, "worktree") : {id} \cap Children(sessions, i) = {}
  BY <1>4 DEF OfType
<1>7. \A i \in {id} \cap DOMAIN sessions : Children(sessions, i) = {}
  BY <1>2
<1>8. act[a].id \in {id} /\ DOMAIN sessions' = DOMAIN sessions \ {id}
  BY DEF id
<1>9. QED
  BY <1>4, <1>5, <1>6, <1>7, <1>8, ProperTaking

(* The end of a cleanup's deletion.                                        *)
LEMMA ProperWriting ==
  ASSUME IInv, Knowing, Proper, Remains, NEW a \in Actor, Write(a)
  PROVE  Proper'
<1>1. /\ act[a].pc = "write" /\ Rewrite(act[a].plan) /\ UNCHANGED <<project, git>>
      /\ Routed(a, act[a]) /\ EndRemoval(a)
  BY DEF Write, At, Proper
<1>2. act[a].undo /\ Tends(act[a])
  BY <1>1 DEF Routed, Placed, Reconciling, Pruning, Settling, Creating, Tends
<1>3. /\ DOMAIN act[a].plan.reparent = {} /\ act[a].plan.delete = {act[a].id} /\ act[a].made = <<>>
  BY <1>1, <1>2 DEF Routed, Removing
<1>4. DOMAIN sessions' = DOMAIN sessions \ {act[a].id} /\ Untouched
  BY <1>1, <1>3, RewritingTakes
<1>5. /\ Alone(a) /\ act'[a].pc = "branch" /\ Bearing(act[a], act'[a]) /\ act'[a].then = act[a].then
  BY <1>1, <1>2, ForgettingBears DEF EndRemoval
<1>6. Later
  BY StepsAge DEF Steps
<1>7. Routed(a, act'[a])
  BY <1>1, <1>2, <1>5 DEF Bearing, Routed, Placed, Foreign, Reconciling, Pruning, Removing, Settling,
     Ending
<1>8. ~ Tends(act'[a])
  BY <1>5 DEF Tends, Settling
<1>9. Meets(sessions', onDisk, act'[a])
  BY <1>5, <1>8 DEF Meets, Tending, Building, Viewing, Has, Creating, Pruning
<1>10. QED
  BY <1>1, <1>2, <1>3, <1>4, <1>5, <1>6, <1>7, <1>8, <1>9, ProperForgetting

(* The record of a creation that takes itself back.                        *)
LEMMA ProperUndoing ==
  ASSUME IInv, Knowing, Proper, Remains, NEW a \in Actor, UndoRecord(a)
  PROVE  Proper'
<1> DEFINE id == act[a].id
<1>1. /\ act[a].pc = "undo-record" /\ DeleteRecords({id}) /\ UNCHANGED <<project, git>>
      /\ Routed(a, act[a]) /\ Meets(sessions, onDisk, act[a]) /\ Goto(a, "rollback") /\ OneEach
  BY DEF UndoRecord, At, Proper, DeleteRecords
<1>2. Tends(act[a]) /\ Has(act[a]) /\ ~ act[a].undo /\ a \notin Worker /\ act[a].made = <<>>
  BY <1>1 DEF Routed, Placed, Reconciling, Pruning, Ending, Tends, Has, Taken, Settling
<1>3. DOMAIN sessions' = DOMAIN sessions \ {id} /\ Untouched
  BY <1>1 DEF DeleteRecords, Untouched
<1>4. /\ Alone(a) /\ act'[a].pc = "rollback" /\ Bearing(act[a], act'[a])
  BY <1>1, GotoBears
<1>5. Later
  BY StepsAge DEF Steps
<1>6. Routed(a, act'[a])
  BY <1>1, <1>2, <1>4 DEF Bearing, Routed, Placed, Foreign, Reconciling, Pruning, Removing, Settling
<1>7. ~ Tends(act'[a])
  BY <1>2, <1>4 DEF Tends, Settling, Bearing
<1>8. act[a].branch \notin BranchesOf(sessions')
  <2>1. id \in OfType(sessions, "worktree") /\ sessions[id].branch = act[a].branch
    BY <1>1, <1>2 DEF Meets, Tending, OfType
  <2>2. \A i \in OfType(sessions', "worktree") :
          i \in OfType(sessions, "worktree") /\ i # id /\ sessions'[i] = sessions[i]
    BY <1>3 DEF OfType, Untouched
  <2>3. QED
    BY <1>1, <2>1, <2>2 DEF BranchesOf, OneEach
<1>9. Meets(sessions', onDisk, act'[a])
  BY <1>4, <1>7, <1>8 DEF Meets, Tending, Building, Viewing, Has, Pruning, Bearing
<1>10. QED
  BY <1>1, <1>2, <1>3, <1>4, <1>5, <1>6, <1>7, <1>9, ProperForgetting

(* A declared secondary taken back: the last of those made.                *)
LEMMA ProperUnwinding ==
  ASSUME IInv, Knowing, Proper, Remains, NEW a \in Actor, UnwindRecord(a)
  PROVE  Proper'
<1> DEFINE made == act[a].made
           left == Front(made)
           x == Last(made)
           id == act[a].id
           last == [act[a] EXCEPT !.made = left]
<1>1. /\ act[a].pc = "unwind-record" /\ DeleteRecords({x}) /\ UNCHANGED <<project, git>>
      /\ Routed(a, act[a]) /\ Meets(sessions, onDisk, act[a]) /\ Flat(sessions) /\ Sound
      /\ Knows(sessions, nextID, act[a]) /\ DOMAIN act[a] = DOMAIN Idle
  BY DEF UnwindRecord, At, Proper, DeleteRecords, IInv, Actors, Knowing, Carries
<1>2. Tends(act[a]) /\ Has(act[a]) /\ ~ act[a].undo
  BY <1>1 DEF Routed, Placed, Reconciling, Pruning, Ending, Tends, Has, Taken, Settling
<1>3. /\ made \in Seq(Int) /\ made # <<>>
      /\ \A n \in 1 .. Len(made) :
           made[n] \in DOMAIN sessions =>
             sessions[made[n]].type = "secondary" /\ sessions[made[n]].tmux = <<act[a].branch, n>>
  BY <1>1 DEF Knows, KnowsMade, Settling
<1>4. /\ id \in DOMAIN sessions /\ sessions[id].type = "worktree" /\ sessions[id].branch = act[a].branch
      /\ act[a].branch \in onDisk /\ Filled(sessions, id, made)
  BY <1>1, <1>2 DEF Meets, Tending
<1>5. PICK new : /\ Become(a, new)
                 /\ \/ new = [last EXCEPT !.pc = "unwind"]
                    \/ new = [last EXCEPT !.pc = "undo"] /\ left = <<>> /\ a \in Request
                    \/ /\ new = [last EXCEPT !.pc = "lock", !.force = TRUE, !.undo = TRUE]
                       /\ left = <<>> /\ a \notin Request
  BY DEF UnwindRecord
<1> HIDE DEF left
<1>6. /\ last.made = left /\ last.id = id /\ last.branch = act[a].branch /\ last.mode = act[a].mode
      /\ last.parent = act[a].parent /\ last.undo = act[a].undo /\ last.force = act[a].force
      /\ DOMAIN last = DOMAIN Idle
  BY <1>1 DEF Idle
<1> HIDE DEF last
<1>7. /\ new.made = left /\ new.id = id /\ new.branch = act[a].branch /\ new.mode = act[a].mode
      /\ new.parent = act[a].parent
      /\ \/ new.pc = "unwind" /\ ~ new.undo
         \/ new.pc = "undo" /\ ~ new.undo /\ left = <<>> /\ a \in Request
         \/ new.pc = "lock" /\ new.undo /\ new.force /\ left = <<>> /\ a \in Worker
  BY <1>2, <1>5, <1>6 DEF Idle, Actor
<1>8. Alone(a) /\ act'[a] = new
  BY <1>5, BecomeLeads
<1> HIDE DEF made
<1>9. /\ Len(made) \in Nat \ {0} /\ x = made[Len(made)]
      /\ left \in Seq(Int) /\ Len(left) = Len(made) - 1
      /\ \A n \in 1 .. Len(left) : left[n] = made[n]
  <2>1. Len(made) \in Nat \ {0} /\ x = made[Len(made)]
    BY <1>3 DEF Last
  <2>2. /\ left \in Seq(Int) /\ Len(left) = Len(made) - 1
        /\ \A n \in 1 .. Len(left) : left[n] = made[n]
    BY <1>3, FrontShorter DEF left
  <2>3. QED
    BY <2>1, <2>2
<1> HIDE DEF x, id
<1>10. /\ \A n \in 1 .. Len(made) : made[n] \in Children(sessions, id) /\ sessions[made[n]].name = n
                                    /\ made[n] \in DOMAIN sessions /\ sessions[made[n]].type = "secondary"
       /\ \A c \in Children(sessions, id) : \E n \in 1 .. Len(made) : c = made[n]
  BY <1>3, <1>4 DEF Filled, Children
<1>11. /\ x \in Children(sessions, id) /\ x \in DOMAIN sessions
       /\ sessions[x].type = "secondary" /\ sessions[x].parent = id
  BY <1>9, <1>10 DEF Children
<1>12. DOMAIN sessions' = DOMAIN sessions \ {x} /\ Untouched
  BY <1>1 DEF DeleteRecords, Untouched, x, made
<1>13. Later
  BY StepsAge DEF Steps
<1>14. \A n \in 1 .. Len(left) : left[n] = made[n] /\ made[n] # x /\ n \in 1 .. Len(made)
  <2>1. \A n \in 1 .. Len(left) : n \in 1 .. Len(made) /\ n # Len(made) /\ left[n] = made[n]
    BY <1>9
  <2>2. Len(made) \in 1 .. Len(made)
    BY <1>9
  <2>3. \A n, m \in 1 .. Len(made) : made[n] = made[m] => n = m
    BY <1>10
  <2>4. QED
    BY <1>9, <2>1, <2>2, <2>3
<1>15. ASSUME NEW c \in Children(sessions, id), c # x PROVE \E n \in 1 .. Len(left) : c = left[n]
  <2>1. PICK n \in 1 .. Len(made) : c = made[n]
    BY <1>10
  <2>2. n \in 1 .. Len(left)
    BY <1>9, <1>15, <2>1
  <2>3. QED
    BY <1>9, <2>1, <2>2
<1>16. Filled(sessions', id, left)
  <2>1. Children(sessions', id) = Children(sessions, id) \ {x}
    BY <1>12 DEF Children, Untouched
  <2>2. \A n \in 1 .. Len(left) :
          left[n] \in Children(sessions', id) /\ sessions'[left[n]] = sessions[left[n]]
    <3>1. \A n \in 1 .. Len(left) : left[n] \in Children(sessions, id) /\ left[n] # x
      BY <1>10, <1>14
    <3>2. \A c \in Children(sessions, id) : c # x => sessions'[c] = sessions[c]
      BY <1>12 DEF Children, Untouched
    <3>3. QED
      BY <2>1, <3>1, <3>2
  <2>3. QED
    BY <1>10, <1>14, <1>15, <2>1, <2>2 DEF Filled
<1>17. id \in DOMAIN sessions' /\ sessions'[id] = sessions[id]
  <2>1. id # x
    BY <1>4, <1>11
  <2>2. QED
    BY <1>4, <1>12, <2>1 DEF Untouched
<1>18. Tends(new) /\ Has(new)
  BY <1>7 DEF Tends, Has, Taken, Settling
<1>19. Meets(sessions', onDisk, new)
  <2>1. Tending(sessions', onDisk, new)
    BY <1>4, <1>7, <1>16, <1>17 DEF Tending
  <2>2. QED
    BY <1>7, <2>1 DEF Meets, Building, Viewing, Creating, Pruning
<1>20. Routed(a, new)
  <2>1. Len(left) <= Declared /\ act[a].parent = NoParent
    <3>1. Len(made) <= Declared /\ act[a].parent = NoParent
      BY <1>1 DEF Routed, Settling, made
    <3>2. QED
      BY <1>9, <3>1, SessionLifecycleAssumption
  <2>2. Placed(a, new)
    BY <1>7, SessionLifecycleAssumption DEF Placed, Settling, Ending
  <2>3. Foreign(a, new) => new.branch \notin Existing
    <3>1. Foreign(a, act[a]) => act[a].branch \notin Existing
      BY <1>1 DEF Routed, Settling
    <3>2. QED
      BY <1>2, <1>7, <3>1 DEF Foreign
  <2>4. QED
    BY <1>7, <2>1, <2>2, <2>3 DEF Routed, Reconciling, Pruning, Removing
<1>21. Children(sessions, x) = {}
  <2>1. x # NoParent
    BY <1>1, <1>11 DEF Sound, Aged, NoParent
  <2>2. QED
    BY <1>1, <1>11, <2>1 DEF Flat, Children, OfType
<1>22. \A i \in DOMAIN sessions : i # id => {x} \cap Children(sessions, i) = {}
  BY <1>11 DEF Children
<1>23. ASSUME NEW b \in Actor \ {a}
       PROVE  /\ Has(act[b]) => act[b].id \notin {x}
              /\ Tends(act[b]) /\ act[b].id \in DOMAIN sessions => {x} \cap Children(sessions, act[b].id) = {}
  <2>1. Tends(act[b]) => act[b].id # id
    BY <1>2 DEF Proper, id
  <2>2. Has(act[b]) => sessions[act[b].id].type = "worktree"
    BY DEF Proper, Meets, Tending, Has
  <2>3. QED
    BY <1>11, <1>22, <2>1, <2>2
<1>24. \A i \in OfType(sessions, "worktree") :
          (Tends(act[a]) /\ act[a].id = i) \/ {x} \cap Children(sessions, i) = {}
  BY <1>2, <1>22 DEF OfType, id
<1>25. act'[a].id = act[a].id /\ ~ Taken(act[a])
  BY <1>2, <1>7, <1>8 DEF Has, id
<1>26. \A i \in {x} \cap DOMAIN sessions : Children(sessions, i) = {}
  BY <1>21
<1>27. QED
  BY <1>1, <1>2, <1>8, <1>12, <1>13, <1>18, <1>19, <1>20, <1>23, <1>24, <1>25, <1>26, ProperTaking

------------------------------------------------------------------------------
(* Steps that add a record.                                                *)

(* A record under the session in hand, or a new session in hand.           *)
LEMMA ProperAddingRecord ==
  ASSUME IInv, Knowing, Proper, Remains, NEW a \in Actor, Alone(a), UNCHANGED git,
         NEW record, AddRecord(record),
         Flat(sessions'), OneEach', Routed(a, act'[a]), Meets(sessions', onDisk, act'[a]),
         Tends(act'[a]),
         \/ /\ record.type = "secondary" /\ record.parent = act[a].id
            /\ Has(act[a]) /\ act'[a].id = act[a].id
         \/ /\ record.type = "worktree" /\ record.parent = NoParent /\ record.branch \in onDisk
            /\ ~ Tends(act[a]) /\ act'[a].id = nextID
            /\ \A b \in Actor \ {a} : act[b].pc \notin Creating \cup {"rollback"}
  PROVE  Proper'
<1>1. Intact' /\ onDisk' = onDisk /\ Sound
  BY IntactStays DEF IInv, AddRecord
<1>2. /\ nextID' = nextID + 1 /\ nextID \in Int
      /\ DOMAIN sessions' = DOMAIN sessions \cup {nextID} /\ nextID \notin DOMAIN sessions
      /\ sessions'[nextID] = record /\ \A i \in DOMAIN sessions : sessions'[i] = sessions[i]
      /\ Later
  BY <1>1, AddingRecord
<1>3. Untouched
  BY <1>2 DEF Untouched
<1>4. \A i \in DOMAIN sessions : i # record.parent => Children(sessions', i) = Children(sessions, i)
  BY <1>2 DEF Children
<1>5. NoParent \notin DOMAIN sessions
  BY <1>1 DEF Sound, Aged, NoParent
<1>6. ASSUME NEW b \in Actor \ {a} PROVE Meets(sessions', onDisk', act[b])
  <2>1. /\ Carries(act[b]) /\ Issued(act[b].id) /\ Knows(sessions, nextID, act[b])
        /\ Meets(sessions, onDisk, act[b])
    BY DEF IInv, Actors, Knowing, Proper
  <2>2. Has(act[b]) => act[b].id \in DOMAIN sessions' /\ act[b].branch \in onDisk'
    BY <1>1, <1>2, <2>1 DEF Meets, Tending
  <2>3. ASSUME Tends(act[b]), act[b].id \in DOMAIN sessions
        PROVE  Children(sessions', act[b].id) = Children(sessions, act[b].id)
    <3>1. act[b].id # record.parent
      BY <1>5, <2>3 DEF Proper, Has
    <3>2. QED
      BY <1>4, <2>3, <3>1
  <2>4. act[b].pc \in Creating \cup {"rollback"} => act[b].branch \notin BranchesOf(sessions')
    BY <1>2, <2>1 DEF Meets, Building, BranchesOf, OfType
  <2>5. act[b].pc \in {"tmux", "record"} => act[b].branch \in onDisk'
    BY <1>1, <2>1 DEF Meets, Building
  <2>6. \A x \in onDisk' \ onDisk : x \notin BranchesOf(sessions)
    BY <1>1
  <2>7. QED
    BY <1>1, <1>2, <1>3, <2>1, <2>2, <2>3, <2>4, <2>5, <2>6, MeetsStays
<1>7. ASSUME NEW i \in OfType(sessions', "worktree") PROVE Served(sessions', onDisk', abandoned', act', i)
  <2>1. CASE i = nextID
    <3>1. record.type = "worktree"
      BY <1>2, <2>1 DEF OfType
    <3>2. act'[a].id = nextID /\ record.branch \in onDisk
      BY <3>1
    <3>3. QED
      BY <1>1, <1>2, <2>1, <3>2 DEF Served
  <2>2. CASE i # nextID
    <3>1. i \in OfType(sessions, "worktree") /\ i \in DOMAIN sessions' /\ sessions'[i] = sessions[i]
          /\ i \in DOMAIN sessions
      BY <1>2, <2>2 DEF OfType
    <3>2. Served(sessions, onDisk, abandoned, act, i)
      BY <3>1 DEF Proper
    <3>3. CASE i = record.parent
      <4>1. Has(act[a]) /\ act[a].id = i /\ act'[a].id = i
        BY <1>5, <3>1, <3>3
      <4>2. sessions[i].branch \in onDisk
        BY <4>1 DEF Proper, Meets, Tending
      <4>3. QED
        BY <1>1, <3>1, <4>1, <4>2 DEF Served
    <3>4. CASE i # record.parent
      <4>1. Children(sessions', i) = Children(sessions, i)
        BY <1>4, <3>1, <3>4
      <4>2. ~ (Tends(act[a]) /\ act[a].id = i)
        BY <3>4
      <4>3. QED
        BY <1>1, <1>3, <3>1, <3>2, <4>1, <4>2, ServedStays
    <3>5. QED
      BY <3>3, <3>4
  <2>3. QED
    BY <2>1, <2>2
<1>8. act'[a].id = nextID \/ (Tends(act[a]) /\ act'[a].id = act[a].id)
  BY DEF Has
<1>9. QED
  BY <1>1, <1>6, <1>7, <1>8, ProperAfter

(* A declared secondary.                                                   *)
LEMMA ProperDeclaring ==
  ASSUME IInv, Knowing, Proper, Remains, NEW a \in Actor, Declare(a)
  PROVE  Proper'
<1> DEFINE made == act[a].made
           more == Append(made, nextID)
           id == act[a].id
           new == [act[a] EXCEPT !.pc = "materialize", !.made = more]
<1>1. /\ act[a].pc = "declare" /\ Become(a, new) /\ UNCHANGED git
      /\ Routed(a, act[a]) /\ Meets(sessions, onDisk, act[a]) /\ Flat(sessions) /\ OneEach /\ Sound
      /\ Knows(sessions, nextID, act[a])
  BY DEF Declare, At, Proper, IInv, Knowing
<1>2. PICK record : /\ AddRecord(record) /\ record.type = "secondary" /\ record.parent = id
                    /\ record.name = Len(made) + 1
  BY DEF Declare
<1>3. Tends(act[a]) /\ Has(act[a]) /\ ~ act[a].undo
  BY <1>1 DEF Routed, Placed, Reconciling, Pruning, Ending, Tends, Has, Taken, Settling
<1>4. /\ id \in DOMAIN sessions /\ sessions[id].type = "worktree" /\ sessions[id].branch = act[a].branch
      /\ act[a].branch \in onDisk /\ Filled(sessions, id, made)
  BY <1>1, <1>3 DEF Meets, Tending
<1>5. made \in Seq(Int)
  BY <1>1 DEF Knows, KnowsMade
<1>6. /\ nextID \in Int
      /\ DOMAIN sessions' = DOMAIN sessions \cup {nextID} /\ nextID \notin DOMAIN sessions
      /\ sessions'[nextID] = record /\ \A i \in DOMAIN sessions : sessions'[i] = sessions[i]
  BY <1>1, <1>2, AddingRecord
<1> HIDE DEF more
<1>7. /\ new.pc = "materialize" /\ new.made = more /\ new.id = id /\ new.branch = act[a].branch
      /\ new.mode = act[a].mode /\ new.parent = act[a].parent /\ new.undo = act[a].undo
      /\ new.force = act[a].force
  BY DEF IInv, Actors, Carries, Idle
<1> HIDE DEF new
<1>8. Alone(a) /\ act'[a] = new
  BY <1>1, BecomeLeads
<1>9. Flat(sessions')
  BY <1>1, <1>2, <1>4, <1>6 DEF Flat, OfType
<1>10. OneEach'
  BY <1>1, <1>2, <1>6 DEF OneEach, OfType
<1> HIDE DEF made, id
<1>11. /\ Len(more) = Len(made) + 1 /\ Len(made) \in Nat /\ more[Len(made) + 1] = nextID
       /\ \A n \in 1 .. Len(made) : more[n] = made[n]
  BY <1>5, <1>6 DEF more
<1>12. Filled(sessions', id, more)
  <2>1. Children(sessions', id) = Children(sessions, id) \cup {nextID}
    BY <1>2, <1>6 DEF Children
  <2>2. ASSUME NEW n \in 1 .. Len(more)
        PROVE  more[n] \in Children(sessions', id) /\ sessions'[more[n]].name = n
    <3>1. CASE n = Len(made) + 1
      BY <1>2, <1>6, <1>11, <2>1, <3>1
    <3>2. CASE n # Len(made) + 1
      <4>1. n \in 1 .. Len(made)
        BY <1>11, <3>2
      <4>2. made[n] \in Children(sessions, id) /\ sessions[made[n]].name = n
        BY <1>4, <4>1 DEF Filled
      <4>3. made[n] \in DOMAIN sessions
        BY <4>2 DEF Children
      <4>4. QED
        BY <1>6, <1>11, <2>1, <4>1, <4>2, <4>3
    <3>3. QED
      BY <3>1, <3>2
  <2>3. ASSUME NEW c \in Children(sessions', id) PROVE \E n \in 1 .. Len(more) : c = more[n]
    <3>1. CASE c = nextID
      <4>1. Len(made) + 1 \in 1 .. Len(more)
        BY <1>11
      <4>2. QED
        BY <1>11, <3>1, <4>1
    <3>2. CASE c # nextID
      <4>1. PICK n \in 1 .. Len(made) : c = made[n]
        BY <1>4, <2>1, <3>2 DEF Filled
      <4>2. n \in 1 .. Len(more)
        BY <1>11
      <4>3. QED
        BY <1>11, <4>1, <4>2
    <3>3. QED
      BY <3>1, <3>2
  <2>4. QED
    BY <2>2, <2>3 DEF Filled
<1>13. Tends(new) /\ Has(new)
  BY <1>7 DEF Tends, Has, Taken, Settling
<1>14. Meets(sessions', onDisk, new)
  <2>1. Tending(sessions', onDisk, new)
    BY <1>4, <1>6, <1>7, <1>12 DEF Tending
  <2>2. QED
    BY <1>7, <2>1 DEF Meets, Building, Viewing, Creating, Pruning
<1>15. Routed(a, new)
  <2>1. Len(more) <= Declared
    <3>1. Len(made) <= Declared - 1
      BY <1>1 DEF Routed, Settling, made
    <3>2. QED
      BY <1>11, <3>1, SessionLifecycleAssumption
  <2>2. Placed(a, new)
    BY <1>3, <1>7 DEF Placed, Settling
  <2>3. QED
    BY <1>1, <1>3, <1>7, <2>1, <2>2 DEF Routed, Foreign, Reconciling, Pruning, Removing, Settling
<1>16. record.parent = act[a].id /\ act'[a].id = act[a].id
  BY <1>2, <1>7, <1>8 DEF id
<1>17. QED
  BY <1>1, <1>2, <1>3, <1>8, <1>9, <1>10, <1>13, <1>14, <1>15, <1>16, ProperAddingRecord

(* The record of a creation, its worktree there and its branch without.    *)
LEMMA ProperRecording ==
  ASSUME IInv, Knowing, Proper, Remains, NEW r, Request = {r}, NEW a \in Actor, WriteRecord(a)
  PROVE  Proper'
<1> DEFINE new == [act[a] EXCEPT !.id = nextID,
                     !.pc = IF act[a].mode = "adopt" THEN "materialize" ELSE "hook"]
<1>1. /\ act[a].pc = "record" /\ Become(a, new) /\ UNCHANGED git
      /\ Routed(a, act[a]) /\ Meets(sessions, onDisk, act[a]) /\ Flat(sessions) /\ OneEach /\ Sound
      /\ Knows(sessions, nextID, act[a])
  BY DEF WriteRecord, At, Proper, IInv, Knowing
<1>2. /\ act[a].parent = NoParent /\ ~ act[a].undo /\ a \notin Worker /\ ~ Tends(act[a])
  BY <1>1 DEF Routed, Placed, Reconciling, Pruning, Ending, Tends, Settling
<1>3. PICK record : /\ AddRecord(record) /\ record.type = "worktree" /\ record.parent = NoParent
                    /\ record.branch = act[a].branch
  BY <1>2 DEF WriteRecord
<1>4. act[a].branch \in onDisk /\ act[a].branch \notin BranchesOf(sessions)
  BY <1>1 DEF Meets, Building, Creating
<1>5. act[a].made = <<>>
  BY <1>1 DEF Knows, KnowsMade, Beginning
<1>6. /\ nextID \in Int
      /\ DOMAIN sessions' = DOMAIN sessions \cup {nextID} /\ nextID \notin DOMAIN sessions
      /\ sessions'[nextID] = record /\ \A i \in DOMAIN sessions : sessions'[i] = sessions[i]
  BY <1>1, <1>3, AddingRecord
<1>7. /\ new.pc = (IF act[a].mode = "adopt" THEN "materialize" ELSE "hook") /\ new.id = nextID
      /\ new.branch = act[a].branch /\ new.made = act[a].made
      /\ new.mode = act[a].mode /\ new.parent = act[a].parent /\ new.undo = act[a].undo
      /\ new.force = act[a].force
  BY DEF IInv, Actors, Carries, Idle
<1> HIDE DEF new
<1>8. Alone(a) /\ act'[a] = new
  BY <1>1, BecomeLeads
<1>9. Flat(sessions')
  <2>1. OfType(sessions, "worktree") \subseteq OfType(sessions', "worktree")
    BY <1>6 DEF OfType
  <2>2. ASSUME NEW i \in DOMAIN sessions
        PROVE  sessions'[i].parent \in
                 IF sessions'[i].type = "secondary" THEN OfType(sessions', "worktree") ELSE {NoParent}
    BY <1>1, <1>6, <2>1 DEF Flat
  <2>3. sessions'[nextID].type # "secondary" /\ sessions'[nextID].parent = NoParent
    BY <1>3, <1>6
  <2>4. QED
    BY <1>6, <2>2, <2>3 DEF Flat
<1>10. OneEach'
  <2>1. \A i \in OfType(sessions, "worktree") : sessions[i].branch # act[a].branch
    BY <1>4 DEF BranchesOf
  <2>2. \A i \in OfType(sessions', "worktree") :
          \/ i = nextID /\ sessions'[i].branch = act[a].branch
          \/ i \in OfType(sessions, "worktree") /\ sessions'[i] = sessions[i]
    BY <1>3, <1>6 DEF OfType
  <2>3. QED
    BY <1>1, <2>1, <2>2 DEF OneEach
<1>11. Filled(sessions', nextID, <<>>)
  <2>1. Children(sessions', nextID) = {}
    <3>1. \A c \in DOMAIN sessions : sessions[c].parent # nextID
      BY <1>1, <1>6 DEF Sound, Aged, Counted, NoParent, MainID
    <3>2. nextID # NoParent
      BY <1>1 DEF Sound, Counted, NoParent, MainID
    <3>3. QED
      BY <1>3, <1>6, <3>1, <3>2 DEF Children
  <2>2. QED
    BY <2>1 DEF Filled
<1>12. Tends(new) /\ Has(new)
  BY <1>7 DEF Tends, Has, Taken, Settling
<1>13. Meets(sessions', onDisk, new)
  <2>1. Tending(sessions', onDisk, new)
    BY <1>3, <1>4, <1>5, <1>6, <1>7, <1>11 DEF Tending
  <2>2. QED
    BY <1>7, <2>1 DEF Meets, Building, Viewing, Creating, Pruning
<1>14. Routed(a, new)
  <2>1. Len(new.made) = 0 /\ Declared \in Nat
    BY <1>5, <1>7, SessionLifecycleAssumption
  <2>2. Placed(a, new)
    BY <1>2, <1>7 DEF Placed, Settling
  <2>3. Foreign(a, new) => new.branch \notin Existing
    BY <1>1, <1>2, <1>7 DEF Routed, Foreign
  <2>4. QED
    BY <1>2, <1>5, <1>7, <2>1, <2>2, <2>3 DEF Routed, Reconciling, Pruning, Removing
<1>15. ASSUME NEW b \in Actor \ {a} PROVE act[b].pc \notin Creating \cup {"rollback"}
  <2>1. b \in Worker /\ Routed(b, act[b])
    BY <1>2 DEF Actor, Proper
  <2>2. QED
    BY <2>1 DEF Routed, Placed, Reconciling, Pruning, Ending, Creating
<1>16. QED
  BY <1>1, <1>2, <1>3, <1>4, <1>7, <1>8, <1>9, <1>10, <1>12, <1>13, <1>14, <1>15, ProperAddingRecord

------------------------------------------------------------------------------
(* Every step.                                                             *)

(* The steps of an actor, one creation at a time.                          *)
LEMMA StepsProperly ==
  ASSUME IInv, Knowing, Apart, Proper, Remains, NEW r, SoleCreator(r), NEW a \in Actor, Steps(a)
  PROVE  Proper'
<1>1. Request = {r} /\ "kill" \notin Failing /\ "remove" \notin Failing /\ "stat" \notin Failing
  BY DEF SoleCreator
<1>2. act[a].pc \notin {"nest", "nest-tmux", "nest-record", "project", "project-kill", "project-write"}
  BY DEF Proper, Routed, Placed, Reconciling, Pruning, Ending, Creating, Settling
<1>3. ~ (Nest(a) \/ NestTmux(a) \/ NestRecord(a) \/ ProjectRead(a) \/ ProjectKill(a) \/ ProjectWrite(a))
  BY <1>2 DEF Nest, NestTmux, NestRecord, ProjectRead, ProjectKill, ProjectWrite, At
<1>4. CASE \/ PruneKill(a) \/ Reserve(a) \/ CheckGit(a) \/ CreateTmux(a) \/ Unwind(a) \/ Undo(a)
           \/ Kill(a)
  BY <1>1, <1>4, ProperSimply
<1>5. CASE \/ ReconcileRead(a) \/ ReconcileStat(a) \/ PruneWrite(a) \/ ReadState(a)
           \/ AddWorktree(a) \/ Rollback(a) \/ WriteRecord(a) \/ StartHook(a)
           \/ Materialize(a) \/ Declare(a) \/ UnwindRecord(a) \/ UndoRecord(a)
           \/ DeletePlan(a) \/ RemoveWorktree(a) \/ Write(a) \/ DeleteBranch(a)
  BY <1>1, <1>5, ProperReconcileRead, ProperReconcileStat, ProperPruning, ProperReading,
     ProperAdding, ProperRollingBack, ProperRecording, ProperHooking, ProperMaterializing,
     ProperDeclaring, ProperUnwinding, ProperUndoing, ProperPlanning, ProperRemoving,
     ProperWriting, ProperDeletingBranch
<1>6. QED
  BY <1>3, <1>4, <1>5 DEF Steps

(* Every step.                                                             *)
LEMMA EveryStepProper ==
  ASSUME IInv, Knowing, Apart, Proper, NEW r, SoleCreator(r), [Next]_vars
  PROVE  Proper'
<1> Remains
  BY StepRemains
<1>1. Request \subseteq Actor /\ Worker \subseteq Actor /\ "kill" \notin Failing
      /\ Operation \subseteq {"worktree"} /\ Outside = {}
  BY DEF Actor, SoleCreator
<1>2. CASE \E q \in Request : Starts(q)
  BY <1>1, <1>2, ProperStarting
<1>3. ASSUME NEW a \in Actor, Steps(a) \/ Locks(a) PROVE Proper'
  BY <1>1, <1>3, StepsProperly, ProperLocking, ProperSimply DEF Locks
<1>4. ASSUME NEW w \in Worker, HookSucceeds(w) \/ HookFails(w) PROVE Proper'
  BY <1>1, <1>4, ProperHookFails, ProperSimply
<1>5. ~ (\E b \in Branch : DirectoryVanishes(b)) /\ ~ (\E name \in tmux : TmuxExits(name))
  BY <1>1 DEF DirectoryVanishes, TmuxExits
<1>6. CASE UNCHANGED vars
  <2>1. UNCHANGED <<project, sessions, registered, onDisk, branches, abandoned, act>>
    BY <1>6 DEF vars, records, git, history
  <2>2. Proper' <=> Proper
    BY <2>1 DEF Proper, Intact, OneEach, OfType
  <2>3. QED
    BY <2>2
<1>7. QED
  BY <1>2, <1>3, <1>4, <1>5, <1>6 DEF Next

(* A Project that is opened.                                               *)
LEMMA InitProper == Init => Proper
<1> SUFFICES ASSUME Init PROVE Proper
  OBVIOUS
<1>1. /\ DOMAIN sessions = {MainID} /\ sessions[MainID].type = "main" /\ sessions[MainID].parent = NoParent
      /\ Intact /\ \A a \in Actor : act[a] = Idle
  BY DEF Init, Intact
<1>2. Flat(sessions) /\ OfType(sessions, "worktree") = {}
  BY <1>1 DEF Flat, OfType
<1>3. \A a \in Actor : Routed(a, act[a]) /\ Meets(sessions, onDisk, act[a]) /\ ~ Tends(act[a])
  BY <1>1, IdleIsProper
<1>4. QED
  BY <1>1, <1>2, <1>3 DEF Proper, OneEach

(* When nothing is in flight, setups have left what they should.           *)
LEMMA ProperIsAllOrNothing ==
  ASSUME Proper, Owned, Named
  PROVE  AllOrNothing
<1> SUFFICES ASSUME Quiet PROVE AllOrNothing
  BY DEF AllOrNothing
<1>1. project /\ OwnWorktrees \subseteq Recorded
  BY OwnedIsRecorded DEF Proper, Intact, WorktreesStayRecorded
<1>2. tmux \subseteq RecordedTmux
  BY NamedIsRecorded
<1>3. \A a \in Actor : ~ Tends(act[a])
  BY IdleIsProper DEF Quiet
<1>4. \A i \in OfType(sessions, "worktree") :
        sessions[i].branch \in onDisk /\ (sessions[i].branch \in abandoned \/ Complete(sessions, i))
  BY <1>3 DEF Proper, Served, Done
<1>5. Existing \cup Recorded \subseteq branches
  BY <1>4 DEF Recorded, Proper, Intact
<1>6. \A i \in OfType(sessions, "secondary") : sessions[i].parent \in OfType(sessions, "worktree")
  BY DEF Proper, Flat, OfType
<1>7. QED
  BY <1>1, <1>2, <1>4, <1>5, <1>6 DEF AllOrNothing, Complete

(* ADR-0007, Atomicity, for one creation at a time, whatever setups of     *)
(* earlier ones are still running and however many branches, stripes and   *)
(* declarations there are: a creation that failed has left no worktree,    *)
(* record or tmux session behind and no record has lost its branch, one    *)
(* that succeeded has all its declared secondaries.  Adding a worktree, a  *)
(* tmux session or a setup may fail, but what takes them back does not.    *)
(* The one exception is a session whose failed setup nobody could          *)
(* acknowledge: it stays as the script left it, without secondaries.       *)
THEOREM CreationsAreAllOrNothing ==
  ASSUME NEW r, SoleCreator(r)
  PROVE  Spec => []AllOrNothing
<1>1. "kill" \notin Failing
  BY DEF SoleCreator
<1>2. Spec => []Named
  BY <1>1, AlwaysNamed
<1>3. IInv /\ Knowing /\ Apart /\ Proper /\ [Next]_vars => Proper'
  BY EveryStepProper
<1>4. Spec => []Proper
  BY <1>3, InitProper, AlwaysKnowing, AlwaysApart, PTL DEF Spec
<1>5. Proper /\ Owned /\ Named => AllOrNothing
  BY ProperIsAllOrNothing
<1>6. QED
  BY <1>2, <1>4, <1>5, AlwaysOwned, PTL
===============================================================================
