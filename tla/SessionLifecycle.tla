--------------------------- MODULE SessionLifecycle ---------------------------
(***************************************************************************)
(* The sessions of one Project while requests and setup goroutines run     *)
(* concurrently: create_session.go, delete_session.go,                     *)
(* session_reconcile.go, materialize_secondary.go and delete_project.go.   *)
(* Each critical section of the state lock is one step, each call to git   *)
(* or tmux between them another, so whatever was read may be stale when it *)
(* is used.  A branch names its worktree directory and tmux session, as    *)
(* DeriveWorktreeSessionName does.  Leases are in ResourceLeases.          *)
(***************************************************************************)
EXTENDS SessionTopology

CONSTANTS
  Branch,       \* names of branches, strings
  Existing,     \* branches that already have a worktree when the Project is opened
  MaxSessions,  \* bound on the ids issued; the code has none
  MaxDepth,     \* limit on secondary nesting, 5 in the code
  Request,      \* requests that may be in flight at a time
  Worker,       \* setup goroutines that may run at a time; the code has no limit
  Stripes,      \* lifecycle mutexes, 32 in the code
  Operation,    \* which requests are made; "nested": worktrees cut from a session
  Hook,         \* does the Config File, read at each creation, name an on-create script?
  Declared,     \* how many secondaries the Config File declares under each root
  Failing,      \* which calls may fail for no visible reason
  Outside       \* what changes without the Daemon

ASSUME SessionLifecycleAssumption ==
  /\ Existing \subseteq Branch
  /\ MaxSessions \in Nat \ {0} /\ MaxDepth \in Nat \ {0} /\ Stripes \in Nat \ {0}
  /\ Request \cap Worker = {}
  /\ Operation \subseteq {"worktree", "nested", "secondary", "delete", "project"}
  /\ Hook \subseteq BOOLEAN /\ Declared \in Nat
  /\ Failing \subseteq {"stat", "add", "remove", "create", "kill", "setup", "acknowledge"}
  /\ Outside \subseteq {"directory", "tmux"}

VARIABLES
  project,     \* is the Project's record there?
  sessions,    \* id -> [type, parent, onDelete, branch, name, tmux]
  nextID,
  registered,  \* branches git lists a worktree for
  onDisk,      \* branches whose worktree directory exists
  branches,    \* local branches
  stray,       \* branches whose worktree a rollback could not remove: history, as
  abandoned,   \* branches whose failed setup nobody acknowledged; no action reads either
  tmux,        \* names on the tmux server
  creating,    \* reserveCreate's set
  holder,      \* who is inside WithSessionLifecycle, per stripe
  act          \* what each request and setup goroutine is doing

records == <<project, sessions, nextID>>
history == <<stray, abandoned>>
git == <<registered, onDisk, branches, history>>
locks == <<creating, holder>>
vars == <<records, git, tmux, locks, act>>

MainID == 1
SessionID == 1 .. MaxSessions
Actor == Request \cup Worker
Mode == {"fresh", "existing", "adopt"}
NoBranch == "none"
MainTmux == <<"main">>
Nobody == "nobody"

Idle == [pc |-> "idle", then |-> "idle", id |-> 0, branch |-> NoBranch, mode |-> "adopt",
         parent |-> NoParent, onDelete |-> "cascade", force |-> FALSE, undo |-> FALSE,
         snap |-> <<>>, plan |-> NoPlan, names |-> {}, made |-> <<>>]

Init ==
  /\ project = TRUE
  /\ sessions = [i \in {MainID} |-> [type |-> "main", parent |-> NoParent, onDelete |-> "cascade",
                                     branch |-> NoBranch, name |-> 1, tmux |-> MainTmux]]
  /\ nextID = MainID + 1
  /\ registered = Existing /\ onDisk = Existing /\ branches = Existing /\ stray = {} /\ abandoned = {}
  /\ tmux = {MainTmux}
  /\ creating = {}
  /\ holder = [n \in 0 .. (Stripes - 1) |-> Nobody]
  /\ act = [a \in Actor |-> Idle]

------------------------------------------------------------------------------
At(a, pc) == act[a].pc = pc
Become(a, state) == act' = [act EXCEPT ![a] = state]
Goto(a, pc) == Become(a, [act[a] EXCEPT !.pc = pc])
Forget(a) == [act[a] EXCEPT !.snap = <<>>, !.plan = NoPlan, !.names = {}]

Lock(a) ==
  /\ holder[act[a].id % Stripes] = Nobody
  /\ holder' = [holder EXCEPT ![act[a].id % Stripes] = a]
Unlock(a) == holder' = [n \in DOMAIN holder |-> IF holder[n] = a THEN Nobody ELSE holder[n]]

(* The deferred release of a creation's reservation; a setup goroutine has *)
(* none any more.                                                          *)
Release(a) == creating' = IF a \in Request THEN creating \ {act[a].branch} ELSE creating
FinishCreation(a) == Become(a, Idle) /\ Release(a) /\ Unlock(a)

(* A deletion ends, well or with an error.  In the cleanup of a failed     *)
(* setup the error is only logged and the branch is next.                  *)
EndRemoval(a) ==
  /\ Become(a, IF act[a].undo THEN [Forget(a) EXCEPT !.pc = "branch"] ELSE Idle)
  /\ Unlock(a)
  /\ UNCHANGED creating

(* Mutant: an ordinary deletion, which local changes refuse.               *)
CleanUpUnforced(a) == Become(a, [act[a] EXCEPT !.pc = "lock", !.force = FALSE, !.undo = TRUE])

(* cleanupFailedWorktreeSetup: a forced deletion of the session.           *)
CleanUp(a) == Become(a, [act[a] EXCEPT !.pc = "lock", !.force = TRUE, !.undo = TRUE])

(* Mutant: the id of a deleted session is issued again.                    *)
AddRecordReusing(record) ==
  LET id == CHOOSE i \in SessionID \ DOMAIN sessions : \A j \in SessionID \ DOMAIN sessions : i <= j
  IN  /\ nextID \in SessionID
      /\ sessions' = [i \in DOMAIN sessions \cup {id} |-> IF i = id THEN record ELSE sessions[i]]
      /\ nextID' = nextID + 1
      /\ UNCHANGED project

AddRecord(record) ==
  /\ nextID \in SessionID
  /\ sessions' = [i \in DOMAIN sessions \cup {nextID} |-> IF i = nextID THEN record ELSE sessions[i]]
  /\ nextID' = nextID + 1
  /\ UNCHANGED project

(* Mutant: the survivors keep the parent they had.                         *)
RewriteDeletesOnly(plan) == sessions' = [i \in DOMAIN sessions \ plan.delete |-> sessions[i]]

(* The write section of a removal: one Update per reparented session, in   *)
(* id order, each of which fails if the record is gone; then the deletes.  *)
Broken(plan) == DOMAIN plan.reparent \ DOMAIN sessions
Rewrite(plan) ==
  LET done == {i \in DOMAIN plan.reparent : \A b \in Broken(plan) : i < b}
  IN  sessions' = Carried(sessions,
        IF Broken(plan) = {} THEN plan
        ELSE [ok |-> TRUE, delete |-> {}, reparent |-> [i \in done |-> plan.reparent[i]]])

DeleteRecords(ids) ==
  /\ sessions' = [i \in DOMAIN sessions \ ids |-> sessions[i]]
  /\ UNCHANGED <<project, nextID>>

(* tmux resolves a -t target to the session of that name or else to the    *)
(* only one whose name begins with it.                                     *)
Killed(names) ==
  LET others == tmux \ names
      prefixed(n) == {m \in others : IsPrefix(n, m)}
  IN  others \ UNION {prefixed(n) : n \in {x \in names \ tmux : Cardinality(prefixed(x)) = 1}}

(* One kill after another, where each may fail by itself.                  *)
KillsSome(names) == "kill" \in Failing /\ \E some \in SUBSET names : tmux' = Killed(some)
KillBestEffort(names) == tmux' = Killed(names) \/ KillsSome(names)

TmuxNames(s, ids) == {s[i].tmux : i \in ids}
MissingIn(s) == {i \in OfType(s, "worktree") : s[i].branch \notin onDisk}

(* secondaryParentRoot fails on a broken chain.                            *)
HasRoot(s, id) == RootOf(s, id) # NoParent

------------------------------------------------------------------------------
(* What a client may ask for.  An id is reserved for every record a        *)
(* request may come to create, so that the bound on ids stops no request   *)
(* half-way.                                                               *)
Takes(a) ==
  LET pc == act[a].pc
      left == Declared - Len(act[a].made)
  IN  IF a \in Request /\ act[a].then = "read" /\ pc \in {"reconcile", "stat", "prune-kill",
           "prune-write", "read", "reserve", "check", "add", "tmux", "record"} THEN 1 + Declared
      ELSE IF pc \in {"hook", "running", "finalize", "materialize", "declare"} THEN left
      ELSE IF pc \in {"nest", "nest-tmux", "nest-record"} THEN 1
      ELSE 0
Room(n) == nextID + n + FoldSet(LAMBDA a, sum : sum + Takes(a), 0, Actor) <= MaxSessions + 1

StartWorktree(r, branch, mode, source) ==
  /\ "worktree" \in Operation /\ (source # NoParent => "nested" \in Operation)
  /\ At(r, "idle")
  /\ Room(1 + Declared)
  /\ Become(r, [Idle EXCEPT !.pc = "reconcile", !.then = "read", !.branch = branch,
                            !.mode = mode, !.parent = source])
  /\ UNCHANGED <<records, git, tmux, locks>>

StartSecondary(r, parent, onDelete) ==
  /\ "secondary" \in Operation
  /\ At(r, "idle")
  /\ Room(1)
  /\ Become(r, [Idle EXCEPT !.pc = "nest", !.parent = parent, !.onDelete = onDelete])
  /\ UNCHANGED <<records, git, tmux, locks>>

StartDelete(r, id, force) ==
  /\ "delete" \in Operation
  /\ At(r, "idle")
  /\ Become(r, [Idle EXCEPT !.pc = "lock", !.id = id, !.force = force])
  /\ UNCHANGED <<records, git, tmux, locks>>

StartDeleteProject(r) ==
  /\ "project" \in Operation
  /\ At(r, "idle")
  /\ Goto(r, "project")
  /\ UNCHANGED <<records, git, tmux, locks>>

------------------------------------------------------------------------------
(* reconcileWorktreeSessions                                               *)

ReconcileRead(a) ==
  /\ At(a, "reconcile")
  /\ Become(a, [act[a] EXCEPT !.pc = "stat", !.snap = sessions])
  /\ UNCHANGED <<records, git, tmux, locks>>

ReconcileStat(a) ==
  LET snap == act[a].snap
      plan == PlanWorktreePrune(snap, MissingIn(snap))
  IN  /\ At(a, "stat")
      /\ \/ IF MissingIn(snap) = {} THEN Become(a, [Forget(a) EXCEPT !.pc = act[a].then]) /\ UNCHANGED locks
            ELSE IF plan.ok
              THEN /\ Become(a, [Forget(a) EXCEPT !.pc = "prune-kill", !.plan = plan,
                                                  !.names = TmuxNames(snap, plan.delete)])
                   /\ UNCHANGED locks
            ELSE EndRemoval(a)
         \/ "stat" \in Failing /\ EndRemoval(a)
      /\ UNCHANGED <<records, git, tmux>>

PruneKill(a) ==
  /\ At(a, "prune-kill")
  /\ \/ tmux' = Killed(act[a].names) /\ Goto(a, "prune-write") /\ UNCHANGED locks
     \/ KillsSome(act[a].names) /\ EndRemoval(a)
  /\ UNCHANGED <<records, git>>

PruneWrite(a) ==
  /\ At(a, "prune-write")
  /\ Rewrite(act[a].plan)
  /\ IF Broken(act[a].plan) = {}
       THEN Become(a, [Forget(a) EXCEPT !.pc = act[a].then]) /\ UNCHANGED locks
       ELSE EndRemoval(a)
  /\ UNCHANGED <<project, nextID, git, tmux>>

------------------------------------------------------------------------------
(* CreateSession.Execute                                                   *)

(* A source that is a worktree becomes the parent, the Main Session does   *)
(* not, a secondary is refused; one session per branch.                    *)
ReadState(r) ==
  LET source == act[r].parent
      ok == /\ project
            /\ \A i \in OfType(sessions, "worktree") : sessions[i].branch # act[r].branch
            /\ source # NoParent => source \in DOMAIN sessions \ OfType(sessions, "secondary")
  IN  /\ At(r, "read")
      /\ Become(r, IF ok THEN [act[r] EXCEPT !.pc = "reserve",
                                  !.parent = IF source \in OfType(sessions, "worktree") THEN source ELSE NoParent]
                   ELSE Idle)
      /\ UNCHANGED <<records, git, tmux, locks>>

(* Mutant: creations of one name are not kept apart.                       *)
ReserveAlways(r) ==
  /\ At(r, "reserve")
  /\ Goto(r, "check") /\ creating' = creating \cup {act[r].branch}
  /\ UNCHANGED <<records, git, tmux, holder>>

Reserve(r) ==
  /\ At(r, "reserve")
  /\ IF act[r].branch \in creating
       THEN Become(r, Idle) /\ UNCHANGED creating
       ELSE Goto(r, "check") /\ creating' = creating \cup {act[r].branch}
  /\ UNCHANGED <<records, git, tmux, holder>>

(* The questions put to git, answered together.                            *)
CheckGit(r) ==
  LET b == act[r].branch
      free == b \notin registered \cup onDisk
      ok == CASE act[r].mode = "fresh" -> free /\ b \notin branches
              [] act[r].mode = "existing" -> free /\ b \in branches
              [] act[r].mode = "adopt" -> b \in registered
  IN  /\ At(r, "check")
      /\ IF ok THEN Goto(r, IF act[r].mode = "adopt" THEN "tmux" ELSE "add") /\ UNCHANGED locks
               ELSE FinishCreation(r)
      /\ UNCHANGED <<records, git, tmux>>

(* Mutant: a failure is returned without the rollback.                     *)
CreateTmuxNoRollback(r) ==
  LET name == <<act[r].branch>>
  IN  /\ At(r, "tmux")
      /\ \/ name \notin tmux /\ tmux' = tmux \cup {name} /\ Goto(r, "record") /\ UNCHANGED locks
         \/ (name \in tmux \/ "create" \in Failing) /\ FinishCreation(r) /\ UNCHANGED tmux
      /\ UNCHANGED <<records, git>>

AddWorktree(r) ==
  LET b == act[r].branch
      ok == b \notin registered \cup onDisk /\ (b \in branches <=> act[r].mode = "existing")
  IN  /\ At(r, "add")
      /\ \/ /\ ok
            /\ registered' = registered \cup {b} /\ onDisk' = onDisk \cup {b}
            /\ branches' = branches \cup {b}
            /\ stray' = stray \ {b} /\ abandoned' = abandoned \ {b}
            /\ Goto(r, "tmux")
         \/ (~ ok \/ "add" \in Failing) /\ Goto(r, "rollback") /\ UNCHANGED git
      /\ UNCHANGED <<records, tmux, locks>>

CreateTmux(r) ==
  LET name == <<act[r].branch>>
  IN  /\ At(r, "tmux")
      /\ \/ name \notin tmux /\ tmux' = tmux \cup {name} /\ Goto(r, "record")
         \/ (name \in tmux \/ "create" \in Failing) /\ Goto(r, "rollback") /\ UNCHANGED tmux
      /\ UNCHANGED <<records, git, locks>>

(* RemoveWorktree of a directory that is gone fails; git deletes no branch *)
(* that a worktree has checked out.                                        *)
WithoutWorktree(b) ==
  IF b \in onDisk THEN registered' = registered \ {b} /\ onDisk' = onDisk \ {b}
                  ELSE UNCHANGED <<registered, onDisk>>
WithoutBranch(b, created) ==
  branches' = IF created /\ b \notin registered' THEN branches \ {b} ELSE branches

(* rollbackCreatedWorktree ignores what git answers, as the cleanup of a   *)
(* request that may be gone: a worktree it cannot remove stays behind, and *)
(* with it the branch.                                                     *)
Rollback(r) ==
  LET b == act[r].branch
      added == act[r].mode # "adopt"
  IN  /\ At(r, "rollback")
      /\ \/ /\ IF added THEN WithoutWorktree(b) ELSE UNCHANGED <<registered, onDisk>>
            /\ UNCHANGED stray
         \/ /\ "remove" \in Failing /\ added /\ b \in onDisk
            /\ stray' = stray \cup {b}
            /\ UNCHANGED <<registered, onDisk>>
      /\ WithoutBranch(b, act[r].mode = "fresh")
      /\ FinishCreation(r)
      /\ UNCHANGED <<records, abandoned, tmux>>

WriteRecord(r) ==
  /\ At(r, "record")
  /\ AddRecord([type |-> "worktree", parent |-> act[r].parent, onDelete |-> "cascade",
                branch |-> act[r].branch, name |-> 1, tmux |-> <<act[r].branch>>])
  /\ Become(r, [act[r] EXCEPT !.id = nextID,
                   !.pc = IF act[r].mode = "adopt" THEN "materialize" ELSE "hook"])
  /\ UNCHANGED <<git, tmux, locks>>

(* The hook starts in a window of the session and the request returns; its *)
(* supervision goes on in a goroutine.  A Config File that cannot be read,  *)
(* or a script that cannot be started, ends in the cleanup.                *)
StartHook(r) ==
  /\ At(r, "hook")
  /\ \/ FALSE \in Hook /\ Goto(r, "materialize") /\ UNCHANGED locks
     \/ /\ TRUE \in Hook
        /\ \E w \in Worker :
             /\ At(w, "idle")
             /\ act' = [act EXCEPT ![r] = Idle, ![w] = [Forget(r) EXCEPT !.pc = "running", !.then = "idle"]]
        /\ Release(r)
        /\ UNCHANGED holder
     \/ "setup" \in Failing /\ CleanUp(r) /\ UNCHANGED locks
  /\ UNCHANGED <<records, git, tmux>>

------------------------------------------------------------------------------
(* materializeSecondarySessions, one declaration after another.  It looks  *)
(* at the siblings it made itself, not at those a user created meanwhile.  *)

DeclaredTmux(a, n) == <<act[a].branch, n>>

(* Mutant: the cleanup starts before the lock is released.                 *)
AbandonLocked(a) ==
  IF a \in Request THEN Goto(a, "undo") /\ UNCHANGED locks
                   ELSE CleanUp(a) /\ UNCHANGED locks

(* The caller's own rollback, or the cleanup after the lock is released.   *)
Abandon(a) ==
  IF a \in Request THEN Goto(a, "undo") /\ UNCHANGED locks
                   ELSE CleanUp(a) /\ Unlock(a) /\ UNCHANGED creating

Materialize(a) ==
  LET next == Len(act[a].made) + 1
      name == DeclaredTmux(a, next)
      ok == act[a].branch \in onDisk /\ name \notin tmux
  IN  /\ At(a, "materialize")
      /\ \/ /\ next > Declared
            /\ FinishCreation(a)
            /\ UNCHANGED tmux
         \/ /\ next <= Declared /\ ok
            /\ tmux' = tmux \cup {name}
            /\ Goto(a, "declare")
            /\ UNCHANGED locks
         \/ /\ next <= Declared /\ (~ ok \/ "setup" \in Failing)
            /\ IF act[a].made = <<>> THEN Abandon(a) ELSE Goto(a, "unwind") /\ UNCHANGED locks
            /\ UNCHANGED tmux
      /\ UNCHANGED <<records, git>>

Declare(a) ==
  LET n == Len(act[a].made) + 1
  IN  /\ At(a, "declare")
      /\ AddRecord([type |-> "secondary", parent |-> act[a].id, onDelete |-> "cascade",
                    branch |-> NoBranch, name |-> n, tmux |-> DeclaredTmux(a, n)])
      /\ Become(a, [act[a] EXCEPT !.pc = "materialize", !.made = Append(act[a].made, nextID)])
      /\ UNCHANGED <<git, tmux, locks>>

Unwind(a) ==
  /\ At(a, "unwind")
  /\ KillBestEffort({DeclaredTmux(a, Len(act[a].made))})
  /\ Goto(a, "unwind-record")
  /\ UNCHANGED <<records, git, locks>>

(* Mutant: the tmux sessions are taken back, the records are not.          *)
UnwindTmuxOnly(a) ==
  LET left == Front(act[a].made)
  IN  /\ At(a, "unwind-record")
      /\ IF a \in Request
           THEN Become(a, [act[a] EXCEPT !.pc = IF left = <<>> THEN "undo" ELSE "unwind", !.made = left])
           ELSE Become(a, [act[a] EXCEPT !.pc = "lock", !.force = TRUE, !.undo = TRUE])
      /\ IF a \in Request THEN UNCHANGED locks ELSE Unlock(a) /\ UNCHANGED creating
      /\ UNCHANGED <<records, git, tmux>>

UnwindRecord(a) ==
  LET left == Front(act[a].made)
      last == [act[a] EXCEPT !.made = left]
  IN  /\ At(a, "unwind-record")
      /\ DeleteRecords({Last(act[a].made)})
      /\ IF left # <<>> THEN Become(a, [last EXCEPT !.pc = "unwind"]) /\ UNCHANGED locks
         ELSE IF a \in Request THEN Become(a, [last EXCEPT !.pc = "undo"]) /\ UNCHANGED locks
         ELSE /\ Become(a, [last EXCEPT !.pc = "lock", !.force = TRUE, !.undo = TRUE])
              /\ Unlock(a) /\ UNCHANGED creating
      /\ UNCHANGED <<git, tmux>>

(* The request's own rollback: tmux, then the record, then the worktree.   *)
Undo(r) ==
  /\ At(r, "undo")
  /\ KillBestEffort({<<act[r].branch>>})
  /\ Goto(r, "undo-record")
  /\ UNCHANGED <<records, git, locks>>

UndoRecord(r) ==
  /\ At(r, "undo-record")
  /\ DeleteRecords({act[r].id})
  /\ Goto(r, "rollback")
  /\ UNCHANGED <<git, tmux, locks>>

------------------------------------------------------------------------------
(* finishWorktreeSetup                                                     *)

HookSucceeds(w) ==
  /\ At(w, "running")
  /\ Goto(w, "finalize")
  /\ UNCHANGED <<records, git, tmux, locks>>

(* The script fails and the user acknowledges it in the setup window; if   *)
(* the wait for that fails (the file cannot be read), the goroutine        *)
(* returns and cleans nothing up.                                          *)
HookFails(w) ==
  /\ At(w, "running")
  /\ \/ CleanUp(w) /\ UNCHANGED abandoned
     \/ "acknowledge" \in Failing /\ Become(w, Idle) /\ abandoned' = abandoned \cup {act[w].branch}
  /\ UNCHANGED <<records, registered, onDisk, branches, stray, tmux, locks>>

Finalize(w) ==
  /\ At(w, "finalize")
  /\ holder[act[w].id % Stripes] = Nobody
  /\ IF act[w].id \in DOMAIN sessions
       THEN Lock(w) /\ Goto(w, "materialize")
       ELSE Become(w, Idle) /\ UNCHANGED holder
  /\ UNCHANGED <<records, git, tmux, creating>>

------------------------------------------------------------------------------
(* DeleteSession.Execute                                                   *)

DeleteLocks(a) ==
  /\ At(a, "lock")
  /\ Lock(a)
  /\ Become(a, [act[a] EXCEPT !.pc = "reconcile", !.then = "plan"])
  /\ UNCHANGED <<records, git, tmux, creating>>

(* The destroy hook runs between this snapshot and the removal.            *)
DeletePlan(a) ==
  LET id == act[a].id
      type == IF id \in DOMAIN sessions THEN sessions[id].type ELSE "main"
      plan == CASE type = "worktree" -> PlanWorktreeRemoval(sessions, id)
                [] type = "secondary" -> PlanSecondaryRemoval(sessions, id)
                [] OTHER -> NoPlan
  IN  /\ At(a, "plan")
      /\ IF plan.ok
           THEN /\ Become(a, [act[a] EXCEPT !.pc = IF type = "worktree" THEN "remove" ELSE "kill",
                                 !.plan = plan, !.names = TmuxNames(sessions, plan.delete),
                                 !.branch = IF type = "worktree" THEN sessions[id].branch ELSE @])
                /\ UNCHANGED locks
           ELSE EndRemoval(a)
      /\ UNCHANGED <<records, git, tmux>>

(* Mutant: a failed removal is ignored, as a failed kill is.               *)
RemoveBestEffort(a) ==
  /\ At(a, "remove")
  /\ \/ WithoutWorktree(act[a].branch) /\ UNCHANGED <<branches, history>>
     \/ "remove" \in Failing /\ UNCHANGED git
  /\ Goto(a, "kill")
  /\ UNCHANGED <<records, tmux, locks>>

(* Unless it is a rollback it runs the destroy hook of the Project, whose  *)
(* failure stops an unforced deletion, as local changes do.                *)
RemoveWorktree(a) ==
  LET allowed == act[a].branch \in onDisk /\ (project \/ act[a].undo)
  IN  /\ At(a, "remove")
      /\ \/ /\ allowed
            /\ WithoutWorktree(act[a].branch)
            /\ Goto(a, "kill")
            /\ UNCHANGED <<branches, history, locks>>
         \/ /\ ~ allowed \/ ~ act[a].force \/ "remove" \in Failing
            /\ EndRemoval(a)
            /\ UNCHANGED git
      /\ UNCHANGED <<records, tmux>>

(* releaseAndKill is best-effort.                                          *)
Kill(a) ==
  /\ At(a, "kill")
  /\ KillBestEffort(act[a].names)
  /\ Goto(a, "write")
  /\ UNCHANGED <<records, git, locks>>

Write(a) ==
  /\ At(a, "write")
  /\ Rewrite(act[a].plan)
  /\ EndRemoval(a)
  /\ UNCHANGED <<project, nextID, git, tmux>>

(* cleanupFailedWorktreeSetup deletes the branch last, whatever became of  *)
(* the deletion before it.                                                 *)
DeleteBranch(a) ==
  /\ At(a, "branch")
  /\ UNCHANGED <<registered, onDisk, history>>
  /\ WithoutBranch(act[a].branch, act[a].mode = "fresh")
  /\ FinishCreation(a)
  /\ UNCHANGED <<records, tmux>>

------------------------------------------------------------------------------
(* createSecondary                                                         *)

FreeName(siblings) ==
  LET free == {n \in SessionID : \A i \in siblings : sessions[i].name # n}
  IN  CHOOSE n \in free : \A m \in free : n <= m

Nest(r) ==
  LET parent == act[r].parent
      ok == project /\ parent \in DOMAIN sessions /\ HasRoot(sessions, parent)
              /\ Depth(sessions, parent) < MaxDepth
  IN  /\ At(r, "nest")
      /\ IF ok
           THEN LET root == RootOf(sessions, parent)
                    name == FreeName(Children(sessions, parent))
                IN  Become(r, [act[r] EXCEPT !.pc = "nest-tmux", !.branch = sessions[root].branch,
                                  !.names = {Append(sessions[parent].tmux, name)}])
           ELSE Become(r, Idle)
      /\ UNCHANGED <<records, git, tmux, locks>>

NestTmux(r) ==
  LET ok == act[r].branch \in onDisk \cup {NoBranch} /\ act[r].names \cap tmux = {}
  IN  /\ At(r, "nest-tmux")
      /\ \/ ok /\ tmux' = tmux \cup act[r].names /\ Goto(r, "nest-record")
         \/ (~ ok \/ "create" \in Failing) /\ Become(r, Idle) /\ UNCHANGED tmux
      /\ UNCHANGED <<records, git, locks>>

NestRecord(r) ==
  /\ At(r, "nest-record")
  /\ \E name \in act[r].names :
       AddRecord([type |-> "secondary", parent |-> act[r].parent, onDelete |-> act[r].onDelete,
                  branch |-> NoBranch, name |-> Last(name), tmux |-> name])
  /\ Become(r, Idle)
  /\ UNCHANGED <<git, tmux, locks>>

------------------------------------------------------------------------------
(* DeleteProject.Execute: the sessions go, their worktrees stay.           *)

ProjectRead(r) ==
  /\ At(r, "project")
  /\ Become(r, IF project
       THEN [act[r] EXCEPT !.pc = "project-kill", !.names = TmuxNames(sessions, DOMAIN sessions),
                           !.plan = [NoPlan EXCEPT !.delete = DOMAIN sessions]]
       ELSE Idle)
  /\ UNCHANGED <<records, git, tmux, locks>>

ProjectKill(r) ==
  /\ At(r, "project-kill")
  /\ \/ tmux' = Killed(act[r].names) /\ Goto(r, "project-write")
     \/ KillsSome(act[r].names) /\ Become(r, Idle)
  /\ UNCHANGED <<records, git, locks>>

ProjectWrite(r) ==
  /\ At(r, "project-write")
  /\ sessions' = [i \in DOMAIN sessions \ act[r].plan.delete |-> sessions[i]]
  /\ project' = FALSE
  /\ Become(r, Idle)
  /\ UNCHANGED <<nextID, git, tmux, locks>>

------------------------------------------------------------------------------
(* Someone removes a worktree without the Daemon, with git or with rm.     *)
DirectoryVanishes(b) ==
  /\ "directory" \in Outside
  /\ b \in onDisk
  /\ onDisk' = onDisk \ {b}
  /\ registered' \in {registered, registered \ {b}}
  /\ UNCHANGED <<records, branches, history, tmux, locks, act>>

(* The last shell of a tmux session exits.                                 *)
TmuxExits(name) ==
  /\ "tmux" \in Outside
  /\ tmux' = tmux \ {name}
  /\ UNCHANGED <<records, git, locks, act>>

Starts(r) ==
  \/ \E b \in Branch, mode \in Mode, source \in DOMAIN sessions \cup {NoParent} :
       StartWorktree(r, b, mode, source)
  \/ \E parent \in DOMAIN sessions, onDelete \in OnDelete : StartSecondary(r, parent, onDelete)
  \/ \E id \in DOMAIN sessions, force \in BOOLEAN : StartDelete(r, id, force)
  \/ StartDeleteProject(r)

Locks(a) == DeleteLocks(a) \/ Finalize(a)

(* Everything an actor does without waiting for a person or for a mutex.   *)
Steps(a) ==
  \/ ReconcileRead(a) \/ ReconcileStat(a) \/ PruneKill(a) \/ PruneWrite(a)
  \/ ReadState(a) \/ Reserve(a) \/ CheckGit(a) \/ AddWorktree(a) \/ CreateTmux(a)
  \/ Rollback(a) \/ WriteRecord(a) \/ StartHook(a)
  \/ Materialize(a) \/ Declare(a) \/ Unwind(a) \/ UnwindRecord(a) \/ Undo(a) \/ UndoRecord(a)
  \/ DeletePlan(a) \/ RemoveWorktree(a) \/ Kill(a) \/ Write(a) \/ DeleteBranch(a)
  \/ Nest(a) \/ NestTmux(a) \/ NestRecord(a)
  \/ ProjectRead(a) \/ ProjectKill(a) \/ ProjectWrite(a)

Next ==
  \/ \E r \in Request : Starts(r)
  \/ \E a \in Actor : Steps(a) \/ Locks(a)
  \/ \E w \in Worker : HookSucceeds(w) \/ HookFails(w)
  \/ \E b \in Branch : DirectoryVanishes(b)
  \/ \E name \in tmux : TmuxExits(name)

Spec == Init /\ [][Next]_vars

(* What the Go scheduler owes a goroutine.  sync.Mutex hands itself to a   *)
(* waiter that has starved, hence strong fairness.  Nobody owes a script   *)
(* its end or a failed one its acknowledgement.                            *)
Fairness == \A a \in Actor : WF_vars(Steps(a)) /\ SF_vars(Locks(a))
FairSpec == Spec /\ Fairness

------------------------------------------------------------------------------
Record == [type: SessionType, parent: SessionID \cup {NoParent}, onDelete: OnDelete,
           branch: Branch \cup {NoBranch}, name: SessionID]
TmuxName(n) == Head(n) \in Branch \cup {"main"} /\ Tail(n) \in Seq(SessionID)
TypeOK ==
  /\ project \in BOOLEAN
  /\ DOMAIN sessions \subseteq SessionID
  /\ \A i \in DOMAIN sessions :
       TmuxName(sessions[i].tmux) /\ [f \in {"type", "parent", "onDelete", "branch", "name"} |-> sessions[i][f]] \in Record
  /\ nextID \in 1 .. (MaxSessions + 1)
  /\ registered \subseteq Branch /\ onDisk \subseteq registered /\ branches \subseteq Branch
  /\ stray \subseteq Branch /\ abandoned \subseteq Branch
  /\ creating \subseteq Branch
  /\ holder \in [0 .. (Stripes - 1) -> Actor \cup {Nobody}]
  /\ DOMAIN act = Actor

(* However requests overlap, the records never hold a cycle or a worktree  *)
(* under a secondary, the two shapes newTopologyIndex refuses every plan   *)
(* for.  (PlanWorktreeRemoval also refuses one deletion for a broken chain *)
(* above it, which a race may leave: see NoDanglingParent.)                *)
TopologyStaysValid == ValidIndex(sessions)

Quiet == \A a \in Actor : act[a] = Idle
Recorded == {sessions[i].branch : i \in OfType(sessions, "worktree")}
RecordedTmux == TmuxNames(sessions, DOMAIN sessions)

(* The worktrees the Daemon added and no rollback failed to remove.        *)
OwnWorktrees == onDisk \ (Existing \cup stray)

(* When nothing is in flight, every tmux session on the server belongs to  *)
(* a record, provided that kills do not fail, and so does every worktree   *)
(* the Daemon added except those a creation's rollback could not remove:   *)
(* creation rolls back what it made, deletion removes worktree and tmux    *)
(* session before the record.                                              *)
NothingStray == Quiet => OwnWorktrees \subseteq Recorded /\ tmux \subseteq RecordedTmux

(* As long as the Project is there, a worktree the Daemon added belongs to *)
(* a record unless the rollback of its creation failed to remove it: no    *)
(* deletion, cleanup or prune forgets a session whose worktree it could    *)
(* not remove, whatever removals, kills and setups fail and whatever       *)
(* directories and tmux sessions disappear by themselves.                  *)
WorktreesStayRecorded == Quiet /\ project => OwnWorktrees \subseteq Recorded

(* A branch has one Worktree Session, however many requests and modes ask  *)
(* for it, whichever of their steps fail and whatever is deleted           *)
(* meanwhile.  (While a deletion is in flight there may be two records.)   *)
OneSessionPerWorktree ==
  Quiet => \A i, j \in OfType(sessions, "worktree") : sessions[i].branch = sessions[j].branch => i = j

(* ADR-0007, Atomicity: a creation that failed leaves no worktree, record  *)
(* or tmux session behind, of its secondaries neither, and no session      *)
(* without its branch; one that succeeded has every declared secondary.    *)
(* Two failures are excepted: a session whose failed setup could not be    *)
(* acknowledged keeps its worktree and tmux session and gets no            *)
(* secondaries, and removals and kills must not fail.  Without nested      *)
(* worktrees: NoDanglingParent tells what those meet.                      *)
AllOrNothing ==
  Quiet =>
    /\ OwnWorktrees \subseteq Recorded
    /\ Existing \cup Recorded \subseteq branches
    /\ tmux \subseteq RecordedTmux
    /\ \A i \in OfType(sessions, "worktree") : sessions[i].branch \notin abandoned =>
         {sessions[c].name : c \in Children(sessions, i) \cap OfType(sessions, "secondary")} = 1 .. Declared
    /\ \A i \in OfType(sessions, "secondary") : sessions[i].parent \in OfType(sessions, "worktree")

(* A creation's rollback takes back the worktree it added and no other     *)
(* creation's: from its questions to git to the end of the rollback nobody *)
(* else makes a worktree for its branch, whatever is deleted meanwhile and *)
(* however many requests ask for that branch.  reserveCreate keeps them    *)
(* apart; without it a creation that fails late would roll back a worktree *)
(* that another has finished and reported.                                 *)
Adds(r) == act[r].mode # "adopt" /\ act[r].pc \in {"add", "tmux", "record", "rollback"}
RollbackTakesItsOwn ==
  /\ \A r \in Request : At(r, "add") => act[r].branch \notin onDisk
  /\ \A q, r \in Request : q # r /\ Adds(q) /\ Adds(r) => act[q].branch # act[r].branch

(* Every request ends, whatever hooks and other requests are doing: no     *)
(* mutex is kept by something that waits for a person or for the same      *)
(* mutex (cleanupFailedWorktreeSetup runs after WithSessionLifecycle).     *)
RequestsFinish == \A r \in Request : ~ At(r, "idle") ~> At(r, "idle")

------------------------------------------------------------------------------
(* What the documents say and overlapping requests break.                  *)

(* A removal leaves no session under a parent that is gone: worktree       *)
(* children are reparented, secondaries cascade (ADR-0010, ADR-0014).      *)
NoDanglingParent ==
  Quiet => \A i \in DOMAIN sessions : sessions[i].parent \in DOMAIN sessions \cup {NoParent}

(* A deletion that has removed the worktree removes the record (ADR-0008). *)
RecordsAlwaysRemoved ==
  [][\A a \in Actor : At(a, "write") /\ ~ (At(a, "write"))' => act[a].id \notin DOMAIN sessions']_vars

(* A Worktree Session is tied 1:1 to a git worktree (CONTEXT.md): with     *)
(* nobody else removing worktrees, each record has its own.                *)
SessionsHaveWorktree == Quiet => Recorded \subseteq onDisk

(* A session wraps a tmux session (CONTEXT.md): with no tmux failure, each *)
(* record has its own when nothing is in flight.                           *)
SessionsHaveTmux == Quiet => RecordedTmux \subseteq tmux

(* Deleting an inherit secondary preserves the sessions below it           *)
(* (ADR-0006): a kill ends the tmux sessions of the plan and no other.     *)
KillsOnlyPlanned ==
  [][\A a \in Actor : At(a, "kill") /\ ~ (At(a, "kill"))' => tmux \ act[a].names \subseteq tmux']_vars

(* A successful setup ends with the secondaries materialized (ADR-0016),   *)
(* although the session is usable while its setup runs.                    *)
SuccessIsKept ==
  [][\A w \in Worker : At(w, "materialize") => ~ act'[w].undo]_vars

(* The Main Session always exists (ADR-0008): the other sessions of a      *)
(* Project go with it.                                                     *)
MainAlwaysThere == DOMAIN sessions # {} => MainID \in DOMAIN sessions

------------------------------------------------------------------------------
(* With one request at a time and no setup goroutine this module           *)
(* implements SessionTree, every step of a request between its critical    *)
(* sections being a stutter or the vanishing of a directory.               *)

(* The records as SessionTree has them.                                    *)
Shape == [i \in DOMAIN sessions |->
            [type |-> sessions[i].type, parent |-> sessions[i].parent, onDelete |-> sessions[i].onDelete]]
Tree == INSTANCE SessionTree WITH sessions <- Shape, missing <- MissingIn(sessions)

(* Creation with its rollbacks, deletion with its cascades and reconcile   *)
(* with its prunes are, request by request, the atomic operations of the   *)
(* abstract tree; a refused or failed request changes nothing of it.       *)
RefinesTree == Tree!Spec
==============================================================================
