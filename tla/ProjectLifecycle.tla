---------------------------- MODULE ProjectLifecycle ----------------------------
(***************************************************************************)
(* The life of Projects: clients that find or start the daemon, open       *)
(* directories (CreateProject, with the adoption of their worktrees and    *)
(* the healing of their Main Sessions) and delete Projects, cut at every   *)
(* lock and at every call to tmux; daemons that stop and lose their        *)
(* records, and tmux sessions that outlive them.                           *)
(***************************************************************************)
EXTENDS Integers, FiniteSets, Sequences

CONSTANTS
  Client,      \* the programs that open and delete Projects
  Base,        \* the directories, and the last element of the path of each
  Branches,    \* the branches that each directory has worktrees of
  Flag,        \* what a client says of the adoption: "unsaid", "yes" or "no"
  Fault,       \* what may go wrong around the program
  MaxCommands, \* bound: how many commands are run
  MaxFaults    \* bound: how many things go wrong

Path == DOMAIN Base

ASSUME ProjectLifecycleAssumption ==
  /\ MaxCommands \in Nat /\ MaxFaults \in Nat
  /\ DOMAIN Branches = Path
  /\ Flag \subseteq {"unsaid", "yes", "no"}
  /\ Fault \subseteq {"git",      \* the worktrees cannot be listed
                     "tmux",     \* tmux does not create a session, or find one
                     "config",   \* the declared secondaries cannot be created
                     "kill",     \* tmux does not kill a session, or find it
                     "outside",  \* the user ends a tmux session
                     "crash"}    \* the daemon stops

VARIABLES
  up,        \* does a daemon listen?
  starting,  \* how many daemons have been started and do not listen yet
  projects,  \* the daemon's records
  sessions,
  ids,       \* the numbers of the next records
  tmux,      \* the names of the tmux sessions
  command,   \* of each client: where it is, and the locals of its request
  left,      \* how many commands may still be run
  faults,    \* how many things went wrong
  mishaps    \* which of them excuse an inconsistency

daemon == <<up, starting>>
records == <<projects, sessions, ids>>
vars == <<daemon, records, tmux, command, left, faults, mishaps>>

(* A session name: base.branch, or base.branch-n; a Main Session counts as *)
(* of the branch "main".  Its tmux name differs only in its separators.    *)
NameOf(base, branch, n) == [base |-> base, branch |-> branch, n |-> n]
NoName == NameOf("", "", 0)
Derive(base, branch, used) ==
  NameOf(base, branch, CHOOSE n \in 1..Cardinality(used) + 1 :
                         /\ NameOf(base, branch, n) \notin used
                         /\ \A m \in 1..n-1 : NameOf(base, branch, m) \in used)

Used == {s.name : s \in sessions}
AtPath(p) == {x \in projects : x.path = p}
OfProject(id) == {s \in sessions : s.project = id}
Mains(id) == {s \in OfProject(id) : s.worktree = ""}

(* The tmux session that a name stands for: the one so named, or else the  *)
(* only one whose name it begins.                                          *)
Meant(name) ==
  LET longer == {t \in tmux : t.base = name.base /\ t.branch = name.branch /\ name.n = 1}
  IN  IF name \in tmux THEN {name} ELSE IF Cardinality(longer) = 1 THEN longer ELSE {}
Strangers(name) == IF Meant(name) \subseteq {name} THEN {} ELSE {"prefix"}

Serving == {"reserve", "create", "declare", "undo", "forget", "targets", "heal", "mend",
            "main", "names", "adopt", "record", "reply", "kills", "kill"}
Idle ==
  [at |-> "idle",
   op |-> "", path |-> "", adopt |-> "unsaid",  \* what was asked for
   project |-> 0,    \* the Project it is about
   main |-> NoName,  \* its Main Session
   made |-> FALSE,   \* did this request make the tmux session of that?
   todo |-> <<>>,    \* the branches whose worktrees are to be adopted
   used |-> {},      \* the names that were taken when it looked
   name |-> NoName,  \* the session that is being made or killed
   found |-> {},     \* the sessions to delete, and
   alive |-> {}]     \* those not looked at yet

TypeOK ==
  /\ up \in BOOLEAN /\ starting \in 0..Cardinality(Client)
  /\ \A p \in projects : p.path \in Path /\ p.id \in 1..ids.project - 1
  /\ \A s \in sessions : s.id \in 1..ids.session - 1 /\ s.project \in 1..ids.project - 1
  /\ \A s, t \in sessions : s.id = t.id => s = t
  /\ \A c \in Client : command[c].at \in Serving \cup {"idle", "probe", "launch", "poll", "send", "ask"}
  /\ left \in 0..MaxCommands /\ faults \in 0..MaxFaults

Init ==
  /\ up = FALSE /\ starting = 0
  /\ projects = {} /\ sessions = {} /\ ids = [project |-> 1, session |-> 1]
  /\ tmux = {}
  /\ command = [c \in Client |-> Idle]
  /\ left = MaxCommands /\ faults = 0 /\ mishaps = {}

At(c, step) == command[c].at = step
Set(c, r) == command' = [command EXCEPT ![c] = r]
Go(c, step, r) == Set(c, [r EXCEPT !.at = step])
Step(c, step) == Go(c, step, command[c])
End(c) == Set(c, Idle)

Fine == UNCHANGED faults
Fails(f) == f \in Fault /\ faults < MaxFaults /\ faults' = faults + 1
Serves(c, step) == At(c, step) /\ up /\ UNCHANGED <<daemon, left>>

-----------------------------------------------------------------------------
(* The client: daemon.Ensure, and one request or two.                      *)

Ask(c) ==
  /\ At(c, "idle") /\ left > 0 /\ left' = left - 1
  /\ \/ \E p \in Path, a \in Flag :   \* tmux-coder open, in p
          Go(c, "probe", [Idle EXCEPT !.op = "open", !.path = p, !.adopt = a])
     \/ \E p \in projects :                              \* one of a list, by its number
          Go(c, "probe", [Idle EXCEPT !.op = "delete", !.path = p.path, !.project = p.id])
  /\ UNCHANGED <<daemon, records, tmux, mishaps>> /\ Fine

Waiting(c, step) == At(c, step) /\ UNCHANGED <<up, records, tmux, left, mishaps>> /\ Fine

Probe(c) ==
  /\ Waiting(c, "probe") /\ UNCHANGED starting
  /\ Step(c, IF up THEN "send" ELSE "launch")
Launch(c) == Waiting(c, "launch") /\ starting' = starting + 1 /\ Step(c, "poll")
Poll(c) ==    \* until a daemon answers, whoever started it
  Waiting(c, "poll") /\ up /\ UNCHANGED starting /\ Step(c, "send")
GiveUp(c) ==  \* after two seconds, within which a daemon that starts listens
  Waiting(c, "poll") /\ ~up /\ starting = 0 /\ UNCHANGED starting /\ End(c)
Refused(c) == \* nobody listens any more
  Waiting(c, "send") /\ ~up /\ UNCHANGED starting /\ End(c)
Answer(c) ==  \* "Create Worktree Sessions for them?", and the request again
  /\ Waiting(c, "ask") /\ UNCHANGED starting
  /\ \E a \in {"yes", "no"} : Go(c, "send", [command[c] EXCEPT !.adopt = a])

(* A daemon that has been started listens, or ends because one does.       *)
Boot ==
  /\ starting > 0 /\ starting' = starting - 1 /\ up' = TRUE
  /\ UNCHANGED <<records, tmux, command, left, mishaps>> /\ Fine

-----------------------------------------------------------------------------
(* What reaches the daemon.                                                *)

(* Two requests about one directory: what one of them finds half done.     *)
Overlapping(c) ==
  IF \E d \in Client \ {c} : command[d].at \in Serving /\ command[d].path = command[c].path
  THEN {"overlap"} ELSE {}

Unadopted(path) ==
  LET adopted == {s.worktree : s \in UNION {OfProject(p.id) : p \in AtPath(path)}}
  IN  SelectSeq(Branches[path], LAMBDA b : b \notin adopted)

Detect(c, worktrees) ==
  IF worktrees # <<>> /\ command[c].adopt = "unsaid"
  THEN Step(c, "ask")
  ELSE Go(c, "reserve", [command[c] EXCEPT !.todo = worktrees])

SendOpen(c) ==
  /\ Serves(c, "send") /\ command[c].op = "open"
  /\ \/ Fine /\ Detect(c, Unadopted(command[c].path))
     \/ Fails("git") /\ Detect(c, <<>>)
  /\ mishaps' = mishaps \cup Overlapping(c)
  /\ UNCHANGED <<records, tmux>>

SendDelete(c) ==
  LET id == command[c].project
  IN  /\ Serves(c, "send") /\ command[c].op = "delete"
      /\ \/ /\ \E p \in projects : p.id = id
            /\ Go(c, "kills", [command[c] EXCEPT !.found = OfProject(id), !.alive = OfProject(id)])
            /\ mishaps' = mishaps \cup Overlapping(c)
         \/ (\A p \in projects : p.id # id) /\ End(c) /\ UNCHANGED mishaps
      /\ UNCHANGED <<records, tmux>> /\ Fine

-----------------------------------------------------------------------------
(* CreateProject.Execute.                                                  *)

Reserve(c) ==   \* under the write lock
  LET r == command[c]
      id == ids.project
      name == Derive(Base[r.path], "main", Used)
  IN  /\ Serves(c, "reserve")
      /\ \/ /\ \E p \in AtPath(r.path) : Go(c, "targets", [r EXCEPT !.project = p.id])
            /\ UNCHANGED records
         \/ /\ AtPath(r.path) = {}
            /\ projects' = projects \cup {[id |-> id, path |-> r.path]}
            /\ sessions' = sessions \cup
                 {[id |-> ids.session, project |-> id, name |-> name, worktree |-> ""]}
            /\ ids' = [project |-> id + 1, session |-> ids.session + 1]
            /\ Go(c, "create", [r EXCEPT !.project = id, !.main = name])
      /\ UNCHANGED <<tmux, mishaps>> /\ Fine

(* tmux new-session, which refuses a name that is taken.                   *)
NewSession(name) == name \notin tmux /\ tmux' = tmux \cup {name} /\ Fine
NoNewSession(name) ==
  /\ UNCHANGED tmux
  /\ IF name \in tmux THEN Fine ELSE Fails("tmux")

CreateMain(c) ==
  LET r == command[c]
  IN  /\ Serves(c, "create")
      /\ \/ NewSession(r.main) /\ Go(c, "declare", [r EXCEPT !.made = TRUE])
         \/ NoNewSession(r.main) /\ Go(c, "undo", r)
      /\ UNCHANGED <<records, mishaps>>

Adopting(r) == IF r.adopt = "yes" THEN "names" ELSE "reply"

Declare(c) ==   \* materializeSecondarySessions, which leaves all or nothing
  /\ Serves(c, "declare")
  /\ \/ Fine /\ Step(c, Adopting(command[c]))
     \/ Fails("config") /\ Step(c, "undo")
  /\ UNCHANGED <<records, tmux, mishaps>>

(* TmuxGateway.Kill, to which an absent session is no error.               *)
Kill(name) == tmux' = tmux \ Meant(name) /\ mishaps' = mishaps \cup Strangers(name) /\ Fine
KillFails(name) ==
  Meant(name) # {} /\ Fails("kill") /\ UNCHANGED tmux /\ mishaps' = mishaps \cup {"kill"}

Undo(c) ==      \* rollback, which goes on whatever the kill says
  /\ Serves(c, "undo") /\ Step(c, "forget")
  /\ Kill(command[c].main) \/ KillFails(command[c].main)
  /\ UNCHANGED records

(* Mutant: the record of the Main Session goes, and that of the Project stays. *)
ForgetMain(c) ==
  LET r == command[c]
  IN  /\ Serves(c, "forget") /\ End(c)
      /\ sessions' = {s \in sessions : ~(s.project = r.project /\ s.name = r.main)}
      /\ UNCHANGED <<projects, ids, tmux, mishaps>> /\ Fine

Forget(c) ==
  LET r == command[c]
  IN  /\ Serves(c, "forget") /\ End(c)
      /\ sessions' = {s \in sessions : ~(s.project = r.project /\ s.name = r.main)}
      /\ projects' = {p \in projects : p.id # r.project}
      /\ UNCHANGED <<ids, tmux, mishaps>> /\ Fine

(* reconcile: the missing Main Session of a known Project is made again;   *)
(* its Secondary Sessions, which have no records here, would be as well.   *)
Targets(c) ==
  LET r == command[c]
  IN  /\ Serves(c, "targets")
      /\ \/ Mains(r.project) = {} /\ Go(c, "main", r)
         \/ \E s \in Mains(r.project) : Go(c, "heal", [r EXCEPT !.name = s.name])
      /\ UNCHANGED <<records, tmux, mishaps>> /\ Fine

Heal(c) ==
  LET name == command[c].name
  IN  /\ Serves(c, "heal")
      /\ \/ /\ Step(c, IF Meant(name) = {} THEN "mend" ELSE "main") /\ Fine
            /\ mishaps' = mishaps \cup Strangers(name)
         \/ Fails("tmux") /\ End(c) /\ UNCHANGED mishaps
      /\ UNCHANGED <<records, tmux>>

Mend(c) ==
  LET name == command[c].name
  IN  /\ Serves(c, "mend")
      /\ \/ NewSession(name) /\ Step(c, "main")
         \/ NoNewSession(name) /\ End(c)
      /\ UNCHANGED <<records, mishaps>>

MainOf(c) ==    \* it may have gone with its Project
  LET r == command[c]
  IN  /\ Serves(c, "main")
      /\ \/ Mains(r.project) = {} /\ Go(c, Adopting(r), r)
         \/ \E s \in Mains(r.project) : Go(c, Adopting(r), [r EXCEPT !.main = s.name])
      /\ UNCHANGED <<records, tmux, mishaps>> /\ Fine

(* adoptWorktrees: one tmux session and then one record for each worktree. *)
Names(c) ==
  /\ Serves(c, "names") /\ Go(c, "adopt", [command[c] EXCEPT !.used = Used])
  /\ UNCHANGED <<records, tmux, mishaps>> /\ Fine

(* Mutants: a refusal is taken for a session of one's own, or is retried.  *)
AdoptAnyway(c) ==
  LET r == command[c]
      name == Derive(Base[r.path], Head(r.todo), r.used)
  IN  /\ Serves(c, "adopt") /\ r.todo # <<>>
      /\ NewSession(name) \/ NoNewSession(name)
      /\ Go(c, "record", [r EXCEPT !.used = @ \cup {name}, !.name = name])
      /\ UNCHANGED <<records, mishaps>>
AdoptAgain(c) ==
  LET r == command[c]
      name == Derive(Base[r.path], Head(r.todo), r.used)
  IN  /\ Serves(c, "adopt") /\ r.todo # <<>>
      /\ \/ NewSession(name) /\ Go(c, "record", [r EXCEPT !.used = @ \cup {name}, !.name = name])
         \/ NoNewSession(name) /\ Go(c, "adopt", r)
      /\ UNCHANGED <<records, mishaps>>

Adopt(c) ==
  LET r == command[c]
      name == Derive(Base[r.path], Head(r.todo), r.used)
      named == [r EXCEPT !.used = @ \cup {name}, !.name = name]
  IN  /\ Serves(c, "adopt") /\ r.todo # <<>>
      /\ \/ NewSession(name) /\ Go(c, "record", named)
         \/ NoNewSession(name) /\ Go(c, "adopt", [named EXCEPT !.todo = Tail(@)])
      /\ UNCHANGED <<records, mishaps>>

Record(c) ==
  LET r == command[c]
  IN  /\ Serves(c, "record")
      /\ sessions' = sessions \cup {[id |-> ids.session, project |-> r.project,
                                     name |-> r.name, worktree |-> Head(r.todo)]}
      /\ ids' = [ids EXCEPT !.session = @ + 1]
      /\ Go(c, "adopt", [r EXCEPT !.todo = Tail(@)])
      /\ UNCHANGED <<projects, tmux, mishaps>> /\ Fine

Reply(c) ==     \* without a Main Session it panics, which ends this request only
  /\ \/ Serves(c, "reply")
     \/ Serves(c, "adopt") /\ command[c].todo = <<>>
  /\ End(c) /\ UNCHANGED <<records, tmux, mishaps>> /\ Fine

-----------------------------------------------------------------------------
(* DeleteProject.Execute.                                                  *)

(* Each session is looked for, and killed if it is there.                  *)
LookForOne(c) ==
  LET r == command[c]
  IN  /\ Serves(c, "kills") /\ UNCHANGED <<records, tmux>>
      /\ \E s \in r.alive :
           \/ /\ Go(c, IF Meant(s.name) = {} THEN "kills" ELSE "kill",
                    [r EXCEPT !.alive = @ \ {s}, !.name = s.name])
              /\ UNCHANGED mishaps /\ Fine
           \/ Fails("kill") /\ End(c) /\ mishaps' = mishaps \cup {"kill"}

KillOne(c) ==
  LET r == command[c]
  IN  /\ Serves(c, "kill") /\ UNCHANGED records
      /\ \/ Kill(r.name) /\ Step(c, "kills")
         \/ KillFails(r.name) /\ End(c)

RemoveRecords(c) ==
  LET r == command[c]
  IN  /\ Serves(c, "kills") /\ r.alive = {}
      /\ sessions' = {s \in sessions : \A f \in r.found : s.id # f.id}
      /\ projects' = {p \in projects : p.id # r.project}
      /\ End(c) /\ UNCHANGED <<ids, tmux, mishaps>> /\ Fine

-----------------------------------------------------------------------------
(* What happens around the program.                                        *)

(* The records are in memory only; the tmux sessions live on.              *)
Crash ==
  /\ Fails("crash") /\ up /\ up' = FALSE
  /\ projects' = {} /\ sessions' = {} /\ ids' = [project |-> 1, session |-> 1]
  /\ command' = [c \in Client |-> IF command[c].at \in Serving THEN Idle ELSE command[c]]
  /\ mishaps' = mishaps \cup {"crash"}
  /\ UNCHANGED <<starting, tmux, left>>

UserEnds ==
  /\ Fails("outside")
  /\ \E t \in tmux : tmux' = tmux \ {t}
  /\ mishaps' = mishaps \cup {"outside"}
  /\ UNCHANGED <<daemon, records, command, left>>

Ensure(c) == Probe(c) \/ Launch(c) \/ Poll(c) \/ GiveUp(c) \/ Refused(c)
Open(c) ==
  \/ SendOpen(c) \/ Reserve(c) \/ CreateMain(c) \/ Declare(c) \/ Undo(c) \/ Forget(c)
  \/ Targets(c) \/ Heal(c) \/ Mend(c) \/ MainOf(c)
  \/ Names(c) \/ Adopt(c) \/ Record(c) \/ Reply(c)
Delete(c) == SendDelete(c) \/ LookForOne(c) \/ KillOne(c) \/ RemoveRecords(c)

Next ==
  \/ \E c \in Client : Ask(c) \/ Answer(c)
  \/ \E c \in Client : Ensure(c) \/ Open(c) \/ Delete(c)
  \/ Boot \/ Crash \/ UserEnds

(* Programs go on and daemons that were started come up; users need not.   *)
Spec ==
  /\ Init /\ [][Next]_vars
  /\ WF_starting(Boot)
  /\ \A c \in Client : WF_command(Ensure(c) \/ Open(c) \/ Delete(c))

-----------------------------------------------------------------------------
Quiet == \A c \in Client : command[c].at \notin Serving

(* A directory has one Project, and no two sessions share a name, however  *)
(* opens and deletions overlap: a Main Session's name is reserved under    *)
(* the write lock, and that of an adopted session, which is not, is held   *)
(* by its tmux session until the record is written (create_project.go:     *)
(* 103-131, 189-200).  Worktrees of a branch named "main" are excepted:    *)
(* the reservation looks at records only (263-272), and may give a Main    *)
(* Session the name of such an adoption under way, and the rollback of     *)
(* that Main Session ends the tmux session that held the name.  A Project  *)
(* on its way out has given its names away, and who ends a tmux session    *)
(* gives its name away.  Two opens may still adopt one worktree under two  *)
(* names: see AdoptedOnce.                                                 *)
Leaving == UNION {command[c].found : c \in Client}
NamesUnique ==
  /\ \A p, q \in projects : p.path = q.path => p = q
  /\ mishaps \cap {"kill", "prefix", "outside"} = {} =>
       \A s, t \in {x \in sessions \ Leaving : x.worktree # "main"} : s.name = t.name => s = t

(* While nothing but refusals of tmux, git and the configuration goes      *)
(* wrong, and requests about one directory do not overlap, a daemon with   *)
(* no request in progress has for every Project one Main Session and no    *)
(* worktree twice, and its sessions are the sessions of tmux: neither      *)
(* create_project.go:353 nor delete_project.go:52 leaves a half of one.    *)
QuietlyConsistent ==
  Quiet /\ mishaps = {} =>
    /\ tmux = Used
    /\ \A p \in projects : Cardinality(Mains(p.id)) = 1
    /\ \A s \in sessions : \E p \in projects : s.project = p.id
    /\ \A s, t \in sessions :
         s.project = t.project /\ s.worktree = t.worktree => s = t

(* Does not hold of the code: no worktree has two Worktree Sessions.  (Two  *)
(* opens that overlap both find it unadopted; the second one that adopts   *)
(* it derives another name from the records, and so another tmux session.) *)
AdoptedOnce ==
  \A s, t \in sessions :
    s.project = t.project /\ s.worktree = t.worktree /\ s.worktree # "" => s = t

(* Whatever happens, a command ends or asks its user: of two clients that  *)
(* start a daemon the one whose daemon ends goes on with the other's       *)
(* (daemon.go:31, 71-83), and an adoption gets past what tmux refuses.     *)
CommandsFinish ==
  \A c \in Client : command[c].at # "idle" ~> command[c].at \in {"idle", "ask"}

(* "a kill of a never-created session is a harmless no-op"                 *)
(* (create_project.go:350-351).                                            *)
HarmlessRollback ==
  [][\A c \in Client : At(c, "undo") /\ ~command[c].made /\ command'[c].at = "forget"
                         => tmux' = tmux]_vars

=============================================================================
